CONSTANTS
  MAX_BUDDY_ORDER = 2
  NBLOCK = 2
  Wanted = {0, 1, 2}
  StackOrder = 1
  MaxForks = 2
  Interruptible = TRUE
SPECIFICATION Spec
INVARIANT InUseOnce
CHECK_DEADLOCK FALSE
