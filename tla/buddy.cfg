\* Two blocks of level 2: every split and every merge happens, with a level
\* above and one below that of the stacks.
CONSTANTS
  MAX_BUDDY_ORDER = 2
  NBLOCK = 2
  Wanted = {0, 1, 2}
  StackOrder = 1
  MaxForks = 2
  Interruptible = FALSE
SPECIFICATION Spec
INVARIANTS TypeOK Tiling Coalesced
PROPERTIES RefusesOnlyWhenFull ImplementsAllocator
CHECK_DEADLOCK FALSE
