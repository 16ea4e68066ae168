\* Four pages of three objects; the levels the commands ask for.
CONSTANTS
  MAX_BUDDY_ORDER = 1
  NBLOCK = 2
  MaxObject = 3
  Wanted = {0, 1}
SPECIFICATION Spec
INVARIANTS TypeOK PagesInPlace FreeChains NeverFaults
PROPERTIES ImplementsAllocator SpinsOnlyWhenFull
CHECK_DEADLOCK FALSE
