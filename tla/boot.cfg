\* Six pages besides the kernel's and four records: enough for a bridge, for a
\* split in the middle, and for every way to run out of records.
CONSTANTS
  MaxPn = 8
  KernelPn = 2
  MAX_INFO = 4
  Kernel = Kernel
  Type = {Kernel, Dynamic}
  Counts = {1, 2, 3}
  Aligns = {1, 2}
  MaxLate = 2
SPECIFICATION Spec
INVARIANTS RecordsMatchMap RefusesOnlyAround
PROPERTY ImplementsAllocator
CHECK_DEADLOCK FALSE
