\* Three blocks of two sectors in two buffers; an unpartitioned card.
CONSTANTS
  NBUF = 2
  NBLOCK = 3
  NSECTOR = 2
  Base = 0
  Value = {0, 1}
  Zero = 0
  ReadFails = {1}
  WriteFails = {1, 2}
SPECIFICATION Spec
INVARIANTS TypeOK OneCopy CleanIsStored
PROPERTIES VictimIsCheapest ReadsBack
