\* The same in a partition that begins at block 1 of the card.
CONSTANTS
  NBUF = 2
  NBLOCK = 3
  NSECTOR = 2
  Base = 1
  Value = {0, 1}
  Zero = 0
  ReadFails = {}
  WriteFails = {}
SPECIFICATION Spec
PROPERTY ReadsBack
