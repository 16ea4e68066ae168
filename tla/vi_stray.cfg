\* The editor saves a file in a directory that does not exist.
CONSTANTS
  NDIR = 2
  Name = {"a", "b"}
  NSLOT = 2
  NCLUSTER = 5
  FreeCount = 4
  Path <- MCPath
  Stray <- MCStray
  Moves = {}
  Value = {1, 2}
  Zero = 0
  Dots = 3
  MaxSave = 2
SPECIFICATION StraySpec
INVARIANT OthersSurvive
