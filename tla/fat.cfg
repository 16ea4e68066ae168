\* Two directories, three clusters for files; moves keep the name.
CONSTANTS
  NDIR = 2
  Name = {"a", "b"}
  NSLOT = 2
  NCLUSTER = 5
  FreeCount = 4
  Path <- MCPath
  Moves <- MCMoves
  Value = {1, 2}
  Zero = 0
  Dots = 3
  MaxSave = 2
SPECIFICATION Spec
INVARIANTS TypeOK CardSound OthersSurvive
PROPERTY ImplementsStore
