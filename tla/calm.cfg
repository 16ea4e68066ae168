\* The timer leaves the Shell's procedures alone, programs fork only while on
\* the level of their static priority, and the last identifier, 7, is never
\* handed out.
CONSTANTS
  NPID = 8
  WORD = 2
  NSLOT = 2
  DEFAULT_PRIO = 0
  MAX_PRIO = 2
  MaxSpawn = 5
  KillArgs = {1, 2, 3}
  Allowed = {"create", "kill", "killmode", "fault", "fork"}
SPECIFICATION Spec
INVARIANTS TypeOK HighestRuns NoHiddenExhaustion UniqueAsids BitmapExact ParentsLive
PROPERTY ImplementsTable
CHECK_DEADLOCK FALSE
