\* Room on the base level for every process there can be.
CONSTANTS
  NPID = 4
  WORD = 2
  NSLOT = 4
  DEFAULT_PRIO = 0
  MAX_PRIO = 2
  MaxSpawn = 3
  KillArgs = {3}
  Allowed = {"create", "proc", "kill", "fault", "fork", "fork_demoted", "timer_in_shell"}
SPECIFICATION FairSpec
PROPERTY NobodyStarves
CHECK_DEADLOCK FALSE
