SPECIFICATION FairSpec
CONSTANTS
  p1 = p1
  p2 = p2
  p3 = p3
  Procs <- MCProcs
  NoPid = nobody
  MaxKills = 2
INVARIANTS
  MutualExclusion
PROPERTIES
  AbandonedLockIsCleared
CHECK_DEADLOCK FALSE
