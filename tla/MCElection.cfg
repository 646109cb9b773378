SPECIFICATION FairSpec
CONSTANTS
  p1 = p1
  p2 = p2
  p3 = p3
  Proc = {p1, p2, p3}
  Nobody = Nobody
  MaxSessions = 3
  MaxFaults = 1
CHECK_DEADLOCK FALSE
INVARIANTS
  MutualExclusion
PROPERTIES
  ImplementsLock
  WaitEnds
  SupersededIsTold
