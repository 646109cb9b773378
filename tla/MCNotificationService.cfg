SPECIFICATION FairSpec
CONSTANTS
  t1 = t1
  t2 = t2
  s1 = s1
  s2 = s2
  c1 = c1
  c2 = c2
  Tenant = {t1, t2}
  Code = {c1, c2}
  Stream = {s1}
  CodeRow <- MCCodeRow
  NoRow = NoRow
  Asked <- MCAsked
  Interval <- MCInterval
  None = None
  MaxEvents = 2
  MaxFaults = 2
CHECK_DEADLOCK FALSE
INVARIANTS
  StreamFaithful
PROPERTIES
  ShutdownEnds
  StreamDelivers
