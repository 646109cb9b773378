SPECIFICATION FairSpec
CONSTANTS
  n1 = n1
  n2 = n2
  c1 = c1
  c2 = c2
  t1 = t1
  Node = {n1, n2}
  Registry = Registry
  Closer = {c1, c2}
  Caller = {t1}
  NoHandle = NoHandle
  MaxOutages = 3
CHECK_DEADLOCK FALSE
INVARIANTS
  NoPoolLost
  OneMonitor
PROPERTIES
  TxFailsOnlyWhenLost
  Failover
  CloseStopsReconnect
