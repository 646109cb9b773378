SPECIFICATION FairSpec
CONSTANTS
  g1 = g1
  g2 = g2
  s1 = s1
  s2 = s2
  App = App
  Loop = {g1}
  Sub = {s1}
  Free = Free
  HasQueues = TRUE
  MaxFaults = 3
CHECK_DEADLOCK FALSE
INVARIANTS
  NoConnectionLeft
  ConnectedHasConnection
PROPERTIES
  QuietAfterUnsubscribe
  Resubscribes
