SPECIFICATION FairSpec
CONSTANTS
  g1 = g1
  g2 = g2
  s1 = s1
  s2 = s2
  App = App
  Loop = {g1, g2}
  Sub = {}
  Free = Free
  HasQueues = TRUE
  MaxFaults = 2
CHECK_DEADLOCK FALSE
PROPERTIES
  ReconnectEnds
