SPECIFICATION FairSpec
CONSTANTS
  t1 = t1
  t2 = t2
  c1 = c1
  Tenant = {t1, t2}
  Code = {c1}
  CodeRow <- MCCodeRow
  Reader <- MCReader
  EventsRequest <- MCEventsRequest
  BadDate = BadDate
  NoRow = NoRow
  DefaultPeriod = 1
  MaxPeriod = 1
  Month = 1
  MinLimit = 1
  MaxLimit = 2
  MaxEvents = 3
  MaxDays = 3
  MaxSets = 1
  MaxFaults = 1
CHECK_DEADLOCK FALSE
INVARIANTS
  CleanedInTime
  PagesComplete
PROPERTIES
  NothingCleanedEarly
  StopReturns
