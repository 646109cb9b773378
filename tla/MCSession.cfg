SPECIFICATION Spec
CONSTANTS
  u1 = u1
  u2 = u2
  h1 = h1
  h2 = h2
  a1 = a1
  a2 = a2
  User = {u1}
  Handler = {h1, h2}
  IP = {a1, a2}
  Timeout = 1
  TryCount = 0
  RestrictionTime = 2
  AdminUser = u1
  NoKey = NoKey
  NoReq = NoReq
  MaxTime = 2
  MaxMagic = 2
  MaxFailed = 0
  MaxRetry = 0
SYMMETRY Symmetry
INVARIANTS
  SessionBoundToClient
  LeaseOutlivesKeys
PROPERTIES
  DeadStaysDead
