SPECIFICATION Spec
CONSTANTS
  u1 = u1
  u2 = u2
  h1 = h1
  h2 = h2
  a1 = a1
  a2 = a2
  User = {u1, u2}
  Handler = {h1, h2}
  IP = {a1}
  Timeout = 1
  TryCount = 1
  RestrictionTime = 1
  AdminUser = u1
  NoKey = NoKey
  NoReq = NoReq
  MaxTime = 2
  MaxMagic = 1
  MaxFailed = 1
  MaxRetry = 1
SYMMETRY Symmetry
PROPERTIES
  NoLoginWhileRestricted
