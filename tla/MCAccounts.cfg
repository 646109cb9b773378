SPECIFICATION Spec
CONSTANTS
  t1 = t1
  t2 = t2
  adm = adm
  u1 = u1
  u2 = u2
  p1 = p1
  p2 = p2
  g1 = g1
  g2 = g2
  n1 = n1
  n2 = n2
  r1 = r1
  r2 = r2
  s1 = s1
  Tenant = {t1, t2}
  User = {adm, u1, u2}
  Group = {g1, g2}
  Name = {n1, n2}
  Solution = {s1}
  Profile = {p1, p2}
  Role = {"admin", "manager"}
  Request = {r1, r2}
  DefaultTenant = t1
  DefaultGroup = g1
  AdminUser = adm
  DefaultProfile = p1
  DefaultName = n1
  CloudSolution = s1
  NoRow = NoRow
  Gone = Gone
  NoReq = NoReq
  MaxChanged = 4
CONSTRAINT FewChanged
SYMMETRY Symmetry
INVARIANTS
  OneAdmin
  MembersWithinTenant
  UniqueGroupNames
PROPERTIES
  TenantIsolation
  AdminUntouched
  OrdinaryUsersChangeThemselves
