SPECIFICATION Spec
CONSTANTS
  t1 = t1
  t2 = t2
  u1 = u1
  u2 = u2
  c1 = c1
  fail = fail
  Tenant = {t1, t2}
  User = {u1, u2}
  Code = {c1, fail}
  CodeRow <- MCCodeRow
  TenantOf <- MCTenantOf
  ConfigRequest <- MCConfigRequest
  ReceiveRequest <- MCReceiveRequest
  Input <- MCInput
  InitialConfig <- MCInitialConfig
  InitialTenantRcv <- MCInitialTenantRcv
  InitialUserRcv <- MCInitialUserRcv
  FailCode = fail
  Profile <- MCProfile
  InitialProfile <- MCInitialProfile
  KnownZone = {"UTC"}
  GlobalZone = "UTC"
  Credential <- MCCredential
  Mailbox = {"text"}
  NoTenant = NoTenant
  NoRow = NoRow
  None = None
  MaxInputs = 1
  MaxReports = 2
  MaxDeliveries = 2
  MaxFaults = 1
  MaxChanges = 2
CHECK_DEADLOCK FALSE
PROPERTY
  ChangesOneUser
