CONSTANTS
  a1 = a1 k1 = k1
  None = None CreateNew = CreateNew
  Keys = {k1}
  EnvKey = k1
  Accounts = {a1}
  AccountsOf <- OneAccount
  OldTunnels = {t1, t2}
  AccountOf <- AllInOne
  NewTunnels = {}
  Zones = {z1}
  Words = {x}
  Cap = 5
  EditCap = 1
  Roles = {"controller"}
  Tiers = {"standard"}
  TypedIn = t1
SPECIFICATION Spec
INVARIANT TokenFitsTunnel
CHECK_DEADLOCK FALSE
