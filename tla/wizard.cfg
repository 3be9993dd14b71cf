CONSTANTS
  a1 = a1 k1 = k1
  None = None CreateNew = CreateNew
  Keys = {k1, k2}
  EnvKey = k1
  Accounts = {a1}
  AccountsOf <- OneAccount
  OldTunnels = {t1}
  AccountOf <- AllInOne
  NewTunnels = {t3}
  Zones = {z1}
  Words = {x}
  Cap = 5
  EditCap = 2
  Roles = {"controller", "proxy"}
  Tiers = {"standard", "self_hosted"}
  TypedIn = t1
SPECIFICATION Spec
INVARIANTS TypeOK CreatesAccounted ReviewIsShown
CHECK_DEADLOCK FALSE
