CONSTANTS
  Devices = {d1}
  MaxLog = 1
  Recent = 1
  Hosts <- AllHosts
  ChangeCap = 2
SPECIFICATION FairSpec
INVARIANTS TypeOK BackendAgrees
PROPERTIES MendingHelps ComesUp
