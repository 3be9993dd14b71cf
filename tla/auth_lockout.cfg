\* Three requests at once against a limit of two, a window of two ticks.
CONSTANTS
  proxy = proxy
  Requests = {r1, r2, r3}
  Addresses = {proxy}
  Callers <- MCCallers
  TokenSet = TRUE
  MaxFails = 2
  FailWindow = 2
SPECIFICATION FairSpec
INVARIANTS TypeOK TriesBounded
PROPERTIES LockoutKept LockoutEnds
