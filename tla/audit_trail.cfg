\* Two goroutines log three events into a ring of two; one client.
CONSTANTS
  Loggers = {g1, g2}
  Streams = {s1}
  Hooks = {h1}
  Kinds <- MCKinds
  Alerting <- MCAlerting
  Filter <- MCFilter
  RingSize = 2
  BatchLimit = 2
  ChanCap = 1
  Cooldown = 2
  MaxRetries = 2
  LogCap = 3
  TimeCap = 2
SPECIFICATION FairSpec
INVARIANTS TypeOK RingIsTail NoneTwice StreamAccounts AlertsPaced HeldBackForCause
PROPERTIES LogReturns
