\* A node falls silent while a request of its own may still be running;
\* an event channel of one, so that announcing and broadcasting happen too.
CONSTANTS
  Nodes = {n1}
  Handlers = {h1}
  Items <- MCItems
  Reports <- OneItemReports
  Policies <- NoPolicies
  Kinds = {"enroll", "report", "heartbeat", "hangup", "restart"}
  DegradedAfter = 0
  OfflineAfter = 1
  EventCap = 1
SPECIFICATION FairSpec
PROPERTIES SilentSettlesOffline LiveNodeComesBack
