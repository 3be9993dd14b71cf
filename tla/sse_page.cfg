\* One node that joins and leaves, two requests in flight, an event channel
\* of two, a page channel of one; hang-ups, reconnections and restarts.
CONSTANTS
  Nodes = {n1}
  Handlers = {h1, h2}
  Items <- MCItems
  Reports <- EmptyReport
  Policies <- NoPolicies
  Kinds = {"enroll", "delete", "hangup", "restart"}
  DegradedAfter = 0
  OfflineAfter = 1
  EventCap = 2
  Clients = {c1}
  ChanCap = 1
SPECIFICATION SSESpec
INVARIANTS SSETypeOK PageMatchesRegistry
