\* One node, two overlapping requests, policies replaced at any step.
CONSTANTS
  Nodes = {n1}
  Handlers = {h1, h2}
  Items <- MCItems
  Reports <- TwoItemReports
  Policies <- AllPolicies
  Kinds = {"enroll", "report", "policy", "delete"}
  DegradedAfter = 0
  OfflineAfter = 1
  EventCap = 0
SPECIFICATION Spec
INVARIANTS VerdictSound
