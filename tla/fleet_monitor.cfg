\* One node; monitor passes, heartbeats, overlapping reports, hang-ups,
\* deletion and controller restarts.
CONSTANTS
  Nodes = {n1}
  Handlers = {h1, h2}
  Items <- MCItems
  Reports <- OneItemReports
  Policies <- NoPolicies
  Kinds = {"enroll", "report", "heartbeat", "delete", "hangup", "restart"}
  DegradedAfter = 0
  OfflineAfter = 1
  EventCap = 0
SPECIFICATION Spec
INVARIANTS TypeOK SettledCounts
PROPERTIES MonitorMarksOnlyStale OfflineUntilContact
