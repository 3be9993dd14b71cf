----------------------------- MODULE FleetStore -----------------------------
(***************************************************************************)
(* The node registry kept by SQLiteStore (pkg/fleet/sqlite.go).            *)
(*                                                                         *)
(* Every method of the store takes the store's mutex and runs one SQL      *)
(* statement, so one statement is one atomic step and one operator here.   *)
(* The columns of table `nodes` the fleet logic reads are one function     *)
(* each, over the set of all node ids that will ever be handed out.  An    *)
(* UPDATE ... WHERE id = n that finds no row changes nothing, and reports  *)
(* no error: every statement below is written that way.                    *)
(***************************************************************************)
EXTENDS Integers

CONSTANTS
  Nodes,          \* node ids; Enroll draws 16 random bytes, an id is never reused
  Items,          \* checklist items a report can carry: [name, status] records
  DegradedAfter,  \* MonitorConfig.DegradedAfter, in ticks
  OfflineAfter    \* MonitorConfig.OfflineAfter, in ticks

(* NewMonitor's defaults are 90s and 180s; a report is never sent at a     *)
(* finer grain than the thresholds are told apart.                         *)
ASSUME ThresholdAssumption ==
  /\ DegradedAfter \in Nat
  /\ OfflineAfter \in Nat
  /\ DegradedAfter < OfflineAfter

VARIABLES
  life,    \* "new": id not handed out yet; "registered": has a row; "deleted"
  status,  \* column status
  age,     \* now - last_heartbeat in ticks, saturated one past OfflineAfter
  fail,    \* compliance_fail > 0
  comp,    \* column compliance_status
  latest   \* last inserted row of compliance_reports ({}: none)

storeVars == <<life, status, age, fail, comp, latest>>

Statuses == {"online", "degraded", "offline"}

(* grace_period is declared in types.go but never written by the code.     *)
ComplianceStatuses == {"unknown", "compliant", "non_compliant"}

(* Time past OfflineAfter changes no comparison the monitor makes.         *)
MaxAge == OfflineAfter + 1

StoreTypeOK ==
  /\ life \in [Nodes -> {"new", "registered", "deleted"}]
  /\ status \in [Nodes -> Statuses]
  /\ age \in [Nodes -> 0 .. MaxAge]
  /\ fail \in [Nodes -> BOOLEAN]
  /\ comp \in [Nodes -> ComplianceStatuses]
  /\ latest \in [Nodes -> SUBSET Items]

Registered(n) == life[n] = "registered"

(* The empty database after migrate().                                     *)
StoreInit ==
  /\ life = [n \in Nodes |-> "new"]
  /\ status = [n \in Nodes |-> "online"]
  /\ age = [n \in Nodes |-> 0]
  /\ fail = [n \in Nodes |-> FALSE]
  /\ comp = [n \in Nodes |-> "unknown"]
  /\ latest = [n \in Nodes |-> {}]

-----------------------------------------------------------------------------
(* UPDATE nodes SET column = v WHERE id = n, on one column.                *)
Updated(column, n, v) ==
  IF Registered(n) THEN [column EXCEPT ![n] = v] ELSE column

(* Slip: Enroll builds the Node without its Status field.                  *)
CreateNodeNoStatus(n) ==
  /\ life[n] = "new"
  /\ life' = [life EXCEPT ![n] = "registered"]
  /\ status' = [status EXCEPT ![n] = ""]
  /\ age' = [age EXCEPT ![n] = 0]
  /\ UNCHANGED <<fail, comp, latest>>

(* INSERT INTO nodes: a fresh id, online, heartbeat now, other columns at  *)
(* their defaults.                                                         *)
CreateNode(n) ==
  /\ life[n] = "new"
  /\ life' = [life EXCEPT ![n] = "registered"]
  /\ status' = [status EXCEPT ![n] = "online"]
  /\ age' = [age EXCEPT ![n] = 0]
  /\ UNCHANGED <<fail, comp, latest>>

(* DELETE FROM nodes, with the reports cascaded: the columns go back to    *)
(* the values that stand for "no row".                                     *)
DeleteNode(n) ==
  /\ life' = Updated(life, n, "deleted")
  /\ status' = Updated(status, n, "online")
  /\ age' = Updated(age, n, 0)
  /\ fail' = Updated(fail, n, FALSE)
  /\ comp' = Updated(comp, n, "unknown")
  /\ latest' = Updated(latest, n, {})

(* Slip: a heartbeat leaves the status to the reports.                     *)
HeartbeatTimestampOnly(n) ==
  /\ age' = Updated(age, n, 0)
  /\ UNCHANGED <<life, status, fail, comp, latest>>

(* A heartbeat sets the timestamp and, whatever it was, the status.        *)
UpdateNodeHeartbeat(n) ==
  /\ age' = Updated(age, n, 0)
  /\ status' = Updated(status, n, "online")
  /\ UNCHANGED <<life, fail, comp, latest>>

UpdateNodeStatus(n, s) ==
  /\ status' = Updated(status, n, s)
  /\ UNCHANGED <<life, age, fail, comp, latest>>

UpdateNodeCompliance(n, failed) ==
  /\ fail' = Updated(fail, n, failed)
  /\ UNCHANGED <<life, status, age, comp, latest>>

UpdateNodeComplianceStatus(n, c) ==
  /\ comp' = Updated(comp, n, c)
  /\ UNCHANGED <<life, status, age, fail, latest>>

StoreReport(n, rep) ==
  /\ latest' = Updated(latest, n, rep)
  /\ UNCHANGED <<life, status, age, fail, comp>>

(* The clock moves on for every row.                                       *)
Elapse ==
  /\ \E n \in Nodes : Registered(n) /\ age[n] < MaxAge
  /\ age' = [n \in Nodes |-> IF Registered(n) /\ age[n] < MaxAge
                             THEN age[n] + 1 ELSE age[n]]
  /\ UNCHANGED <<life, status, fail, comp, latest>>
=============================================================================
