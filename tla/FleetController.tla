--------------------------- MODULE FleetController ---------------------------
(***************************************************************************)
(* The fleet controller: the HTTP handlers of FleetHandler                 *)
(* (internal/dashboard/fleet_handler.go) and the stale-node Monitor        *)
(* (pkg/fleet/monitor.go) running against one SQLiteStore.                 *)
(*                                                                         *)
(* net/http runs each request on a goroutine of its own: job[h] is the     *)
(* program counter and the locals of goroutine h.  Each store statement,   *)
(* each read of the shared policy pointer and each send on the event       *)
(* channel is one step, so that requests, the monitor and policy updates   *)
(* interleave between any two of them.                                     *)
(***************************************************************************)
EXTENDS FleetStore, Sequences

CONSTANTS
  Handlers,   \* goroutines: bounds the requests in flight at one time
  Kinds,      \* what happens to the controller of this instance, see Happenings
  Reports,    \* the reports nodes send: sets of items
  Policies,   \* the policies an administrator may PUT
  EventCap    \* capacity of eventCh (256 in main.go); 0: built without one

Modes == {"enforce", "audit", "disabled"}
PolicyType == [mode : Modes, osFIPS : BOOLEAN, diskEnc : BOOLEAN]
Happenings == {"enroll", "report", "heartbeat", "delete", "policy",
               "hangup", "restart"}

ASSUME InputAssumption ==
  /\ Reports \subseteq SUBSET Items
  /\ Policies \subseteq PolicyType
  /\ Kinds \subseteq Happenings
  /\ EventCap \in Nat

VARIABLES
  policy,   \* fh.policy: in memory only, read and written without a lock
  job,      \* job[h]: the request goroutine h is serving
  verdict,  \* verdict[n]: what the running monitor.check still has to do for n
  eventCh,  \* the buffered event channel
  \* history variables: read by properties only
  judged,   \* judged[n]: the report the last compliance verdict on n was about
  changed,  \* changed[n]: fh.policy was replaced since that evaluation began
  beaten,   \* nodes whose heartbeat was written since the monitor's snapshot
  mixed     \* mixed[n]: n's last report overlapped another or was cut short

controlVars == <<policy, job, verdict, eventCh>>
historyVars == <<judged, changed, beaten, mixed>>
vars == <<storeVars, controlVars, historyVars>>

EventTypes == {"node_joined", "node_updated", "node_removed",
               "node_degraded", "node_offline"}
Event == [type : EventTypes, node : Nodes, status : Statuses]

(* The program points between the steps of a handler.                      *)
ReportPoints == {"store", "counts", "beat", "status", "read", "emit",
                 "eval", "items"}
Points == ReportPoints \cup {"heartbeat", "joined", "delete"}

Idle == [pc |-> "idle"]
Request == [pc : Points, node : Nodes, rep : SUBSET Items,
            todo : SUBSET Items, ok : BOOLEAN, stale : BOOLEAN,
            type : EventTypes, seen : Statuses]

TypeOK ==
  /\ StoreTypeOK
  /\ policy \in PolicyType
  /\ job \in [Handlers -> {Idle} \cup Request]
  /\ verdict \in [Nodes -> {"keep", "degrade", "offline",
                            "told_degraded", "told_offline"}]
  /\ eventCh \in Seq(Event)
  /\ Len(eventCh) <= EventCap
  /\ judged \in [Nodes -> SUBSET Items]
  /\ changed \in [Nodes -> BOOLEAN]
  /\ beaten \in SUBSET Nodes
  /\ mixed \in [Nodes -> BOOLEAN]

(* NewFleetHandler: main.go passes no Policy, whatever mode the controller *)
(* was started with.                                                       *)
DefaultPolicy == [mode |-> "audit", osFIPS |-> FALSE, diskEnc |-> FALSE]

Init ==
  /\ StoreInit
  /\ policy = DefaultPolicy
  /\ job = [h \in Handlers |-> Idle]
  /\ verdict = [n \in Nodes |-> "keep"]
  /\ eventCh = <<>>
  /\ judged = [n \in Nodes |-> {}]
  /\ changed = [n \in Nodes |-> FALSE]
  /\ beaten = {}
  /\ mixed = [n \in Nodes |-> FALSE]

-----------------------------------------------------------------------------
(* What the handlers compute.                                              *)

(* Summary.Failed > 0 of the report's checklist.                           *)
HasFailure(rep) == \E i \in rep : i.status = "fail"

(* The test evaluateNodeCompliance makes of one item: by item name.        *)
Violates(i, p) ==
  /\ i.status # "pass"
  /\ \/ p.osFIPS /\ i.name = "OS FIPS mode"
     \/ p.diskEnc /\ i.name = "Disk encryption"
     \/ i.name = "FIPS backend active"

Meets(rep, p) == \A i \in rep : ~Violates(i, p)

Busy(h) == job[h].pc # "idle"
At(h, pc) == job[h].pc = pc
Goto(h, pc) == job' = [job EXCEPT ![h].pc = pc]
Done(h) == job' = [job EXCEPT ![h] = Idle]
Reporting(n) == {h \in Handlers : job[h].pc \in ReportPoints /\ job[h].node = n
                                    /\ job[h].type = "node_updated"}

NewRequest(pc, n, rep, type) ==
  [pc |-> pc, node |-> n, rep |-> rep, todo |-> {}, ok |-> TRUE,
   stale |-> FALSE, type |-> type, seen |-> "online"]

(* Contact that lands while a monitor pass is under way.                   *)
Checking == \E n \in Nodes : verdict[n] # "keep"
Heard(n) == IF Checking THEN beaten \cup {n} ELSE beaten

(* A select with a default: the event is lost when the channel is full.    *)
Emit(type, n, s) ==
  eventCh' = IF Len(eventCh) < EventCap
             THEN Append(eventCh, [type |-> type, node |-> n, status |-> s])
             ELSE eventCh

-----------------------------------------------------------------------------
(* HandleReport.  authenticateNode finds the row by API key; without a row *)
(* the answer is 403 and nothing changes.                                  *)
ReportArrives(h, n, rep) ==
  /\ "report" \in Kinds
  /\ ~Busy(h)
  /\ Registered(n)
  /\ job' = [job EXCEPT ![h] = NewRequest("store", n, rep, "node_updated")]
  /\ mixed' = [mixed EXCEPT ![n] = Reporting(n) # {}]
  /\ UNCHANGED <<storeVars, policy, verdict, eventCh, judged, changed, beaten>>

ReportStored(h) ==
  /\ At(h, "store")
  /\ StoreReport(job[h].node, job[h].rep)
  /\ Goto(h, "counts")
  /\ UNCHANGED <<policy, verdict, eventCh, historyVars>>

(* Slip: a failure once counted is never taken back.                       *)
CountsKept(h) ==
  /\ At(h, "counts")
  /\ UpdateNodeCompliance(job[h].node,
                          fail[job[h].node] \/ HasFailure(job[h].rep))
  /\ Goto(h, "beat")
  /\ UNCHANGED <<policy, verdict, eventCh, historyVars>>

CountsUpdated(h) ==
  /\ At(h, "counts")
  /\ UpdateNodeCompliance(job[h].node, HasFailure(job[h].rep))
  /\ Goto(h, "beat")
  /\ UNCHANGED <<policy, verdict, eventCh, historyVars>>

ReportBeat(h) ==
  /\ At(h, "beat")
  /\ UpdateNodeHeartbeat(job[h].node)
  /\ beaten' = Heard(job[h].node)
  /\ Goto(h, "status")
  /\ UNCHANGED <<policy, verdict, eventCh, judged, changed, mixed>>

StatusFromReport(h) ==
  /\ At(h, "status")
  /\ UpdateNodeStatus(job[h].node,
                      IF HasFailure(job[h].rep) THEN "degraded" ELSE "online")
  /\ Goto(h, IF EventCap = 0 THEN "eval" ELSE "read")
  /\ UNCHANGED <<policy, verdict, eventCh, historyVars>>

(* GetNode after the writes; a node deleted meanwhile emits nothing.       *)
ReadBack(h) ==
  /\ At(h, "read")
  /\ job' = [job EXCEPT ![h].pc = IF Registered(job[h].node)
                                   THEN "emit" ELSE "eval",
                        ![h].seen = status[job[h].node]]
  /\ UNCHANGED <<storeVars, policy, verdict, eventCh, historyVars>>

(* The send shared by HandleReport, HandleEnroll and HandleDeleteNode.     *)
EmitEvent(h) ==
  /\ At(h, "emit")
  /\ Emit(job[h].type, job[h].node, job[h].seen)
  /\ IF job[h].type = "node_updated" THEN Goto(h, "eval") ELSE Done(h)
  /\ UNCHANGED <<storeVars, policy, verdict, historyVars>>

(* evaluateNodeCompliance: the mode, then the requirements item by item,   *)
(* then the verdict.  Each read of fh.policy sees the pointer of that      *)
(* moment.                                                                 *)
EvaluationStarts(h) ==
  /\ At(h, "eval")
  /\ IF policy.mode = "disabled"
     THEN Done(h)
     ELSE job' = [job EXCEPT ![h].pc = "items", ![h].todo = job[h].rep,
                             ![h].ok = TRUE, ![h].stale = FALSE]
  /\ UNCHANGED <<storeVars, policy, verdict, eventCh, historyVars>>

(* Slip: the last item decides, instead of any failing one.                *)
LastItemDecides(h, i) ==
  /\ At(h, "items")
  /\ i \in job[h].todo
  /\ job' = [job EXCEPT ![h].todo = @ \ {i},
                        ![h].ok = ~Violates(i, policy)]
  /\ UNCHANGED <<storeVars, policy, verdict, eventCh, historyVars>>

ItemEvaluated(h, i) ==
  /\ At(h, "items")
  /\ i \in job[h].todo
  /\ job' = [job EXCEPT ![h].todo = @ \ {i},
                        ![h].ok = @ /\ ~Violates(i, policy)]
  /\ UNCHANGED <<storeVars, policy, verdict, eventCh, historyVars>>

VerdictWritten(h) ==
  /\ At(h, "items")
  /\ job[h].todo = {}
  /\ UpdateNodeComplianceStatus(job[h].node,
       IF job[h].ok THEN "compliant" ELSE "non_compliant")
  /\ judged' = Updated(judged, job[h].node, job[h].rep)
  /\ changed' = Updated(changed, job[h].node, job[h].stale)
  /\ Done(h)
  /\ UNCHANGED <<policy, verdict, eventCh, beaten, mixed>>

-----------------------------------------------------------------------------
(* HandleHeartbeat: authenticate, then one update.                         *)
HeartbeatArrives(h, n) ==
  /\ "heartbeat" \in Kinds
  /\ ~Busy(h)
  /\ Registered(n)
  /\ job' = [job EXCEPT ![h] = NewRequest("heartbeat", n, {}, "node_updated")]
  /\ UNCHANGED <<storeVars, policy, verdict, eventCh, historyVars>>

HeartbeatWritten(h) ==
  /\ At(h, "heartbeat")
  /\ UpdateNodeHeartbeat(job[h].node)
  /\ beaten' = Heard(job[h].node)
  /\ Done(h)
  /\ UNCHANGED <<policy, verdict, eventCh, judged, changed, mixed>>

(* HandleEnroll, from the moment Enroll has accepted the token: CreateNode *)
(* and then GetNode for the event.                                         *)
NodeEnrolled(h, n) ==
  /\ "enroll" \in Kinds
  /\ ~Busy(h)
  /\ CreateNode(n)
  /\ IF EventCap = 0
     THEN UNCHANGED job
     ELSE job' = [job EXCEPT ![h] = NewRequest("joined", n, {}, "node_joined")]
  /\ beaten' = Heard(n)
  /\ UNCHANGED <<policy, verdict, eventCh, judged, changed, mixed>>

JoinedReadBack(h) ==
  /\ At(h, "joined")
  /\ IF Registered(job[h].node)
     THEN job' = [job EXCEPT ![h].pc = "emit",
                             ![h].seen = status[job[h].node]]
     ELSE Done(h)
  /\ UNCHANGED <<storeVars, policy, verdict, eventCh, historyVars>>

(* HandleDeleteNode: GetNode (404 without a row), DeleteNode, event.       *)
DeleteArrives(h, n) ==
  /\ "delete" \in Kinds
  /\ ~Busy(h)
  /\ Registered(n)
  /\ job' = [job EXCEPT ![h] =
               [NewRequest("delete", n, {}, "node_removed")
                  EXCEPT !.seen = status[n]]]
  /\ UNCHANGED <<storeVars, policy, verdict, eventCh, historyVars>>

NodeDeleted(h) ==
  /\ At(h, "delete")
  /\ DeleteNode(job[h].node)
  /\ judged' = Updated(judged, job[h].node, {})
  /\ changed' = Updated(changed, job[h].node, FALSE)
  /\ IF EventCap = 0 THEN Done(h) ELSE Goto(h, "emit")
  /\ UNCHANGED <<policy, verdict, eventCh, beaten, mixed>>

(* The client hangs up or times out: r.Context() is cancelled, the         *)
(* statements still to come fail and their errors are dropped.  A send on  *)
(* the channel does not look at the context.                               *)
ClientGone(h) ==
  /\ "hangup" \in Kinds
  /\ Busy(h)
  /\ ~At(h, "emit")
  /\ Done(h)
  /\ mixed' = [mixed EXCEPT ![job[h].node] = @ \/ h \in Reporting(job[h].node)]
  /\ UNCHANGED <<storeVars, policy, verdict, eventCh, judged, changed, beaten>>

(* HandleUpdatePolicy: the pointer is replaced, no node is re-evaluated.   *)
UpdatePolicy(p) ==
  /\ "policy" \in Kinds
  /\ policy' = p
  /\ changed' = [n \in Nodes |-> TRUE]
  /\ job' = [h \in Handlers |-> IF At(h, "items")
                                THEN [job[h] EXCEPT !.stale = TRUE]
                                ELSE job[h]]
  /\ UNCHANGED <<storeVars, verdict, eventCh, judged, beaten, mixed>>

-----------------------------------------------------------------------------
(* Slips in the tests of Monitor.check: the two thresholds swapped, the    *)
(* current status not looked at before degrading, and offline reached from *)
(* online only.                                                            *)
SwappedVerdict(n) ==
  IF ~Registered(n) THEN "keep"
  ELSE IF age[n] > DegradedAfter /\ status[n] # "offline" THEN "offline"
  ELSE IF age[n] > OfflineAfter /\ status[n] = "online" THEN "degrade"
  ELSE "keep"

BlindVerdict(n) ==
  IF ~Registered(n) THEN "keep"
  ELSE IF age[n] > OfflineAfter /\ status[n] # "offline" THEN "offline"
  ELSE IF age[n] > DegradedAfter THEN "degrade"
  ELSE "keep"

OnlineOnlyVerdict(n) ==
  IF ~Registered(n) THEN "keep"
  ELSE IF age[n] > OfflineAfter /\ status[n] = "online" THEN "offline"
  ELSE IF age[n] > DegradedAfter /\ status[n] = "online" THEN "degrade"
  ELSE "keep"

(* Monitor.check: a snapshot of all rows and one clock reading, then the   *)
(* writes, one statement per node, decided by the snapshot alone.          *)
StaleVerdict(n) ==
  IF ~Registered(n) THEN "keep"
  ELSE IF age[n] > OfflineAfter /\ status[n] # "offline" THEN "offline"
  ELSE IF age[n] > DegradedAfter /\ status[n] = "online" THEN "degrade"
  ELSE "keep"

MonitorSnapshot ==
  /\ ~Checking
  /\ verdict' = [n \in Nodes |-> StaleVerdict(n)]
  /\ beaten' = {}
  /\ UNCHANGED <<storeVars, policy, job, eventCh, judged, changed, mixed>>

Announcing == \E n \in Nodes : verdict[n] \in {"told_degraded", "told_offline"}

MonitorWrites(n) ==
  /\ verdict[n] \in {"degrade", "offline"}
  /\ ~Announcing
  /\ LET offline == verdict[n] = "offline" IN
     /\ UpdateNodeStatus(n, IF offline THEN "offline" ELSE "degraded")
     /\ verdict' = [verdict EXCEPT ![n] =
                      IF EventCap = 0 THEN "keep"
                      ELSE IF offline THEN "told_offline" ELSE "told_degraded"]
  /\ UNCHANGED <<policy, job, eventCh, historyVars>>

MonitorAnnounces(n) ==
  /\ verdict[n] \in {"told_degraded", "told_offline"}
  /\ IF verdict[n] = "told_offline"
     THEN Emit("node_offline", n, "offline")
     ELSE Emit("node_degraded", n, "degraded")
  /\ verdict' = [verdict EXCEPT ![n] = "keep"]
  /\ UNCHANGED <<storeVars, policy, job, historyVars>>

(* BroadcastEvents takes the next event; with no SSE client registered it  *)
(* goes nowhere.  FleetSSE models the clients.                             *)
Broadcast ==
  /\ eventCh # <<>>
  /\ eventCh' = Tail(eventCh)
  /\ UNCHANGED <<storeVars, policy, job, verdict, historyVars>>

Tick ==
  /\ Elapse
  /\ UNCHANGED <<controlVars, historyVars>>

(* The controller process dies and comes back: the database survives, the  *)
(* policy, the requests, the monitor pass and the queued events do not.    *)
Restart ==
  /\ "restart" \in Kinds
  /\ policy' = DefaultPolicy
  /\ job' = [h \in Handlers |-> Idle]
  /\ verdict' = [n \in Nodes |-> "keep"]
  /\ eventCh' = <<>>
  /\ changed' = [n \in Nodes |-> TRUE]
  /\ beaten' = {}
  /\ mixed' = [n \in Nodes |-> mixed[n] \/ Reporting(n) # {}]
  /\ UNCHANGED <<storeVars, judged>>

-----------------------------------------------------------------------------
Arrival(h) ==
  \E n \in Nodes :
    \/ \E rep \in Reports : ReportArrives(h, n, rep)
    \/ HeartbeatArrives(h, n)
    \/ NodeEnrolled(h, n)
    \/ DeleteArrives(h, n)

HandlerStep(h) ==
  \/ ReportStored(h) \/ CountsUpdated(h) \/ ReportBeat(h)
  \/ StatusFromReport(h) \/ ReadBack(h) \/ EmitEvent(h)
  \/ EvaluationStarts(h)
  \/ \E i \in Items : ItemEvaluated(h, i)
  \/ VerdictWritten(h)
  \/ HeartbeatWritten(h)
  \/ JoinedReadBack(h)
  \/ NodeDeleted(h)

MonitorStep ==
  \/ MonitorSnapshot
  \/ \E n \in Nodes : MonitorWrites(n) \/ MonitorAnnounces(n)

Next ==
  \/ \E h \in Handlers : Arrival(h) \/ HandlerStep(h) \/ ClientGone(h)
  \/ \E p \in Policies : UpdatePolicy(p)
  \/ MonitorStep
  \/ Broadcast
  \/ Tick
  \/ Restart

Spec == Init /\ [][Next]_vars

(* Goroutines that can run do run, the monitor's ticker keeps firing, the  *)
(* broadcaster keeps receiving and time passes.  Clients, administrators   *)
(* and crashes owe nothing.                                                *)
Fairness ==
  /\ \A h \in Handlers : WF_vars(HandlerStep(h))
  /\ WF_vars(MonitorSnapshot)
  /\ \A n \in Nodes : WF_vars(MonitorWrites(n) \/ MonitorAnnounces(n))
  /\ WF_vars(Broadcast)
  /\ WF_vars(Tick)

FairSpec == Spec /\ Fairness
-----------------------------------------------------------------------------
(* Properties.                                                             *)

(* The verdict kept for a node is the right one for the report it was      *)
(* drawn from, as long as the policy has not been replaced since that      *)
(* evaluation began: neither the unlocked reads of the policy, item by     *)
(* item, nor other reports, heartbeats, monitor passes or hang-ups in      *)
(* between make HandleGetRoutes trust a verdict the policy does not give.  *)
VerdictSound ==
  \A n \in Nodes :
    Registered(n) /\ ~changed[n] /\ comp[n] # "unknown"
      => (comp[n] = "compliant" <=> Meets(judged[n], policy))

(* Once a node's last report has been handled without another one of the   *)
(* same node overlapping it, the stored failure count is that of the       *)
(* stored report, whatever else wrote to the row (HandleReport).           *)
SettledCounts ==
  \A n \in Nodes :
    Registered(n) /\ Reporting(n) = {} /\ ~mixed[n]
      => fail[n] = HasFailure(latest[n])

(* Monitor.check takes a node offline from a snapshot that may be old by   *)
(* then; a node it has not heard from since the snapshot is nevertheless   *)
(* past OfflineAfter when the write lands.                                 *)
MonitorMarksOnlyStale ==
  [][\A n \in Nodes :
       status[n] # "offline" /\ status'[n] = "offline" /\ n \notin beaten
         => age[n] > OfflineAfter]_vars

(* Nothing but a request of the node itself brings an offline node back:   *)
(* no monitor pass, late or not, turns offline into degraded or online.    *)
OfflineUntilContact ==
  [][\A n \in Nodes :
       status[n] = "offline" /\ status'[n] # "offline" /\ life'[n] = "registered"
         => \E h \in Handlers : /\ job[h].pc \in {"beat", "status", "heartbeat"}
                                 /\ job[h].node = n
                                 /\ job'[h] # job[h]]_vars

(* A node that stays silent ends up offline and stays so, even if a        *)
(* request of its own is still writing its status when it falls silent, as *)
(* long as the controller does not restart for ever.                       *)
SilentSettlesOffline ==
  <>[][~Restart]_vars =>
    \A n \in Nodes : <>[](Registered(n) /\ age[n] > OfflineAfter)
                        => <>[](status[n] = "offline")

(* A node that keeps being heard from ends up not offline for good: the    *)
(* monitor may still write offline from a snapshot taken before the node   *)
(* came back, and its next contact mends that (monitor.go:69-91).          *)
LiveNodeComesBack ==
  \A n \in Nodes : <>[](Registered(n) /\ age[n] <= OfflineAfter)
                      => <>[](status[n] # "offline")
=============================================================================
