----------------------------- MODULE FleetProofs -----------------------------
(***************************************************************************)
(* Proofs about FleetController and FleetSSE, for any nodes, goroutines,   *)
(* reports, policies, thresholds, browsers and channel sizes: types, that  *)
(* the stored verdict is sound whatever interleaves with its evaluation,   *)
(* what a monitor pass working from an old snapshot can and cannot do,     *)
(* that the stored counts settle, and that the page lists the registry.    *)
(***************************************************************************)
EXTENDS FleetSSE, TLAPS

(* The columns of an id without a row.                                     *)
BlankRows ==
  \A n \in Nodes : ~Registered(n) => comp[n] = "unknown" /\ status[n] = "online"

(* An evaluation under way has judged the items it took off its list, all  *)
(* of them against the policy still in force.                              *)
Evaluating ==
  \A h \in Handlers :
    At(h, "items") /\ ~job[h].stale
      => /\ job[h].todo \subseteq job[h].rep
         /\ job[h].ok <=> Meets(job[h].rep \ job[h].todo, policy)

(* What the running monitor pass still has to write is right for nodes it  *)
(* has not heard from since its snapshot, and never degrades an offline    *)
(* node.                                                                   *)
PendingOffline ==
  \A n \in Nodes :
    verdict[n] = "offline" /\ n \notin beaten /\ Registered(n)
      => age[n] > OfflineAfter

PendingDegrade ==
  \A n \in Nodes : verdict[n] = "degrade" => status[n] # "offline"

IInv ==
  /\ TypeOK
  /\ BlankRows
  /\ Evaluating
  /\ VerdictSound
  /\ PendingOffline
  /\ PendingDegrade
-----------------------------------------------------------------------------
(* An UPDATE changes one node's column, and only if it has a row.          *)
LEMMA UpdatedType ==
  ASSUME NEW S, NEW column \in [Nodes -> S], NEW n \in Nodes, NEW v \in S
  PROVE  Updated(column, n, v) \in [Nodes -> S]
BY DEF Updated

(* What is in the column afterwards, row by row.                           *)
LEMMA UpdatedAt ==
  ASSUME NEW S, NEW column \in [Nodes -> S], NEW n \in Nodes, NEW v,
         NEW m \in Nodes
  PROVE  Updated(column, n, v)[m] =
           IF m = n /\ Registered(n) THEN v ELSE column[m]
BY DEF Updated

(* A busy goroutine holds a request.                                       *)
LEMMA BusyType ==
  ASSUME TypeOK, NEW h \in Handlers, job[h].pc # "idle"
  PROVE  job[h] \in Request
BY DEF TypeOK, Idle

(* An empty request of any kind is a request.                              *)
LEMMA NewRequestType ==
  ASSUME NEW pc \in Points, NEW n \in Nodes, NEW rep \in SUBSET Items,
         NEW type \in EventTypes
  PROVE  NewRequest(pc, n, rep, type) \in Request
BY DEF NewRequest, Request, Statuses

(* Moving a busy goroutine to another program point, or to none.           *)
LEMMA GotoType ==
  ASSUME TypeOK, NEW h \in Handlers, job[h].pc # "idle", NEW pc \in Points,
         job' = [job EXCEPT ![h].pc = pc]
  PROVE  job' \in [Handlers -> {Idle} \cup Request]
<1>1. job[h] \in Request
  BY BusyType
<1>2. [job[h] EXCEPT !.pc = pc] \in Request
  BY <1>1 DEF Request
<1>. QED
  BY <1>2 DEF TypeOK

(* A goroutine that has answered is idle again.                            *)
LEMMA DoneType ==
  ASSUME TypeOK, NEW h \in Handlers, Done(h)
  PROVE  job' \in [Handlers -> {Idle} \cup Request]
BY DEF Done, TypeOK

(* The statements of the store keep the types of the columns.              *)
LEMMA StoreTypes ==
  ASSUME StoreTypeOK, NEW n \in Nodes,
         \/ CreateNode(n)
         \/ DeleteNode(n)
         \/ UpdateNodeHeartbeat(n)
         \/ \E s \in Statuses : UpdateNodeStatus(n, s)
         \/ \E failed \in BOOLEAN : UpdateNodeCompliance(n, failed)
         \/ \E c \in ComplianceStatuses : UpdateNodeComplianceStatus(n, c)
         \/ \E rep \in SUBSET Items : StoreReport(n, rep)
         \/ Elapse
         \/ UNCHANGED storeVars
  PROVE  StoreTypeOK'
<1>. USE ThresholdAssumption DEF StoreTypeOK, Statuses, ComplianceStatuses, MaxAge
<1>1. CASE CreateNode(n)
  BY <1>1 DEF CreateNode
<1>2. CASE DeleteNode(n)
  BY <1>2 DEF DeleteNode, Updated
<1>3. CASE UpdateNodeHeartbeat(n)
  BY <1>3 DEF UpdateNodeHeartbeat, Updated
<1>4. CASE \E s \in Statuses : UpdateNodeStatus(n, s)
  BY <1>4 DEF UpdateNodeStatus, Updated
<1>5. CASE \E failed \in BOOLEAN : UpdateNodeCompliance(n, failed)
  BY <1>5 DEF UpdateNodeCompliance, Updated
<1>6. CASE \E c \in ComplianceStatuses : UpdateNodeComplianceStatus(n, c)
  BY <1>6 DEF UpdateNodeComplianceStatus, Updated
<1>7. CASE \E rep \in SUBSET Items : StoreReport(n, rep)
  BY <1>7 DEF StoreReport, Updated
<1>8. CASE Elapse
  BY <1>8 DEF Elapse
<1>9. CASE UNCHANGED storeVars
  BY <1>9 DEF storeVars
<1>. QED
  BY <1>1, <1>2, <1>3, <1>4, <1>5, <1>6, <1>7, <1>8, <1>9

(* Sending an event on the channel keeps it within its capacity.           *)
LEMMA EmitType ==
  ASSUME TypeOK, NEW type \in EventTypes, NEW n \in Nodes, NEW s \in Statuses,
         Emit(type, n, s)
  PROVE  eventCh' \in Seq(Event) /\ Len(eventCh') <= EventCap
<1>1. [type |-> type, node |-> n, status |-> s] \in Event
  BY DEF Event
<1>. QED
  BY <1>1, InputAssumption DEF TypeOK, Emit
-----------------------------------------------------------------------------
(* The steps of a handler keep types: the requests a client can start, ... *)
LEMMA ArrivalType ==
  ASSUME TypeOK, NEW h \in Handlers, Arrival(h)
  PROVE  TypeOK'
<1>0. PICK n \in Nodes : \/ \E rep \in Reports : ReportArrives(h, n, rep)
                         \/ HeartbeatArrives(h, n)
                         \/ NodeEnrolled(h, n)
                         \/ DeleteArrives(h, n)
  BY DEF Arrival
<1>1. ASSUME NEW rep \in Reports, ReportArrives(h, n, rep)
      PROVE  TypeOK'
  <2>1. NewRequest("store", n, rep, "node_updated") \in Request
    BY NewRequestType, InputAssumption DEF Points, ReportPoints, EventTypes
  <2>2. StoreTypeOK'
    BY <1>1, StoreTypes DEF TypeOK, ReportArrives
  <2>. QED
    BY <1>1, <2>1, <2>2 DEF ReportArrives, TypeOK
<1>2. CASE HeartbeatArrives(h, n)
  <2>1. NewRequest("heartbeat", n, {}, "node_updated") \in Request
    BY NewRequestType DEF Points, EventTypes
  <2>2. StoreTypeOK'
    BY <1>2, StoreTypes DEF TypeOK, HeartbeatArrives
  <2>. QED
    BY <1>2, <2>1, <2>2 DEF HeartbeatArrives, TypeOK, historyVars
<1>3. CASE NodeEnrolled(h, n)
  <2>1. NewRequest("joined", n, {}, "node_joined") \in Request
    BY NewRequestType DEF Points, EventTypes
  <2>2. StoreTypeOK'
    BY <1>3, StoreTypes DEF TypeOK, NodeEnrolled
  <2>3. beaten' \in SUBSET Nodes
    BY <1>3 DEF NodeEnrolled, Heard, TypeOK
  <2>. QED
    BY <1>3, <2>1, <2>2, <2>3 DEF NodeEnrolled, TypeOK
<1>4. CASE DeleteArrives(h, n)
  <2>1. NewRequest("delete", n, {}, "node_removed") \in Request
    BY NewRequestType DEF Points, EventTypes
  <2>2. [NewRequest("delete", n, {}, "node_removed") EXCEPT !.seen = status[n]]
          \in Request
    BY <2>1 DEF Request, TypeOK, StoreTypeOK
  <2>3. StoreTypeOK'
    BY <1>4, StoreTypes DEF TypeOK, DeleteArrives
  <2>. QED
    BY <1>4, <2>2, <2>3 DEF DeleteArrives, TypeOK, historyVars
<1>. QED
  BY <1>0, <1>1, <1>2, <1>3, <1>4

(* ... and what its goroutine does for it afterwards.                      *)
LEMMA HandlerType ==
  ASSUME TypeOK, NEW h \in Handlers, HandlerStep(h)
  PROVE  TypeOK'
<1>. USE DEF historyVars
<1>0. job[h].pc # "idle" /\ job[h] \in Request
  <2>1. job[h].pc # "idle"
    BY DEF HandlerStep, ReportStored, CountsUpdated, ReportBeat,
           StatusFromReport, ReadBack, EmitEvent, EvaluationStarts,
           ItemEvaluated, VerdictWritten, HeartbeatWritten, JoinedReadBack,
           NodeDeleted, At
  <2>. QED
    BY <2>1, BusyType
<1>1. /\ job[h].node \in Nodes
      /\ job[h].rep \in SUBSET Items
      /\ job[h].type \in EventTypes
      /\ job[h].seen \in Statuses
      /\ HasFailure(job[h].rep) \in BOOLEAN
  BY <1>0 DEF Request, HasFailure
<1>2. \A pc \in Points : Goto(h, pc) => job' \in [Handlers -> {Idle} \cup Request]
  BY <1>0, GotoType DEF Goto
<1>3. Done(h) => job' \in [Handlers -> {Idle} \cup Request]
  BY DoneType
<1>. USE DEF Points, ReportPoints
<1>4. CASE ReportStored(h)
  <2>1. StoreTypeOK'
    BY <1>1, <1>4, StoreTypes DEF ReportStored, TypeOK
  <2>. QED
    BY <1>2, <1>4, <2>1 DEF ReportStored, TypeOK
<1>5. CASE CountsUpdated(h)
  <2>1. StoreTypeOK'
    BY <1>1, <1>5, StoreTypes DEF CountsUpdated, TypeOK
  <2>. QED
    BY <1>2, <1>5, <2>1 DEF CountsUpdated, TypeOK
<1>6. CASE ReportBeat(h)
  <2>1. StoreTypeOK'
    BY <1>1, <1>6, StoreTypes DEF ReportBeat, TypeOK
  <2>. QED
    BY <1>1, <1>2, <1>6, <2>1 DEF ReportBeat, TypeOK, Heard
<1>7. CASE StatusFromReport(h)
  <2>1. \E s \in Statuses : UpdateNodeStatus(job[h].node, s)
    BY <1>7 DEF StatusFromReport, Statuses
  <2>2. StoreTypeOK'
    BY <1>1, <2>1, StoreTypes DEF TypeOK
  <2>. QED
    BY <1>2, <1>7, <2>2 DEF StatusFromReport, TypeOK
<1>8. CASE ReadBack(h)
  <2>1. StoreTypeOK'
    BY <1>1, <1>8, StoreTypes DEF ReadBack, TypeOK
  <2>2. status[job[h].node] \in Statuses
    BY <1>1 DEF TypeOK, StoreTypeOK
  <2>. DEFINE next == IF Registered(job[h].node) THEN "emit" ELSE "eval"
              read == [job[h] EXCEPT !.pc = next,
                                     !.seen = status[job[h].node]]
  <2>3. read \in Request
    BY <1>0, <2>2 DEF Request
  <2>4. job' = [job EXCEPT ![h] = read]
    BY <1>8 DEF ReadBack
  <2>5. job' \in [Handlers -> {Idle} \cup Request]
    <3>. HIDE DEF read
    <3>. QED
      BY <2>3, <2>4 DEF TypeOK
  <2>. QED
    BY <1>8, <2>1, <2>5 DEF ReadBack, TypeOK
<1>9. CASE EmitEvent(h)
  <2>1. StoreTypeOK'
    BY <1>1, <1>9, StoreTypes DEF EmitEvent, TypeOK
  <2>2. eventCh' \in Seq(Event) /\ Len(eventCh') <= EventCap
    BY <1>1, <1>9, EmitType DEF EmitEvent
  <2>. QED
    BY <1>2, <1>3, <1>9, <2>1, <2>2 DEF EmitEvent, TypeOK
<1>10. CASE EvaluationStarts(h)
  <2>1. StoreTypeOK'
    BY <1>1, <1>10, StoreTypes DEF EvaluationStarts, TypeOK
  <2>2. job' \in [Handlers -> {Idle} \cup Request]
    BY <1>0, <1>1, <1>3, <1>10 DEF EvaluationStarts, TypeOK, Request
  <2>. QED
    BY <1>10, <2>1, <2>2 DEF EvaluationStarts, TypeOK
<1>11. ASSUME NEW i \in Items, ItemEvaluated(h, i)
       PROVE  TypeOK'
  <2>1. StoreTypeOK'
    BY <1>1, <1>11, StoreTypes DEF ItemEvaluated, TypeOK
  <2>2. /\ job[h].todo \ {i} \in SUBSET Items
        /\ (job[h].ok /\ ~Violates(i, policy)) \in BOOLEAN
    BY <1>0 DEF Request
  <2>3. job' = [job EXCEPT ![h] = [job[h] EXCEPT
                  !.todo = job[h].todo \ {i},
                  !.ok = job[h].ok /\ ~Violates(i, policy)]]
    BY <1>11 DEF ItemEvaluated, TypeOK
  <2>4. [job[h] EXCEPT !.todo = job[h].todo \ {i},
                       !.ok = job[h].ok /\ ~Violates(i, policy)] \in Request
    BY <1>0, <2>2 DEF Request
  <2>. QED
    BY <1>11, <2>1, <2>3, <2>4 DEF ItemEvaluated, TypeOK
<1>12. CASE VerdictWritten(h)
  <2>1. \E c \in ComplianceStatuses : UpdateNodeComplianceStatus(job[h].node, c)
    BY <1>12 DEF VerdictWritten, ComplianceStatuses
  <2>2. StoreTypeOK'
    BY <1>1, <2>1, StoreTypes DEF TypeOK
  <2>3. /\ judged' \in [Nodes -> SUBSET Items]
        /\ changed' \in [Nodes -> BOOLEAN]
    BY <1>0, <1>1, <1>12, UpdatedType DEF VerdictWritten, TypeOK, Request
  <2>. QED
    BY <1>3, <1>12, <2>2, <2>3 DEF VerdictWritten, TypeOK
<1>13. CASE HeartbeatWritten(h)
  <2>1. StoreTypeOK'
    BY <1>1, <1>13, StoreTypes DEF HeartbeatWritten, TypeOK
  <2>. QED
    BY <1>1, <1>3, <1>13, <2>1 DEF HeartbeatWritten, TypeOK, Heard
<1>14. CASE JoinedReadBack(h)
  <2>1. StoreTypeOK'
    BY <1>1, <1>14, StoreTypes DEF JoinedReadBack, TypeOK
  <2>2. status[job[h].node] \in Statuses
    BY <1>1 DEF TypeOK, StoreTypeOK
  <2>. DEFINE told == [job[h] EXCEPT !.pc = "emit",
                                     !.seen = status[job[h].node]]
  <2>3. told \in Request
    BY <1>0, <2>2 DEF Request
  <2>4. Done(h) \/ job' = [job EXCEPT ![h] = told]
    BY <1>14 DEF JoinedReadBack
  <2>5. job' \in [Handlers -> {Idle} \cup Request]
    <3>. HIDE DEF told
    <3>. QED
      BY <1>3, <2>3, <2>4 DEF TypeOK
  <2>. QED
    BY <1>14, <2>1, <2>5 DEF JoinedReadBack, TypeOK
<1>15. CASE NodeDeleted(h)
  <2>1. StoreTypeOK'
    BY <1>1, <1>15, StoreTypes DEF NodeDeleted, TypeOK
  <2>2. /\ judged' \in [Nodes -> SUBSET Items]
        /\ changed' \in [Nodes -> BOOLEAN]
    BY <1>1, <1>15, UpdatedType DEF NodeDeleted, TypeOK
  <2>. QED
    BY <1>2, <1>3, <1>15, <2>1, <2>2 DEF NodeDeleted, TypeOK
<1>. QED
  BY <1>4, <1>5, <1>6, <1>7, <1>8, <1>9, <1>10, <1>11, <1>12, <1>13, <1>14,
     <1>15 DEF HandlerStep

(* Everything that is not a request of a client or a step of its handler.  *)
LEMMA BackgroundType ==
  ASSUME TypeOK,
         \/ \E h \in Handlers : ClientGone(h)
         \/ \E p \in Policies : UpdatePolicy(p)
         \/ MonitorStep \/ Broadcast \/ Tick \/ Restart
  PROVE  TypeOK'
<1>. USE DEF historyVars, controlVars
<1>1. ASSUME NEW h \in Handlers, ClientGone(h)
      PROVE  TypeOK'
  <2>1. job' \in [Handlers -> {Idle} \cup Request]
    BY <1>1, DoneType DEF ClientGone
  <2>2. StoreTypeOK'
    BY <1>1 DEF ClientGone, TypeOK, StoreTypeOK, storeVars
  <2>3. mixed' \in [Nodes -> BOOLEAN]
    <3>1. (mixed[job[h].node] \/ h \in Reporting(job[h].node)) \in BOOLEAN
      OBVIOUS
    <3>2. mixed' = [mixed EXCEPT ![job[h].node] =
                      mixed[job[h].node] \/ h \in Reporting(job[h].node)]
      <4>1. job[h].node \in Nodes
        BY <1>1, BusyType DEF ClientGone, Busy, Request
      <4>. QED
        BY <1>1, <4>1 DEF ClientGone, TypeOK
    <3>. QED
      BY <3>1, <3>2 DEF TypeOK
  <2>. QED
    BY <1>1, <2>1, <2>2, <2>3 DEF ClientGone, TypeOK
<1>2. ASSUME NEW p \in Policies, UpdatePolicy(p)
      PROVE  TypeOK'
  <2>1. job' \in [Handlers -> {Idle} \cup Request]
    <3>1. ASSUME NEW h \in Handlers
          PROVE  job'[h] \in {Idle} \cup Request
      <4>1. CASE At(h, "items")
        <5>1. job[h] \in Request
          BY <4>1, BusyType DEF At
        <5>2. [job[h] EXCEPT !.stale = TRUE] \in Request
          BY <5>1 DEF Request
        <5>. QED
          BY <1>2, <4>1, <5>2 DEF UpdatePolicy
      <4>2. CASE ~At(h, "items")
        BY <1>2, <4>2 DEF UpdatePolicy, TypeOK
      <4>. QED
        BY <4>1, <4>2
    <3>. QED
      BY <1>2, <3>1 DEF UpdatePolicy
  <2>2. StoreTypeOK'
    BY <1>2 DEF UpdatePolicy, TypeOK, StoreTypeOK, storeVars
  <2>3. policy' \in PolicyType
    BY <1>2, InputAssumption DEF UpdatePolicy
  <2>. QED
    BY <1>2, <2>1, <2>2, <2>3 DEF UpdatePolicy, TypeOK
<1>3. CASE MonitorSnapshot
  <2>1. StoreTypeOK'
    BY <1>3 DEF MonitorSnapshot, TypeOK, StoreTypeOK, storeVars
  <2>. QED
    BY <1>3, <2>1 DEF MonitorSnapshot, StaleVerdict, TypeOK
<1>4. ASSUME NEW n \in Nodes, MonitorWrites(n)
      PROVE  TypeOK'
  <2>1. \E s \in Statuses : UpdateNodeStatus(n, s)
    BY <1>4 DEF MonitorWrites, Statuses
  <2>2. StoreTypeOK'
    BY <2>1, StoreTypes DEF TypeOK
  <2>. QED
    BY <1>4, <2>2 DEF MonitorWrites, TypeOK
<1>5. ASSUME NEW n \in Nodes, MonitorAnnounces(n)
      PROVE  TypeOK'
  <2>1. \E type \in EventTypes, s \in Statuses : Emit(type, n, s)
    BY <1>5 DEF MonitorAnnounces, EventTypes, Statuses
  <2>2. eventCh' \in Seq(Event) /\ Len(eventCh') <= EventCap
    BY <2>1, EmitType
  <2>3. StoreTypeOK'
    BY <1>5 DEF MonitorAnnounces, TypeOK, StoreTypeOK, storeVars
  <2>. QED
    BY <1>5, <2>2, <2>3 DEF MonitorAnnounces, TypeOK
<1>6. CASE Broadcast
  <2>1. eventCh' \in Seq(Event) /\ Len(eventCh') <= EventCap
    BY <1>6, InputAssumption DEF Broadcast, TypeOK
  <2>2. StoreTypeOK'
    BY <1>6 DEF Broadcast, TypeOK, StoreTypeOK, storeVars
  <2>. QED
    BY <1>6, <2>1, <2>2 DEF Broadcast, TypeOK
<1>7. CASE Tick
  <2>1. StoreTypeOK'
    <3>1. CASE Nodes # {}
      BY <1>7, <3>1, StoreTypes DEF Tick, TypeOK
    <3>2. CASE Nodes = {}
      BY <1>7, <3>2 DEF Tick, Elapse
    <3>. QED
      BY <3>1, <3>2
  <2>. QED
    BY <1>7, <2>1 DEF Tick, TypeOK
<1>8. CASE Restart
  <2>1. StoreTypeOK'
    BY <1>8 DEF Restart, TypeOK, StoreTypeOK, storeVars
  <2>2. mixed' \in [Nodes -> BOOLEAN]
    <3>1. \A n \in Nodes : (mixed[n] \/ Reporting(n) # {}) \in BOOLEAN
      OBVIOUS
    <3>. QED
      BY <1>8, <3>1 DEF Restart
  <2>3. policy' \in PolicyType /\ eventCh' \in Seq(Event) /\ Len(eventCh') <= EventCap
    BY <1>8, InputAssumption DEF Restart, DefaultPolicy, PolicyType, Modes
  <2>. QED
    BY <1>8, <2>1, <2>2, <2>3 DEF Restart, TypeOK
<1>. QED
  BY <1>1, <1>2, <1>3, <1>4, <1>5, <1>6, <1>7, <1>8 DEF MonitorStep

(* Every step of the controller keeps types.                               *)
LEMMA TypeStep ==
  ASSUME TypeOK, [Next]_vars
  PROVE  TypeOK'
<1>1. CASE UNCHANGED vars
  BY <1>1 DEF vars, storeVars, controlVars, historyVars, TypeOK, StoreTypeOK
<1>. QED
  BY <1>1, ArrivalType, HandlerType, BackgroundType DEF Next

(* The freshly started controller is well typed.                           *)
LEMMA InitType == Init => TypeOK
<1>. SUFFICES ASSUME Init PROVE TypeOK
  OBVIOUS
<1>1. StoreTypeOK
  BY ThresholdAssumption
     DEF Init, StoreInit, StoreTypeOK, Statuses, ComplianceStatuses, MaxAge
<1>. QED
  BY <1>1, InputAssumption DEF Init, TypeOK, DefaultPolicy, PolicyType, Modes

(* Types, at every step of the controller.                                 *)
THEOREM TypeCorrect == Spec => []TypeOK
BY InitType, TypeStep, PTL DEF Spec
-----------------------------------------------------------------------------
(* One step of the controller is at most one statement of the store.       *)
Statement(n) ==
  \/ CreateNode(n)
  \/ DeleteNode(n)
  \/ UpdateNodeHeartbeat(n)
  \/ \E s \in Statuses : UpdateNodeStatus(n, s)
  \/ \E failed : UpdateNodeCompliance(n, failed)
  \/ \E c \in ComplianceStatuses : UpdateNodeComplianceStatus(n, c)
  \/ \E rep : StoreReport(n, rep)

(* A step of the controller is one statement of the store at most.         *)
LEMMA OneStatement ==
  ASSUME TypeOK, [Next]_vars
  PROVE  \/ \E n \in Nodes : Statement(n)
         \/ Elapse
         \/ UNCHANGED storeVars
<1>. USE DEF Statement
<1>1. ASSUME NEW h \in Handlers, HandlerStep(h)
      PROVE  (\E n \in Nodes : Statement(n)) \/ UNCHANGED storeVars
  <2>1. job[h].pc # "idle"
    BY <1>1 DEF HandlerStep, ReportStored, CountsUpdated, ReportBeat,
           StatusFromReport, ReadBack, EmitEvent, EvaluationStarts,
           ItemEvaluated, VerdictWritten, HeartbeatWritten, JoinedReadBack,
           NodeDeleted, At
  <2>2. job[h].node \in Nodes
    BY <2>1, BusyType DEF Request
  <2>3. \/ Statement(job[h].node)
        \/ UNCHANGED storeVars
    BY <1>1 DEF HandlerStep, ReportStored, CountsUpdated, ReportBeat,
           StatusFromReport, ReadBack, EmitEvent, EvaluationStarts,
           ItemEvaluated, VerdictWritten, HeartbeatWritten, JoinedReadBack,
           NodeDeleted, Statuses, ComplianceStatuses
  <2>. QED
    BY <2>2, <2>3
<1>2. ASSUME NEW h \in Handlers, Arrival(h) \/ ClientGone(h)
      PROVE  (\E n \in Nodes : Statement(n)) \/ UNCHANGED storeVars
  BY <1>2 DEF Arrival, ReportArrives, HeartbeatArrives, NodeEnrolled,
              DeleteArrives, ClientGone
<1>3. ASSUME MonitorStep
      PROVE  (\E n \in Nodes : Statement(n)) \/ UNCHANGED storeVars
  BY <1>3 DEF MonitorStep, MonitorSnapshot, MonitorWrites, MonitorAnnounces,
              Statuses
<1>4. ASSUME (\E p \in Policies : UpdatePolicy(p)) \/ Broadcast \/ Restart
      PROVE  UNCHANGED storeVars
  BY <1>4 DEF UpdatePolicy, Broadcast, Restart
<1>5. ASSUME Tick
      PROVE  Elapse
  BY <1>5 DEF Tick
<1>. QED
  BY <1>1, <1>2, <1>3, <1>4, <1>5 DEF Next, vars

(* What a statement on node n leaves alone.                                *)
LEMMA StatementEffect ==
  ASSUME StoreTypeOK, NEW n \in Nodes, Statement(n)
  PROVE  /\ \A m \in Nodes \ {n} : /\ life'[m] = life[m]
                                   /\ status'[m] = status[m]
                                   /\ comp'[m] = comp[m]
                                   /\ age'[m] = age[m]
         /\ ~Registered(n) =>
              /\ comp'[n] = comp[n]
              /\ status'[n] = status[n] \/ Registered(n)'
              /\ Registered(n)' => CreateNode(n)
         /\ Registered(n) /\ ~Registered(n)' =>
              /\ DeleteNode(n)
              /\ comp'[n] = "unknown" /\ status'[n] = "online"
BY DEF StoreTypeOK, Statement, Registered, CreateNode, DeleteNode,
       UpdateNodeHeartbeat, UpdateNodeStatus, UpdateNodeCompliance,
       UpdateNodeComplianceStatus, StoreReport, Updated

(* Ids without a row stay blank.                                           *)
LEMMA BlankRowsStep ==
  ASSUME TypeOK, BlankRows, [Next]_vars
  PROVE  BlankRows'
<1>1. ASSUME NEW n \in Nodes, Statement(n)
      PROVE  BlankRows'
  <2>1. ASSUME NEW m \in Nodes, ~Registered(m)'
        PROVE  comp'[m] = "unknown" /\ status'[m] = "online"
    <3>1. CASE m = n
      BY <1>1, <2>1, <3>1, StatementEffect DEF TypeOK, BlankRows
    <3>2. CASE m # n
      <4>1. life'[m] = life[m] /\ comp'[m] = comp[m] /\ status'[m] = status[m]
        BY <1>1, <3>2, StatementEffect DEF TypeOK
      <4>. QED
        BY <2>1, <4>1 DEF BlankRows, Registered
    <3>. QED
      BY <3>1, <3>2
  <2>. QED
    BY <2>1 DEF BlankRows
<1>2. ASSUME Elapse \/ UNCHANGED storeVars
      PROVE  BlankRows'
  BY <1>2 DEF Elapse, storeVars, BlankRows, Registered
<1>. QED
  BY <1>1, <1>2, OneStatement

-----------------------------------------------------------------------------
(* The steps that start an evaluation, continue one, or pull the policy    *)
(* from under it; no other step touches the policy or an evaluation.       *)
LEMMA OtherStepsKeepEvaluations ==
  ASSUME TypeOK, [Next]_vars,
         \A h \in Handlers : ~EvaluationStarts(h),
         \A h \in Handlers, i \in Items : ~ItemEvaluated(h, i),
         \A p \in Policies : ~UpdatePolicy(p),
         ~Restart
  PROVE  /\ policy' = policy
         /\ \A k \in Handlers : At(k, "items")' => job'[k] = job[k]
<1>. USE DEF At, Goto, Done, Idle
<1>1. ASSUME NEW h \in Handlers, HandlerStep(h)
      PROVE  /\ policy' = policy
             /\ \A k \in Handlers : At(k, "items")' => job'[k] = job[k]
  <2>1. job[h].pc # "idle"
    BY <1>1 DEF HandlerStep, ReportStored, CountsUpdated, ReportBeat,
           StatusFromReport, ReadBack, EmitEvent, EvaluationStarts,
           ItemEvaluated, VerdictWritten, HeartbeatWritten, JoinedReadBack,
           NodeDeleted
  <2>2. job[h] \in Request /\ job \in [Handlers -> {Idle} \cup Request]
    BY <2>1, BusyType DEF TypeOK
  <2>3. policy' = policy
    BY <1>1 DEF HandlerStep, ReportStored, CountsUpdated, ReportBeat,
           StatusFromReport, ReadBack, EmitEvent, EvaluationStarts,
           ItemEvaluated, VerdictWritten, HeartbeatWritten, JoinedReadBack,
           NodeDeleted
  <2>4. CASE \E pc : pc # "items" /\ Goto(h, pc)
    BY <2>2, <2>3, <2>4 DEF Request
  <2>5. CASE Done(h)
    BY <2>2, <2>3, <2>5
  <2>6. CASE ReadBack(h) \/ JoinedReadBack(h)
    BY <2>2, <2>3, <2>6 DEF ReadBack, JoinedReadBack, Request
  <2>7. \/ \E pc : pc # "items" /\ Goto(h, pc)
        \/ Done(h)
        \/ ReadBack(h) \/ JoinedReadBack(h)
    <3>1. CASE StatusFromReport(h)
      BY <3>1 DEF StatusFromReport
    <3>2. CASE EmitEvent(h)
      BY <3>2 DEF EmitEvent
    <3>3. CASE NodeDeleted(h)
      BY <3>3 DEF NodeDeleted
    <3>4. CASE ReportStored(h) \/ CountsUpdated(h) \/ ReportBeat(h)
      BY <3>4 DEF ReportStored, CountsUpdated, ReportBeat
    <3>5. CASE VerdictWritten(h) \/ HeartbeatWritten(h)
      BY <3>5 DEF VerdictWritten, HeartbeatWritten
    <3>. QED
      BY <1>1, <3>1, <3>2, <3>3, <3>4, <3>5 DEF HandlerStep
  <2>. QED
    BY <2>4, <2>5, <2>6, <2>7
<1>2. ASSUME NEW h \in Handlers, Arrival(h) \/ ClientGone(h)
      PROVE  /\ policy' = policy
             /\ \A k \in Handlers : At(k, "items")' => job'[k] = job[k]
  <2>1. policy' = policy
    BY <1>2 DEF Arrival, ReportArrives, HeartbeatArrives, NodeEnrolled,
                DeleteArrives, ClientGone
  <2>2. job' = job \/ \E r : r.pc # "items" /\ job' = [job EXCEPT ![h] = r]
    <3>1. ASSUME NEW n \in Nodes, NEW rep \in Reports, ReportArrives(h, n, rep)
          PROVE  \E r : r.pc # "items" /\ job' = [job EXCEPT ![h] = r]
      BY <3>1 DEF ReportArrives, NewRequest
    <3>2. ASSUME NEW n \in Nodes, HeartbeatArrives(h, n)
          PROVE  \E r : r.pc # "items" /\ job' = [job EXCEPT ![h] = r]
      BY <3>2 DEF HeartbeatArrives, NewRequest
    <3>3. ASSUME NEW n \in Nodes, NodeEnrolled(h, n)
          PROVE  \/ job' = job
                 \/ \E r : r.pc # "items" /\ job' = [job EXCEPT ![h] = r]
      BY <3>3 DEF NodeEnrolled, NewRequest
    <3>4. ASSUME NEW n \in Nodes, DeleteArrives(h, n)
          PROVE  \E r : r.pc # "items" /\ job' = [job EXCEPT ![h] = r]
      BY <3>4 DEF DeleteArrives, NewRequest
    <3>5. ASSUME ClientGone(h)
          PROVE  \E r : r.pc # "items" /\ job' = [job EXCEPT ![h] = r]
      BY <3>5 DEF ClientGone
    <3>. QED
      BY <1>2, <3>1, <3>2, <3>3, <3>4, <3>5 DEF Arrival
  <2>. QED
    BY <2>1, <2>2 DEF TypeOK
<1>3. ASSUME MonitorStep \/ Broadcast \/ Tick \/ UNCHANGED vars
      PROVE  policy' = policy /\ job' = job
  BY <1>3 DEF MonitorStep, MonitorSnapshot, MonitorWrites, MonitorAnnounces,
              Broadcast, Tick, vars, controlVars
<1>. QED
  BY <1>1, <1>2, <1>3 DEF Next

(* The list of items judged so far and the running result agree.           *)
LEMMA EvaluatingStep ==
  ASSUME TypeOK, Evaluating, [Next]_vars
  PROVE  Evaluating'
<1>1. ASSUME NEW h \in Handlers, EvaluationStarts(h)
      PROVE  Evaluating'
  <2>1. job[h] \in Request
    BY <1>1, BusyType DEF EvaluationStarts, At
  <2>2. policy' = policy
    BY <1>1 DEF EvaluationStarts
  <2>3. ASSUME NEW k \in Handlers, k # h
        PROVE  job'[k] = job[k]
    BY <1>1, <2>3 DEF EvaluationStarts, Done, TypeOK
  <2>4. At(h, "items")' => /\ job'[h].todo = job'[h].rep
                           /\ job'[h].ok = TRUE
    BY <1>1, <2>1 DEF EvaluationStarts, Done, Idle, TypeOK, At, Request
  <2>5. Meets({}, policy)
    BY DEF Meets
  <2>. QED
    BY <2>2, <2>3, <2>4, <2>5 DEF Evaluating, At
<1>2. ASSUME NEW h \in Handlers, NEW i \in Items, ItemEvaluated(h, i)
      PROVE  Evaluating'
  <2>1. job[h] \in Request /\ job \in [Handlers -> {Idle} \cup Request]
    BY <1>2, BusyType DEF ItemEvaluated, At, TypeOK
  <2>2. /\ policy' = policy
        /\ job'[h] = [job[h] EXCEPT !.todo = job[h].todo \ {i},
                                    !.ok = job[h].ok /\ ~Violates(i, policy)]
    BY <1>2, <2>1 DEF ItemEvaluated
  <2>3. ASSUME NEW k \in Handlers, k # h
        PROVE  job'[k] = job[k]
    BY <1>2, <2>1, <2>3 DEF ItemEvaluated
  <2>4. /\ job'[h].rep = job[h].rep /\ job'[h].stale = job[h].stale
        /\ job'[h].todo = job[h].todo \ {i}
        /\ job'[h].ok = (job[h].ok /\ ~Violates(i, policy))
        /\ At(h, "items") /\ i \in job[h].todo
    BY <1>2, <2>1, <2>2 DEF Request, ItemEvaluated
  <2>5. ASSUME ~job[h].stale
        PROVE  /\ job'[h].todo \subseteq job'[h].rep
               /\ job'[h].ok <=> Meets(job'[h].rep \ job'[h].todo, policy)
    <3>1. /\ job[h].todo \subseteq job[h].rep
          /\ job[h].ok <=> Meets(job[h].rep \ job[h].todo, policy)
      BY <2>4, <2>5 DEF Evaluating
    <3>2. job'[h].rep \ job'[h].todo = (job[h].rep \ job[h].todo) \cup {i}
      BY <2>4, <3>1
    <3>3. Meets((job[h].rep \ job[h].todo) \cup {i}, policy)
            <=> Meets(job[h].rep \ job[h].todo, policy) /\ ~Violates(i, policy)
      BY DEF Meets
    <3>. QED
      BY <2>4, <3>1, <3>2, <3>3
  <2>6. ASSUME NEW k \in Handlers, At(k, "items")', ~job'[k].stale
        PROVE  /\ job'[k].todo \subseteq job'[k].rep
               /\ job'[k].ok <=> Meets(job'[k].rep \ job'[k].todo, policy')
    <3>1. CASE k = h
      BY <2>2, <2>4, <2>5, <2>6, <3>1
    <3>2. CASE k # h
      BY <2>2, <2>3, <2>6, <3>2 DEF Evaluating, At
    <3>. QED
      BY <3>1, <3>2
  <2>. QED
    BY <2>6 DEF Evaluating
<1>3. ASSUME NEW p \in Policies, UpdatePolicy(p)
      PROVE  Evaluating'
  <2>1. ASSUME NEW k \in Handlers, At(k, "items")'
        PROVE  job'[k].stale
    <3>1. CASE At(k, "items")
      <4>1. job[k] \in Request
        BY <3>1, BusyType DEF At
      <4>. QED
        BY <1>3, <3>1, <4>1 DEF UpdatePolicy, Request
    <3>2. CASE ~At(k, "items")
      BY <1>3, <2>1, <3>2 DEF UpdatePolicy, At
    <3>. QED
      BY <3>1, <3>2
  <2>. QED
    BY <2>1 DEF Evaluating
<1>4. CASE Restart
  BY <1>4 DEF Restart, Evaluating, At, Idle
<1>5. ASSUME \A h \in Handlers : ~EvaluationStarts(h),
             \A h \in Handlers, i \in Items : ~ItemEvaluated(h, i),
             \A p \in Policies : ~UpdatePolicy(p),
             ~Restart
      PROVE  Evaluating'
  <2>1. /\ policy' = policy
        /\ \A k \in Handlers : At(k, "items")' => job'[k] = job[k]
    BY <1>5, OtherStepsKeepEvaluations
  <2>. QED
    BY <2>1 DEF Evaluating, At
<1>. QED
  BY <1>1, <1>2, <1>3, <1>4, <1>5

-----------------------------------------------------------------------------
(* The verdict is written from a finished evaluation; whatever replaces    *)
(* the policy marks every older verdict.                                   *)
LEMMA VerdictSoundStep ==
  ASSUME TypeOK, BlankRows, Evaluating, VerdictSound, [Next]_vars
  PROVE  VerdictSound'
<1>1. ASSUME NEW h \in Handlers, VerdictWritten(h)
      PROVE  VerdictSound'
  <2>1. /\ job[h] \in Request /\ job[h].node \in Nodes
        /\ At(h, "items") /\ job[h].todo = {}
    BY <1>1, BusyType DEF VerdictWritten, At, Request
  <2>2. policy' = policy /\ life' = life
    BY <1>1 DEF VerdictWritten, UpdateNodeComplianceStatus
  <2>3. ASSUME NEW n \in Nodes, n # job[h].node \/ ~Registered(n)
        PROVE  /\ comp'[n] = comp[n] /\ judged'[n] = judged[n]
               /\ changed'[n] = changed[n]
    BY <1>1, <2>1, <2>3 DEF VerdictWritten, UpdateNodeComplianceStatus,
                            Updated, TypeOK, StoreTypeOK
  <2>4. ASSUME Registered(job[h].node)
        PROVE  /\ comp'[job[h].node] = IF job[h].ok THEN "compliant"
                                       ELSE "non_compliant"
               /\ judged'[job[h].node] = job[h].rep
               /\ changed'[job[h].node] = job[h].stale
    BY <1>1, <2>1, <2>4 DEF VerdictWritten, UpdateNodeComplianceStatus,
                            Updated, TypeOK, StoreTypeOK
  <2>5. ~job[h].stale => (job[h].ok <=> Meets(job[h].rep, policy))
    <3>1. job[h].rep \ {} = job[h].rep
      OBVIOUS
    <3>. QED
      BY <2>1, <3>1 DEF Evaluating
  <2>6. ASSUME NEW n \in Nodes, Registered(n), ~changed'[n],
               comp'[n] # "unknown"
        PROVE  comp'[n] = "compliant" <=> Meets(judged'[n], policy)
    <3>1. CASE n = job[h].node
      BY <2>4, <2>5, <2>6, <3>1
    <3>2. CASE n # job[h].node
      BY <2>3, <2>6, <3>2 DEF VerdictSound
    <3>. QED
      BY <3>1, <3>2
  <2>. QED
    BY <2>2, <2>6 DEF VerdictSound, Registered
<1>2. ASSUME NEW h \in Handlers, NodeDeleted(h)
      PROVE  VerdictSound'
  <2>1. job[h] \in Request /\ job[h].node \in Nodes
    BY <1>2, BusyType DEF NodeDeleted, At, Request
  <2>2. policy' = policy
    BY <1>2 DEF NodeDeleted
  <2>3. ASSUME NEW n \in Nodes, Registered(n)'
        PROVE  /\ Registered(n) /\ comp'[n] = comp[n]
               /\ judged'[n] = judged[n] /\ changed'[n] = changed[n]
    BY <1>2, <2>1, <2>3 DEF NodeDeleted, DeleteNode, Updated, Registered,
                            TypeOK, StoreTypeOK
  <2>. QED
    BY <2>2, <2>3 DEF VerdictSound
<1>3. ASSUME NEW h \in Handlers, NEW n \in Nodes, NodeEnrolled(h, n)
      PROVE  VerdictSound'
  <2>1. UNCHANGED <<comp, judged, changed, policy>>
    BY <1>3 DEF NodeEnrolled, CreateNode
  <2>2. ASSUME NEW m \in Nodes, Registered(m)'
        PROVE  Registered(m) \/ comp[m] = "unknown"
    BY <1>3 DEF NodeEnrolled, CreateNode, BlankRows, Registered
  <2>. QED
    BY <2>1, <2>2 DEF VerdictSound
<1>4. ASSUME (\E p \in Policies : UpdatePolicy(p)) \/ Restart
      PROVE  VerdictSound'
  BY <1>4 DEF UpdatePolicy, Restart, VerdictSound
<1>5. ASSUME UNCHANGED <<life, comp, judged, changed, policy>>
      PROVE  VerdictSound'
  BY <1>5 DEF VerdictSound, Registered
<1>6. ASSUME NEW h \in Handlers, HandlerStep(h),
             ~VerdictWritten(h), ~NodeDeleted(h)
      PROVE  UNCHANGED <<life, comp, judged, changed, policy>>
  BY <1>6 DEF HandlerStep, ReportStored, CountsUpdated, ReportBeat,
         StatusFromReport, ReadBack, EmitEvent, EvaluationStarts,
         ItemEvaluated, HeartbeatWritten, JoinedReadBack, historyVars,
         storeVars, StoreReport, UpdateNodeCompliance, UpdateNodeHeartbeat,
         UpdateNodeStatus
<1>7. ASSUME NEW h \in Handlers, Arrival(h) \/ ClientGone(h),
             \A n \in Nodes : ~NodeEnrolled(h, n)
      PROVE  UNCHANGED <<life, comp, judged, changed, policy>>
  BY <1>7 DEF Arrival, ReportArrives, HeartbeatArrives, DeleteArrives,
         ClientGone, historyVars, storeVars
<1>8. ASSUME MonitorStep \/ Broadcast \/ Tick \/ UNCHANGED vars
      PROVE  UNCHANGED <<life, comp, judged, changed, policy>>
  BY <1>8 DEF MonitorStep, MonitorSnapshot, MonitorWrites, MonitorAnnounces,
         Broadcast, Tick, Elapse, UpdateNodeStatus, vars, controlVars,
         historyVars, storeVars
<1>. QED
  BY <1>1, <1>2, <1>3, <1>4, <1>5, <1>6, <1>7, <1>8 DEF Next

-----------------------------------------------------------------------------
(* A row is heard of, created or dropped by a request of its node or an    *)
(* administrator; no other step touches what PendingOffline speaks of,     *)
(* save for the monitor, the clock and a restart.                          *)
LEMMA PendingOfflineStep ==
  ASSUME TypeOK, PendingOffline, [Next]_vars
  PROVE  PendingOffline'
<1>. USE DEF PendingOffline, Registered
<1>1. CASE MonitorSnapshot
  BY <1>1 DEF MonitorSnapshot, StaleVerdict, storeVars
<1>2. ASSUME NEW m \in Nodes, MonitorWrites(m) \/ MonitorAnnounces(m)
      PROVE  PendingOffline'
  <2>1. UNCHANGED <<life, age, beaten>>
    BY <1>2 DEF MonitorWrites, MonitorAnnounces, UpdateNodeStatus, storeVars,
                historyVars
  <2>2. \A n \in Nodes : verdict'[n] = "offline" => verdict[n] = "offline"
    BY <1>2 DEF MonitorWrites, MonitorAnnounces, TypeOK
  <2>. QED
    BY <2>1, <2>2
<1>3. ASSUME NEW m \in Nodes, UpdateNodeHeartbeat(m) \/ CreateNode(m),
             beaten' = Heard(m), verdict' = verdict
      PROVE  PendingOffline'
  <2>1. \A n \in Nodes \ {m} : life'[n] = life[n] /\ age'[n] = age[n]
    BY <1>3 DEF UpdateNodeHeartbeat, CreateNode, Updated, TypeOK, StoreTypeOK
  <2>2. \A n \in Nodes : verdict[n] = "offline" => beaten' = beaten \cup {m}
    BY <1>3 DEF Heard, Checking
  <2>. QED
    BY <1>3, <2>1, <2>2
<1>4. ASSUME NEW m \in Nodes, DeleteNode(m), UNCHANGED <<beaten, verdict>>
      PROVE  PendingOffline'
  BY <1>4 DEF DeleteNode, Updated, TypeOK, StoreTypeOK
<1>5. CASE Tick
  <2>1. UNCHANGED <<life, beaten, verdict>>
    BY <1>5 DEF Tick, Elapse, controlVars, historyVars
  <2>2. \A n \in Nodes : age'[n] >= age[n]
    BY <1>5, ThresholdAssumption DEF Tick, Elapse, TypeOK, StoreTypeOK, MaxAge
  <2>3. \A n \in Nodes : age[n] \in Nat /\ age'[n] \in Nat
    BY <1>5, ThresholdAssumption DEF Tick, Elapse, TypeOK, StoreTypeOK, MaxAge
  <2>. QED
    BY <2>1, <2>2, <2>3, ThresholdAssumption
<1>6. CASE Restart
  BY <1>6 DEF Restart
<1>7. ASSUME UNCHANGED <<life, age, beaten, verdict>>
      PROVE  PendingOffline'
  BY <1>7
<1>8. ASSUME NEW h \in Handlers, HandlerStep(h)
      PROVE  PendingOffline'
  <2>1. job[h].pc # "idle"
    BY <1>8 DEF HandlerStep, ReportStored, CountsUpdated, ReportBeat,
           StatusFromReport, ReadBack, EmitEvent, EvaluationStarts,
           ItemEvaluated, VerdictWritten, HeartbeatWritten, JoinedReadBack,
           NodeDeleted, At
  <2>2. job[h].node \in Nodes
    BY <2>1, BusyType DEF Request
  <2>3. CASE ReportBeat(h) \/ HeartbeatWritten(h)
    BY <1>3, <2>2, <2>3 DEF ReportBeat, HeartbeatWritten
  <2>4. CASE NodeDeleted(h)
    BY <1>4, <2>2, <2>4 DEF NodeDeleted
  <2>5. CASE ~ReportBeat(h) /\ ~HeartbeatWritten(h) /\ ~NodeDeleted(h)
    <3>1. UNCHANGED <<life, age, beaten, verdict>>
      BY <1>8, <2>5 DEF HandlerStep, ReportStored, CountsUpdated,
             StatusFromReport, ReadBack, EmitEvent, EvaluationStarts,
             ItemEvaluated, VerdictWritten, JoinedReadBack, historyVars,
             storeVars, StoreReport, UpdateNodeCompliance, UpdateNodeStatus,
             UpdateNodeComplianceStatus
    <3>. QED
      BY <1>7, <3>1
  <2>. QED
    BY <2>3, <2>4, <2>5
<1>9. ASSUME NEW h \in Handlers, Arrival(h) \/ ClientGone(h)
      PROVE  PendingOffline'
  <2>1. ASSUME NEW n \in Nodes, NodeEnrolled(h, n)
        PROVE  PendingOffline'
    BY <1>3, <2>1 DEF NodeEnrolled
  <2>2. ASSUME \A n \in Nodes : ~NodeEnrolled(h, n)
        PROVE  UNCHANGED <<life, age, beaten, verdict>>
    BY <1>9, <2>2 DEF Arrival, ReportArrives, HeartbeatArrives, DeleteArrives,
           ClientGone, historyVars, storeVars
  <2>. QED
    BY <1>7, <2>1, <2>2
<1>10. ASSUME (\E p \in Policies : UpdatePolicy(p)) \/ Broadcast
              \/ UNCHANGED vars
       PROVE  UNCHANGED <<life, age, beaten, verdict>>
  BY <1>10 DEF UpdatePolicy, Broadcast, vars, controlVars, historyVars,
               storeVars
<1>. QED
  BY <1>1, <1>2, <1>5, <1>6, <1>7, <1>8, <1>9, <1>10 DEF Next, MonitorStep

(* Only a write of the monitor takes a node offline.                       *)
LEMMA OnlyMonitorMarksOffline ==
  ASSUME TypeOK, [Next]_vars, \A m \in Nodes : ~MonitorWrites(m)
  PROVE  \A n \in Nodes : status'[n] = "offline" => status[n] = "offline"
<1>1. ASSUME NEW m \in Nodes, NEW s, s # "offline",
             \/ UpdateNodeStatus(m, s) \/ UpdateNodeHeartbeat(m)
             \/ CreateNode(m) \/ DeleteNode(m)
      PROVE  \A n \in Nodes : status'[n] = "offline" => status[n] = "offline"
  BY <1>1 DEF UpdateNodeStatus, UpdateNodeHeartbeat, CreateNode, DeleteNode,
              Updated, TypeOK, StoreTypeOK
<1>2. ASSUME NEW h \in Handlers, HandlerStep(h)
      PROVE  \A n \in Nodes : status'[n] = "offline" => status[n] = "offline"
  <2>1. job[h].pc # "idle"
    BY <1>2 DEF HandlerStep, ReportStored, CountsUpdated, ReportBeat,
           StatusFromReport, ReadBack, EmitEvent, EvaluationStarts,
           ItemEvaluated, VerdictWritten, HeartbeatWritten, JoinedReadBack,
           NodeDeleted, At
  <2>2. job[h].node \in Nodes
    BY <2>1, BusyType DEF Request
  <2>3. CASE ReportBeat(h) \/ HeartbeatWritten(h) \/ NodeDeleted(h)
    <3>1. "online" # "offline"
      OBVIOUS
    <3>. QED
      BY <1>1, <2>2, <2>3, <3>1 DEF ReportBeat, HeartbeatWritten, NodeDeleted
  <2>4. CASE StatusFromReport(h)
    <3>1. PICK s \in {"online", "degraded"} : UpdateNodeStatus(job[h].node, s)
      BY <2>4 DEF StatusFromReport
    <3>. QED
      BY <1>1, <2>2, <3>1
  <2>5. CASE /\ ~ReportBeat(h) /\ ~HeartbeatWritten(h) /\ ~NodeDeleted(h)
             /\ ~StatusFromReport(h)
    BY <1>2, <2>5 DEF HandlerStep, ReportStored, CountsUpdated, ReadBack,
           EmitEvent, EvaluationStarts, ItemEvaluated, VerdictWritten,
           JoinedReadBack, storeVars, StoreReport, UpdateNodeCompliance,
           UpdateNodeComplianceStatus
  <2>. QED
    BY <2>3, <2>4, <2>5
<1>3. ASSUME NEW h \in Handlers, Arrival(h) \/ ClientGone(h)
      PROVE  \A n \in Nodes : status'[n] = "offline" => status[n] = "offline"
  <2>1. ASSUME NEW m \in Nodes, NodeEnrolled(h, m)
        PROVE  \A n \in Nodes : status'[n] = "offline" => status[n] = "offline"
    BY <2>1 DEF NodeEnrolled, CreateNode, TypeOK, StoreTypeOK
  <2>2. ASSUME \A m \in Nodes : ~NodeEnrolled(h, m)
        PROVE  status' = status
    BY <1>3, <2>2 DEF Arrival, ReportArrives, HeartbeatArrives, DeleteArrives,
           ClientGone, storeVars
  <2>. QED
    BY <2>1, <2>2
<1>4. ASSUME \/ \E p \in Policies : UpdatePolicy(p)
             \/ MonitorSnapshot \/ (\E m \in Nodes : MonitorAnnounces(m))
             \/ Broadcast \/ Tick \/ Restart \/ UNCHANGED vars
      PROVE  status' = status
  BY <1>4 DEF UpdatePolicy, MonitorSnapshot, MonitorAnnounces, Broadcast, Tick,
         Elapse, Restart, vars, storeVars
<1>. QED
  BY <1>2, <1>3, <1>4 DEF Next, MonitorStep

(* The monitor never has a degrade pending for an offline node.            *)
LEMMA PendingDegradeStep ==
  ASSUME TypeOK, PendingDegrade, [Next]_vars
  PROVE  PendingDegrade'
<1>1. CASE MonitorSnapshot
  BY <1>1 DEF MonitorSnapshot, StaleVerdict, storeVars, PendingDegrade
<1>2. ASSUME NEW m \in Nodes, MonitorWrites(m)
      PROVE  PendingDegrade'
  <2>1. \A n \in Nodes \ {m} : verdict'[n] = verdict[n] /\ status'[n] = status[n]
    BY <1>2 DEF MonitorWrites, UpdateNodeStatus, Updated, TypeOK, StoreTypeOK
  <2>2. verdict'[m] # "degrade"
    BY <1>2 DEF MonitorWrites, TypeOK
  <2>. QED
    BY <2>1, <2>2 DEF PendingDegrade
<1>3. ASSUME ~MonitorSnapshot, \A m \in Nodes : ~MonitorWrites(m)
      PROVE  \A n \in Nodes : verdict'[n] = "degrade" => verdict[n] = "degrade"
  <2>1. ASSUME NEW h \in Handlers, HandlerStep(h)
        PROVE  verdict' = verdict
    BY <2>1 DEF HandlerStep, ReportStored, CountsUpdated, ReportBeat,
           StatusFromReport, ReadBack, EmitEvent, EvaluationStarts,
           ItemEvaluated, VerdictWritten, HeartbeatWritten, JoinedReadBack,
           NodeDeleted
  <2>2. ASSUME NEW h \in Handlers, Arrival(h) \/ ClientGone(h)
        PROVE  verdict' = verdict
    BY <2>2 DEF Arrival, ReportArrives, HeartbeatArrives, NodeEnrolled,
           DeleteArrives, ClientGone
  <2>3. ASSUME NEW m \in Nodes, MonitorAnnounces(m)
        PROVE  \A n \in Nodes : verdict'[n] = "degrade" => verdict[n] = "degrade"
    BY <2>3 DEF MonitorAnnounces, TypeOK
  <2>4. ASSUME Restart
        PROVE  \A n \in Nodes : verdict'[n] # "degrade"
    BY <2>4 DEF Restart
  <2>5. ASSUME (\E p \in Policies : UpdatePolicy(p)) \/ Broadcast \/ Tick
               \/ UNCHANGED vars
        PROVE  verdict' = verdict
    BY <2>5 DEF UpdatePolicy, Broadcast, Tick, vars, controlVars
  <2>. QED
    BY <1>3, <2>1, <2>2, <2>3, <2>4, <2>5 DEF Next, MonitorStep
<1>4. ASSUME ~MonitorSnapshot, \A m \in Nodes : ~MonitorWrites(m)
      PROVE  PendingDegrade'
  BY <1>3, <1>4, OnlyMonitorMarksOffline DEF PendingDegrade
<1>. QED
  BY <1>1, <1>2, <1>4

-----------------------------------------------------------------------------
(* The inductive invariant holds at every step of the controller.          *)
LEMMA InitInv == Init => IInv
<1>. SUFFICES ASSUME Init PROVE IInv
  OBVIOUS
<1>1. BlankRows
  BY DEF Init, StoreInit, BlankRows, Registered
<1>2. Evaluating
  BY DEF Init, Evaluating, At, Idle
<1>3. VerdictSound
  BY DEF Init, StoreInit, VerdictSound, Registered
<1>4. PendingOffline /\ PendingDegrade
  BY DEF Init, PendingOffline, PendingDegrade
<1>. QED
  BY <1>1, <1>2, <1>3, <1>4, InitType DEF IInv

(* Every step keeps the inductive invariant.                               *)
LEMMA InvStep ==
  ASSUME IInv, [Next]_vars
  PROVE  IInv'
BY TypeStep, BlankRowsStep, EvaluatingStep, VerdictSoundStep,
   PendingOfflineStep, PendingDegradeStep DEF IInv

(* The inductive invariant, as a theorem of the specification.             *)
THEOREM Invariant == Spec => []IInv
BY InitInv, InvStep, PTL DEF Spec

(* evaluateNodeCompliance reads the policy item by item without a lock,    *)
(* between other requests; HandleGetRoutes may nevertheless trust every    *)
(* verdict drawn under the policy in force.                                *)
THEOREM VerdictsAreSound == Spec => []VerdictSound
<1>1. IInv => VerdictSound
  BY DEF IInv
<1>. QED
  BY <1>1, Invariant, PTL

(* Monitor.check works from a snapshot; a node it takes offline without    *)
(* having missed a heartbeat is past the threshold when the write lands.   *)
THEOREM MonitorIsRight == Spec => MonitorMarksOnlyStale
<1>1. ASSUME IInv, [Next]_vars
      PROVE  [\A n \in Nodes :
                status[n] # "offline" /\ status'[n] = "offline" /\ n \notin beaten
                  => age[n] > OfflineAfter]_vars
  <2>1. ASSUME NEW n \in Nodes, status[n] # "offline", status'[n] = "offline",
               n \notin beaten
        PROVE  age[n] > OfflineAfter
    <3>1. PICK m \in Nodes : MonitorWrites(m)
      BY <1>1, <2>1, OnlyMonitorMarksOffline DEF IInv
    <3>2. m = n /\ Registered(n) /\ verdict[n] = "offline"
      BY <2>1, <3>1 DEF MonitorWrites, UpdateNodeStatus, Updated, IInv,
                        TypeOK, StoreTypeOK
    <3>. QED
      BY <1>1, <2>1, <3>2 DEF IInv, PendingOffline
  <2>. QED
    BY <2>1
<1>. QED
  BY <1>1, Invariant, PTL DEF Spec, MonitorMarksOnlyStale

(* The goroutines that write a status for a node it has heard from.        *)
Contact(n) ==
  \E h \in Handlers : /\ job[h].pc \in {"beat", "status", "heartbeat"}
                      /\ job[h].node = n
                      /\ job'[h] # job[h]

(* Heartbeats and reports are the only way back for an offline node: a     *)
(* late monitor pass cannot turn it into a degraded one.                   *)
THEOREM OfflineNeedsContact == Spec => OfflineUntilContact
<1>1. ASSUME IInv, [Next]_vars, NEW n \in Nodes, status[n] = "offline",
             status'[n] # "offline", life'[n] = "registered"
      PROVE  Contact(n)
  <2>0. Registered(n)
    BY <1>1 DEF IInv, BlankRows
  <2>1. ASSUME NEW h \in Handlers, HandlerStep(h)
        PROVE  Contact(n)
    <3>0. job[h].pc # "idle"
      BY <2>1 DEF HandlerStep, ReportStored, CountsUpdated, ReportBeat,
             StatusFromReport, ReadBack, EmitEvent, EvaluationStarts,
             ItemEvaluated, VerdictWritten, HeartbeatWritten, JoinedReadBack,
             NodeDeleted, At
    <3>1. job[h] \in Request /\ job[h].node \in Nodes
      BY <1>1, <3>0, BusyType DEF IInv, Request
    <3>2. CASE ReportBeat(h) \/ StatusFromReport(h) \/ HeartbeatWritten(h)
      <4>1. job[h].node = n
        BY <1>1, <3>1, <3>2 DEF ReportBeat, StatusFromReport, HeartbeatWritten,
               UpdateNodeHeartbeat, UpdateNodeStatus, Updated, IInv, TypeOK,
               StoreTypeOK
      <4>2. job'[h].pc # job[h].pc /\ job[h].pc \in {"beat", "status", "heartbeat"}
        BY <1>1, <3>1, <3>2 DEF ReportBeat, StatusFromReport, HeartbeatWritten,
               At, Goto, Done, Idle, IInv, TypeOK, Request
      <4>. QED
        BY <4>1, <4>2 DEF Contact
    <3>3. CASE NodeDeleted(h)
      BY <1>1, <2>0, <3>1, <3>3 DEF NodeDeleted, DeleteNode, Updated, IInv,
             TypeOK, StoreTypeOK
    <3>4. CASE /\ ~ReportBeat(h) /\ ~StatusFromReport(h)
               /\ ~HeartbeatWritten(h) /\ ~NodeDeleted(h)
      BY <1>1, <2>1, <3>4 DEF HandlerStep, ReportStored, CountsUpdated,
             ReadBack, EmitEvent, EvaluationStarts, ItemEvaluated,
             VerdictWritten, JoinedReadBack, storeVars, StoreReport,
             UpdateNodeCompliance, UpdateNodeComplianceStatus
    <3>. QED
      BY <3>2, <3>3, <3>4
  <2>2. ASSUME NEW h \in Handlers, Arrival(h) \/ ClientGone(h)
        PROVE  FALSE
    <3>1. ASSUME NEW m \in Nodes, NodeEnrolled(h, m)
          PROVE  FALSE
      BY <1>1, <2>0, <3>1 DEF NodeEnrolled, CreateNode, Registered, IInv,
             TypeOK, StoreTypeOK
    <3>2. ASSUME \A m \in Nodes : ~NodeEnrolled(h, m)
          PROVE  status' = status
      BY <2>2, <3>2 DEF Arrival, ReportArrives, HeartbeatArrives,
             DeleteArrives, ClientGone, storeVars
    <3>. QED
      BY <1>1, <3>1, <3>2
  <2>3. ASSUME NEW m \in Nodes, MonitorWrites(m)
        PROVE  FALSE
    <3>1. verdict[n] # "degrade"
      BY <1>1 DEF IInv, PendingDegrade
    <3>. QED
      BY <1>1, <2>3, <3>1 DEF MonitorWrites, UpdateNodeStatus, Updated, IInv,
             TypeOK, StoreTypeOK
  <2>4. ASSUME \/ \E p \in Policies : UpdatePolicy(p)
               \/ MonitorSnapshot \/ (\E m \in Nodes : MonitorAnnounces(m))
               \/ Broadcast \/ Tick \/ Restart \/ UNCHANGED vars
        PROVE  FALSE
    BY <1>1, <2>4 DEF UpdatePolicy, MonitorSnapshot, MonitorAnnounces,
           Broadcast, Tick, Elapse, Restart, vars, storeVars
  <2>. QED
    BY <1>1, <2>1, <2>2, <2>3, <2>4 DEF Next, MonitorStep
<1>2. ASSUME IInv, [Next]_vars
      PROVE  [\A n \in Nodes :
       status[n] = "offline" /\ status'[n] # "offline" /\ life'[n] = "registered"
         => \E h \in Handlers : /\ job[h].pc \in {"beat", "status", "heartbeat"}
                                 /\ job[h].node = n
                                 /\ job'[h] # job[h]]_vars
  BY <1>1, <1>2 DEF Contact
<1>. QED
  BY <1>2, Invariant, PTL DEF Spec, OfflineUntilContact

-----------------------------------------------------------------------------
(* The counts of the stored report.  First, what a request in flight is    *)
(* about.                                                                  *)
Purposes ==
  \A h \in Handlers :
    /\ job[h].pc \in ReportPoints \ {"emit"} => job[h].type = "node_updated"
    /\ At(h, "joined") => job[h].type = "node_joined"
    /\ At(h, "delete") => job[h].type = "node_removed"
    /\ Busy(h) => life[job[h].node] # "new"
    /\ At(h, "emit") /\ job[h].type = "node_removed"
         => life[job[h].node] = "deleted"

(* A report handled alone: how far it has come tells what of it is stored. *)
Settling(n) ==
  /\ \A g, h \in Reporting(n) : g = h
  /\ \A h \in Reporting(n) :
       /\ job[h].pc # "store" => latest[n] = job[h].rep
       /\ job[h].pc \notin {"store", "counts"} => fail[n] = HasFailure(job[h].rep)
  /\ Reporting(n) = {} => fail[n] = HasFailure(latest[n])

Settled == \A n \in Nodes : Registered(n) /\ ~mixed[n] => Settling(n)

BlankCounts == \A n \in Nodes : life[n] = "new" => ~fail[n] /\ latest[n] = {}

(* The request goroutine g serves is the same, at the same point or not.   *)
Alike(r, s) == r.node = s.node /\ r.type = s.type /\ r.rep = s.rep

(* The three ways a handler's state is assigned.                           *)
LEMMA GotoEffect ==
  ASSUME TypeOK, NEW h \in Handlers, job[h] \in Request, NEW pc, Goto(h, pc)
  PROVE  /\ job'[h].pc = pc /\ Alike(job'[h], job[h])
         /\ \A g \in Handlers \ {h} : job'[g] = job[g]
BY DEF Goto, Request, TypeOK, Alike

LEMMA DoneEffect ==
  ASSUME TypeOK, NEW h \in Handlers, Done(h)
  PROVE  /\ job'[h].pc = "idle"
         /\ \A g \in Handlers \ {h} : job'[g] = job[g]
BY DEF Done, TypeOK, Idle

LEMMA StartEffect ==
  ASSUME TypeOK, NEW h \in Handlers, NEW r, job' = [job EXCEPT ![h] = r]
  PROVE  /\ job'[h] = r
         /\ \A g \in Handlers \ {h} : job'[g] = job[g]
BY DEF TypeOK

LEMMA ReportBegins ==
  ASSUME TypeOK, NEW h \in Handlers, NEW n, NEW rep, ReportArrives(h, n, rep)
  PROVE  job'[h].node = n /\ job'[h].pc = "store" /\ job'[h].type = "node_updated"
<1>1. job'[h] = NewRequest("store", n, rep, "node_updated")
  BY StartEffect DEF ReportArrives
<1>. QED
  BY <1>1 DEF NewRequest

(* A row appears once and goes for good.                                   *)
LEMMA LifeGoesOn ==
  ASSUME TypeOK, [Next]_vars, NEW n \in Nodes
  PROVE  /\ life'[n] = "new" => life[n] = "new"
         /\ life[n] = "deleted" => life'[n] = "deleted"
<1>1. ASSUME NEW m \in Nodes, Statement(m)
      PROVE  /\ life'[n] = "new" => life[n] = "new"
             /\ life[n] = "deleted" => life'[n] = "deleted"
  BY <1>1 DEF Statement, CreateNode, DeleteNode, UpdateNodeHeartbeat,
         UpdateNodeStatus, UpdateNodeCompliance, UpdateNodeComplianceStatus,
         StoreReport, Updated, Registered, TypeOK, StoreTypeOK
<1>. QED
  BY <1>1, OneStatement DEF Elapse, storeVars

(* A step of one goroutine leaves the others where they are; every other   *)
(* step leaves all of them, or none with a request.                        *)
OwnStep(h) == Arrival(h) \/ HandlerStep(h) \/ ClientGone(h)

LEMMA OneGoroutine ==
  ASSUME TypeOK, NEW h \in Handlers, OwnStep(h)
  PROVE  \A g \in Handlers \ {h} : job'[g] = job[g]
BY DEF OwnStep, Arrival, ReportArrives, HeartbeatArrives, NodeEnrolled,
       DeleteArrives, HandlerStep, ReportStored, CountsUpdated, ReportBeat,
       StatusFromReport, ReadBack, EmitEvent, EvaluationStarts, ItemEvaluated,
       VerdictWritten, HeartbeatWritten, JoinedReadBack, NodeDeleted, ClientGone,
       Goto, Done, TypeOK

(* Policies, the monitor, the broadcaster and the clock move no request.   *)
LEMMA BackgroundSteps ==
  ASSUME TypeOK,
         (\E p \in Policies : UpdatePolicy(p)) \/ MonitorStep \/ Broadcast \/ Tick
           \/ UNCHANGED vars
  PROVE  /\ UNCHANGED <<life, fail, comp, latest, mixed>>
         /\ \A h \in Handlers :
              job'[h].pc = job[h].pc /\ (Busy(h) => Alike(job'[h], job[h]))
<1>1. ASSUME NEW p \in Policies, UpdatePolicy(p), NEW h \in Handlers
      PROVE  job'[h].pc = job[h].pc /\ (Busy(h) => Alike(job'[h], job[h]))
  <2>1. CASE At(h, "items")
    <3>1. job[h] \in Request
      BY <2>1, BusyType DEF At
    <3>. QED
      BY <1>1, <2>1, <3>1 DEF UpdatePolicy, Request, Alike
  <2>2. CASE ~At(h, "items")
    BY <1>1, <2>2 DEF UpdatePolicy, Alike
  <2>. QED
    BY <2>1, <2>2
<1>2. ASSUME NEW p \in Policies, UpdatePolicy(p)
      PROVE  UNCHANGED <<life, fail, comp, latest, mixed>>
  BY <1>2 DEF UpdatePolicy, storeVars
<1>3. ASSUME MonitorStep \/ Broadcast \/ Tick \/ UNCHANGED vars
      PROVE  UNCHANGED <<life, fail, comp, latest, mixed, job>>
  BY <1>3 DEF MonitorStep, MonitorSnapshot, MonitorWrites, MonitorAnnounces,
         UpdateNodeStatus, Broadcast, Tick, Elapse, vars, controlVars,
         historyVars, storeVars
<1>. QED
  BY <1>1, <1>2, <1>3 DEF Alike

LEMMA OtherSteps ==
  ASSUME TypeOK, [Next]_vars, \A h \in Handlers : ~OwnStep(h)
  PROVE  /\ UNCHANGED <<life, fail, comp, latest>>
         /\ \/ /\ UNCHANGED mixed
               /\ \A h \in Handlers :
                    job'[h].pc = job[h].pc
                    /\ (Busy(h) => Alike(job'[h], job[h]))
            \/ Restart
<1>1. CASE Restart
  BY <1>1 DEF Restart, storeVars
<1>. QED
  BY <1>1, BackgroundSteps DEF Next, OwnStep

(* The points a handler may go on to, and how a request is begun.          *)
Flow == {<<"store", "counts">>, <<"counts", "beat">>, <<"beat", "status">>,
         <<"status", "read">>, <<"status", "eval">>, <<"read", "emit">>,
         <<"read", "eval">>, <<"emit", "eval">>, <<"eval", "items">>,
         <<"items", "items">>, <<"joined", "emit">>, <<"delete", "emit">>}

Begins(h, r) ==
  /\ ~Busy(h)
  /\ r.node \in Nodes
  /\ \/ /\ r.pc = "store" /\ r.type = "node_updated"
        /\ \E rep \in Reports : ReportArrives(h, r.node, rep)
     \/ r.pc = "heartbeat" /\ Registered(r.node)
     \/ r.pc = "joined" /\ r.type = "node_joined" /\ CreateNode(r.node)
     \/ r.pc = "delete" /\ r.type = "node_removed" /\ Registered(r.node)

GoesOn(h, r) ==
  /\ Busy(h)
  /\ Alike(r, job[h])
  /\ <<job[h].pc, r.pc>> \in Flow
  /\ At(h, "emit") => job[h].type = "node_updated"
  /\ At(h, "delete") => NodeDeleted(h)

(* Where a goroutine's own step leaves it.                                 *)
LEMMA Moves ==
  ASSUME TypeOK, NEW h \in Handlers, OwnStep(h)
  PROVE  \/ job'[h].pc = "idle"
         \/ Begins(h, job'[h])
         \/ GoesOn(h, job'[h])
<1>1. CASE Arrival(h)
  <2>0. PICK n \in Nodes : \/ \E rep \in Reports : ReportArrives(h, n, rep)
                           \/ HeartbeatArrives(h, n)
                           \/ NodeEnrolled(h, n)
                           \/ DeleteArrives(h, n)
    BY <1>1 DEF Arrival
  <2>1. ASSUME NEW rep \in Reports, ReportArrives(h, n, rep)
        PROVE  Begins(h, job'[h])
    <3>1. job'[h].node = n /\ job'[h].pc = "store" /\ job'[h].type = "node_updated"
      BY <2>1, ReportBegins
    <3>2. ~Busy(h)
      BY <2>1 DEF ReportArrives
    <3>. QED
      BY <2>1, <3>1, <3>2 DEF Begins
  <2>2. CASE HeartbeatArrives(h, n)
    <3>1. job'[h] = NewRequest("heartbeat", n, {}, "node_updated")
      BY <2>2, StartEffect DEF HeartbeatArrives
    <3>. QED
      BY <2>2, <3>1 DEF HeartbeatArrives, Begins, NewRequest
  <2>3. CASE NodeEnrolled(h, n)
    <3>1. CASE EventCap = 0
      BY <2>3, <3>1 DEF NodeEnrolled, Busy
    <3>2. CASE EventCap # 0
      <4>1. job'[h] = NewRequest("joined", n, {}, "node_joined")
        BY <2>3, <3>2, StartEffect DEF NodeEnrolled
      <4>. QED
        BY <2>3, <4>1 DEF NodeEnrolled, Begins, NewRequest
    <3>. QED
      BY <3>1, <3>2
  <2>4. CASE DeleteArrives(h, n)
    <3>. DEFINE r == NewRequest("delete", n, {}, "node_removed")
    <3>1. job'[h] = [r EXCEPT !.seen = status[n]]
      BY <2>4, StartEffect DEF DeleteArrives
    <3>2. job'[h].pc = "delete" /\ job'[h].type = "node_removed" /\ job'[h].node = n
      BY <3>1 DEF NewRequest
    <3>. QED
      BY <2>4, <3>2 DEF DeleteArrives, Begins
  <2>. QED
    BY <2>0, <2>1, <2>2, <2>3, <2>4
<1>2. CASE HandlerStep(h)
  <2>1. Busy(h) /\ job[h] \in Request
    <3>1. Busy(h)
      BY <1>2 DEF HandlerStep, ReportStored, CountsUpdated, ReportBeat,
             StatusFromReport, ReadBack, EmitEvent, EvaluationStarts,
             ItemEvaluated, VerdictWritten, HeartbeatWritten, JoinedReadBack,
             NodeDeleted, At, Busy
    <3>. QED
      BY <3>1, BusyType DEF Busy
  <2>2. ASSUME NEW pc, Goto(h, pc), <<job[h].pc, pc>> \in Flow,
               At(h, "emit") => job[h].type = "node_updated",
               At(h, "delete") => NodeDeleted(h)
        PROVE  GoesOn(h, job'[h])
    BY <2>1, <2>2, GotoEffect DEF GoesOn
  <2>3. ASSUME Done(h) PROVE job'[h].pc = "idle"
    BY <2>3, DoneEffect
  <2>4. CASE \/ ReportStored(h) \/ CountsUpdated(h) \/ ReportBeat(h)
             \/ StatusFromReport(h)
    BY <2>2, <2>4 DEF ReportStored, CountsUpdated, ReportBeat,
       StatusFromReport, At, Flow
  <2>5. CASE EmitEvent(h) \/ NodeDeleted(h) \/ VerdictWritten(h) \/ HeartbeatWritten(h)
    BY <2>2, <2>3, <2>5 DEF EmitEvent, NodeDeleted, VerdictWritten,
       HeartbeatWritten, At, Flow
  <2>6. CASE ReadBack(h)
    <3>. DEFINE pc == IF Registered(job[h].node) THEN "emit" ELSE "eval"
                r == [job[h] EXCEPT !.pc = pc, !.seen = status[job[h].node]]
    <3>1. job' = [job EXCEPT ![h] = r]
      BY <2>6 DEF ReadBack
    <3>2. r.pc \in {"emit", "eval"} /\ Alike(r, job[h])
      BY <2>1 DEF Request, Alike
    <3>. HIDE DEF r
    <3>3. job'[h] = r
      BY <3>1, StartEffect
    <3>. QED
      BY <2>1, <2>6, <3>2, <3>3 DEF ReadBack, At, GoesOn, Flow
  <2>7. CASE EvaluationStarts(h)
    <3>. DEFINE r == [job[h] EXCEPT !.pc = "items", !.todo = job[h].rep,
                                    !.ok = TRUE, !.stale = FALSE]
    <3>1. Done(h) \/ job' = [job EXCEPT ![h] = r]
      BY <2>7 DEF EvaluationStarts
    <3>2. r.pc = "items" /\ Alike(r, job[h])
      BY <2>1 DEF Request, Alike
    <3>. HIDE DEF r
    <3>3. job'[h] = r \/ job'[h].pc = "idle"
      BY <2>3, <3>1, StartEffect
    <3>. QED
      BY <2>1, <2>7, <3>2, <3>3 DEF EvaluationStarts, At, GoesOn, Flow
  <2>8. ASSUME NEW i \in Items, ItemEvaluated(h, i)
        PROVE  GoesOn(h, job'[h])
    <3>. DEFINE s == job[h].todo \ {i}
                b == job[h].ok /\ ~Violates(i, policy)
                r == [job[h] EXCEPT !.todo = s, !.ok = b]
    <3>1. job' = [job EXCEPT ![h] = r]
      BY <2>8 DEF ItemEvaluated
    <3>. HIDE DEF s, b
    <3>2. r.pc = job[h].pc /\ Alike(r, job[h])
      BY <2>1 DEF Request, Alike
    <3>. HIDE DEF r
    <3>3. job'[h] = r
      BY <3>1, StartEffect
    <3>. QED
      BY <2>1, <2>8, <3>2, <3>3 DEF ItemEvaluated, At, GoesOn, Flow
  <2>9. CASE JoinedReadBack(h)
    <3>. DEFINE r == [job[h] EXCEPT !.pc = "emit", !.seen = status[job[h].node]]
    <3>1. Done(h) \/ job' = [job EXCEPT ![h] = r]
      BY <2>9 DEF JoinedReadBack
    <3>2. r.pc = "emit" /\ Alike(r, job[h])
      BY <2>1 DEF Request, Alike
    <3>. HIDE DEF r
    <3>3. job'[h] = r \/ job'[h].pc = "idle"
      BY <2>3, <3>1, StartEffect
    <3>. QED
      BY <2>1, <2>9, <3>2, <3>3 DEF JoinedReadBack, At, GoesOn, Flow
  <2>. QED
    BY <1>2, <2>4, <2>5, <2>6, <2>7, <2>8, <2>9 DEF HandlerStep
<1>3. CASE ClientGone(h)
  BY <1>3, DoneEffect DEF ClientGone
<1>. QED
  BY <1>1, <1>2, <1>3 DEF OwnStep

(* Requests keep to their purpose.                                         *)
LEMMA PurposesStep ==
  ASSUME TypeOK, Purposes, [Next]_vars
  PROVE  Purposes'
<1>. DEFINE P(h) ==
       /\ job[h].pc \in ReportPoints \ {"emit"} => job[h].type = "node_updated"
       /\ At(h, "joined") => job[h].type = "node_joined"
       /\ At(h, "delete") => job[h].type = "node_removed"
       /\ Busy(h) => life[job[h].node] # "new"
       /\ At(h, "emit") /\ job[h].type = "node_removed"
            => life[job[h].node] = "deleted"
<1>1. ASSUME NEW h \in Handlers, job'[h].pc = job[h].pc,
             Busy(h) => Alike(job'[h], job[h])
      PROVE  P(h)'
  <2>1. CASE Busy(h)
    <3>1. job[h].node \in Nodes
      BY <2>1, BusyType DEF Busy, Request
    <3>. QED
      BY <1>1, <2>1, <3>1, LifeGoesOn DEF Purposes, Alike, At, Busy
  <2>2. CASE ~Busy(h)
    BY <1>1, <2>2 DEF Busy, At, ReportPoints
  <2>. QED
    BY <2>1, <2>2
<1>2. ASSUME NEW h \in Handlers, OwnStep(h)
      PROVE  P(h)'
  <2>1. CASE job'[h].pc = "idle"
    BY <2>1 DEF Busy, At, ReportPoints
  <2>2. CASE Begins(h, job'[h])
    <3>1. life'[job'[h].node] # "new"
      <4>. DEFINE n == job'[h].node
      <4>1. n \in Nodes /\ (Registered(n) \/ CreateNode(n))
        BY <2>2 DEF Begins, ReportArrives
      <4>. HIDE DEF n
      <4>2. life'[n] # "new"
        BY <4>1, LifeGoesOn DEF Registered, CreateNode, TypeOK, StoreTypeOK
      <4>. QED
        BY <4>2 DEF n
    <3>. QED
      BY <2>2, <3>1 DEF Begins, At, ReportPoints
  <2>3. CASE GoesOn(h, job'[h])
    <3>. DEFINE n == job[h].node
    <3>1. n \in Nodes /\ life[n] # "new"
      BY <2>3, BusyType DEF GoesOn, Busy, Request, Purposes
    <3>2. life'[n] # "new"
      BY <3>1, LifeGoesOn
    <3>3. job'[h].node = n /\ job'[h].type = job[h].type
      BY <2>3 DEF GoesOn, Alike
    <3>4. At(h, "delete") => life'[n] = "deleted"
      BY <2>3, <3>1 DEF GoesOn, NodeDeleted, DeleteNode, Updated, Registered,
         TypeOK, StoreTypeOK
    <3>5. <<job[h].pc, job'[h].pc>> \in Flow
      BY <2>3 DEF GoesOn
    <3>. HIDE DEF n
    <3>6. /\ job'[h].pc \in {"counts", "beat", "status", "read", "eval", "items", "emit"}
          /\ job'[h].pc # "emit" => job[h].type = "node_updated"
          /\ job'[h].pc = "emit" =>
               \/ job[h].type \in {"node_updated", "node_joined"}
               \/ At(h, "delete")
      BY <2>3, <3>5 DEF Flow, GoesOn, At, Purposes, ReportPoints
    <3>. QED
      BY <3>2, <3>3, <3>4, <3>6 DEF At, ReportPoints
  <2>. QED
    BY <1>2, <2>1, <2>2, <2>3, Moves
<1>3. ASSUME NEW g \in Handlers, OwnStep(g), NEW h \in Handlers
      PROVE  P(h)'
  <2>1. CASE g = h
    BY <1>2, <1>3, <2>1
  <2>2. CASE g # h
    BY <1>1, <1>3, <2>2, OneGoroutine DEF Alike
  <2>. QED
    BY <2>1, <2>2
<1>4. ASSUME \A h \in Handlers : ~OwnStep(h), NEW h \in Handlers
      PROVE  P(h)'
  <2>1. CASE Restart
    BY <2>1 DEF Restart, Idle, Busy, At, ReportPoints
  <2>2. CASE ~Restart
    BY <1>1, <1>4, <2>2, OtherSteps
  <2>. QED
    BY <2>1, <2>2
<1>. QED
  BY <1>3, <1>4 DEF Purposes

(* Rows not handed out yet.                                                *)
LEMMA BlankCountsStep ==
  ASSUME TypeOK, BlankCounts, [Next]_vars
  PROVE  BlankCounts'
<1>1. ASSUME NEW m \in Nodes, Statement(m), NEW n \in Nodes, life'[n] = "new"
      PROVE  ~fail'[n] /\ latest'[n] = {}
  BY <1>1 DEF Statement, CreateNode, DeleteNode, UpdateNodeHeartbeat,
         UpdateNodeStatus, UpdateNodeCompliance, UpdateNodeComplianceStatus,
         StoreReport, Updated, Registered, TypeOK, StoreTypeOK, BlankCounts
<1>. QED
  BY <1>1, OneStatement DEF Elapse, storeVars, BlankCounts

(* The columns that count, and who may write them.                         *)
LEMMA CountsWritten ==
  ASSUME TypeOK, NEW h \in Handlers, OwnStep(h), NEW n \in Nodes, Registered(n),
         Registered(n)'
  PROVE  /\ \/ latest'[n] = latest[n]
            \/ ReportStored(h) /\ job[h].node = n /\ latest'[n] = job[h].rep
         /\ \/ fail'[n] = fail[n]
            \/ CountsUpdated(h) /\ job[h].node = n
                 /\ fail'[n] = HasFailure(job[h].rep)
<1>1. CASE ReportStored(h)
  BY <1>1 DEF ReportStored, StoreReport, Updated, TypeOK, StoreTypeOK
<1>2. CASE CountsUpdated(h)
  BY <1>2 DEF CountsUpdated, UpdateNodeCompliance, Updated, TypeOK, StoreTypeOK
<1>3. CASE NodeDeleted(h)
  BY <1>3 DEF NodeDeleted, DeleteNode, Updated, Registered, TypeOK, StoreTypeOK
<1>4. CASE ~ReportStored(h) /\ ~CountsUpdated(h) /\ ~NodeDeleted(h)
  BY <1>4 DEF OwnStep, Arrival, ReportArrives, HeartbeatArrives, NodeEnrolled,
       CreateNode, DeleteArrives, HandlerStep, ReportBeat, UpdateNodeHeartbeat,
       StatusFromReport, UpdateNodeStatus, ReadBack, EmitEvent,
       EvaluationStarts, ItemEvaluated, VerdictWritten,
       UpdateNodeComplianceStatus, HeartbeatWritten, JoinedReadBack, ClientGone,
       storeVars
<1>. QED
  BY <1>1, <1>2, <1>3, <1>4

(* What a step does to the history of reports that overlapped.             *)
LEMMA MixedBy ==
  ASSUME TypeOK, NEW h \in Handlers, OwnStep(h), NEW n \in Nodes, ~mixed'[n]
  PROVE  \/ /\ mixed' = mixed
            /\ ~(\E m \in Nodes, rep \in Reports : ReportArrives(h, m, rep))
            /\ ~ClientGone(h)
         \/ /\ \E rep \in Reports : ReportArrives(h, n, rep)
            /\ Reporting(n) = {}
         \/ /\ \E m \in Nodes \ {n}, rep \in Reports : ReportArrives(h, m, rep)
            /\ ~mixed[n]
         \/ /\ ClientGone(h) /\ ~mixed[n] /\ h \notin Reporting(n)
<1>1. ASSUME NEW m \in Nodes, NEW rep \in Reports, ReportArrives(h, m, rep)
      PROVE  \/ m = n /\ Reporting(n) = {}
             \/ m # n /\ ~mixed[n]
  BY <1>1 DEF ReportArrives, TypeOK
<1>2. CASE ClientGone(h)
  <2>1. job[h].node \in Nodes
    BY <1>2, BusyType DEF ClientGone, Busy, Request
  <2>2. mixed' = [mixed EXCEPT ![job[h].node] =
                    mixed[job[h].node] \/ h \in Reporting(job[h].node)]
    BY <1>2, <2>1 DEF ClientGone, TypeOK
  <2>3. ~mixed[n] /\ h \notin Reporting(n)
    <3>1. CASE job[h].node = n
      BY <2>1, <2>2, <3>1 DEF TypeOK
    <3>2. CASE job[h].node # n
      BY <2>2, <3>2 DEF TypeOK, Reporting
    <3>. QED
      BY <3>1, <3>2
  <2>. QED
    BY <1>2, <2>3
<1>3. ASSUME ~ClientGone(h),
             ~(\E m \in Nodes, rep \in Reports : ReportArrives(h, m, rep))
      PROVE  mixed' = mixed
  BY <1>3 DEF OwnStep, Arrival, HeartbeatArrives, NodeEnrolled, DeleteArrives,
       HandlerStep, ReportStored, CountsUpdated, ReportBeat, StatusFromReport,
       ReadBack, EmitEvent, EvaluationStarts, ItemEvaluated, VerdictWritten,
       HeartbeatWritten, JoinedReadBack, NodeDeleted, historyVars
<1>. QED
  BY <1>1, <1>2, <1>3

(* The points a handler leaves by one step only.                           *)
LEMMA OnlyStep ==
  ASSUME TypeOK, NEW h \in Handlers, OwnStep(h), ~ClientGone(h)
  PROVE  /\ At(h, "store") => ReportStored(h)
         /\ At(h, "counts") => CountsUpdated(h)
         /\ At(h, "emit") => EmitEvent(h)
         /\ At(h, "joined") => JoinedReadBack(h)
<1>1. CASE Arrival(h)
  BY <1>1 DEF Arrival, ReportArrives, HeartbeatArrives, NodeEnrolled,
       DeleteArrives, Busy, At
<1>2. CASE HandlerStep(h)
  BY <1>2 DEF HandlerStep, CountsUpdated, ReportStored, ReportBeat,
       StatusFromReport, ReadBack, EmitEvent, EvaluationStarts, ItemEvaluated,
       VerdictWritten, HeartbeatWritten, JoinedReadBack, NodeDeleted, At
<1>. QED
  BY <1>1, <1>2 DEF OwnStep

(* A step that touches neither the counts nor the reports of n.            *)
LEMMA SettledKept ==
  ASSUME NEW n \in Nodes, Settling(n),
         latest'[n] = latest[n], fail'[n] = fail[n],
         Reporting(n)' = Reporting(n),
         \A h \in Reporting(n) : /\ job'[h].pc = job[h].pc
                                 /\ job'[h].rep = job[h].rep
  PROVE  Settling(n)'
BY DEF Settling

(* The one report of a node under way goes on, or ends.                    *)
LEMMA SettledBySole ==
  ASSUME TypeOK, Purposes, NEW n \in Nodes, Registered(n), Registered(n)',
         Settling(n), NEW h \in Handlers, OwnStep(h), ~ClientGone(h),
         h \in Reporting(n)
  PROVE  Settling(n)'
<1>. DEFINE rep == job[h].rep
<1>1. /\ Busy(h) /\ job[h].node = n /\ job[h].type = "node_updated"
      /\ job[h].pc \in ReportPoints
  BY DEF Reporting, Busy, ReportPoints
<1>2. /\ latest[n] = rep \/ At(h, "store")
      /\ fail[n] = HasFailure(rep) \/ job[h].pc \in {"store", "counts"}
  BY DEF Settling, At
<1>3. /\ At(h, "store") => latest'[n] = rep
      /\ At(h, "counts") => fail'[n] = HasFailure(rep)
  BY <1>1, OnlyStep DEF ReportStored, StoreReport, CountsUpdated,
     UpdateNodeCompliance, Updated, TypeOK, StoreTypeOK
<1>4. /\ ReportStored(h) => At(h, "store")
      /\ CountsUpdated(h) => At(h, "counts")
  BY DEF ReportStored, CountsUpdated
<1>. HIDE DEF rep
<1>5. latest'[n] = rep
  BY <1>2, <1>3, <1>4, CountsWritten DEF At
<1>6. job[h].pc # "store" => fail'[n] = HasFailure(rep)
  BY <1>2, <1>3, <1>4, CountsWritten DEF At
<1>7. \A g \in Handlers \ {h} : g \notin Reporting(n) /\ g \notin Reporting(n)'
  <2>. SUFFICES ASSUME NEW g \in Handlers \ {h}
       PROVE  g \notin Reporting(n) /\ g \notin Reporting(n)'
    OBVIOUS
  <2>1. g \notin Reporting(n)
    BY DEF Settling
  <2>2. job'[g] = job[g]
    BY OneGoroutine
  <2>. QED
    BY <2>1, <2>2 DEF Reporting
<1>8. CASE job'[h].pc = "idle"
  <2>1. Reporting(n)' = {}
    BY <1>7, <1>8 DEF Reporting, ReportPoints
  <2>2. ~At(h, "store")
    <3>1. ReportStored(h) => job'[h].pc = "counts"
      BY <1>1, BusyType, GotoEffect DEF ReportStored, Busy
    <3>. QED
      BY <1>8, <3>1, OnlyStep
  <2>. QED
    BY <1>5, <1>6, <2>1, <2>2 DEF Settling, At
<1>9. CASE GoesOn(h, job'[h])
  <2>1. job'[h].rep = rep /\ <<job[h].pc, job'[h].pc>> \in Flow
    BY <1>9 DEF GoesOn, Alike, rep
  <2>2. /\ job'[h].pc # "store"
        /\ job'[h].pc = "counts" \/ job[h].pc # "store"
    BY <2>1 DEF Flow
  <2>3. \A g \in Reporting(n)' : g = h
    BY <1>7 DEF Reporting
  <2>4. h \in Reporting(n)'
    <3>1. job'[h].pc \in ReportPoints
      BY <2>1 DEF Flow, ReportPoints
    <3>. QED
      BY <1>1, <1>9, <3>1 DEF GoesOn, Alike, Reporting
  <2>. QED
    BY <1>5, <1>6, <2>1, <2>2, <2>3, <2>4 DEF Settling
<1>. QED
  BY <1>1, <1>8, <1>9, Moves DEF Begins

(* Every step keeps the counts of reports handled alone.                   *)
LEMMA SettledStep ==
  ASSUME TypeOK, Purposes, BlankCounts, Settled, [Next]_vars
  PROVE  Settled'
<1>. SUFFICES ASSUME NEW n \in Nodes, Registered(n)', ~mixed'[n]
     PROVE  Settling(n)'
  BY DEF Settled
<1>1. CASE \A h \in Handlers : ~OwnStep(h)
  <2>1. UNCHANGED <<life, fail, latest>> /\ Registered(n)
    BY <1>1, OtherSteps DEF Registered
  <2>2. CASE Restart
    <3>1. ~mixed[n] /\ Reporting(n) = {}
      BY <2>2 DEF Restart
    <3>2. Reporting(n)' = {}
      BY <2>2 DEF Restart, Idle, Reporting, ReportPoints
    <3>. QED
      BY <2>1, <3>1, <3>2 DEF Settled, Settling
  <2>3. CASE ~Restart
    <3>1. /\ ~mixed[n]
          /\ \A h \in Handlers :
               job'[h].pc = job[h].pc /\ (Busy(h) => Alike(job'[h], job[h]))
      BY <1>1, <2>3, OtherSteps
    <3>2. \A h \in Handlers :
            /\ h \in Reporting(n)' <=> h \in Reporting(n)
            /\ h \in Reporting(n) => job'[h].rep = job[h].rep
      BY <3>1 DEF Reporting, ReportPoints, Busy, Alike
    <3>3. Reporting(n)' = Reporting(n)
      BY <3>2 DEF Reporting
    <3>4. \A h \in Reporting(n) : h \in Handlers
      BY DEF Reporting
    <3>5. Settling(n)
      BY <2>1, <3>1 DEF Settled
    <3>. QED
      BY <2>1, <3>1, <3>2, <3>3, <3>4, <3>5, SettledKept
  <2>. QED
    BY <2>2, <2>3
<1>2. ASSUME NEW h \in Handlers, OwnStep(h), ~Registered(n)
      PROVE  Settling(n)'
  <2>1. life[n] = "new"
    BY <1>2, LifeGoesOn DEF Registered, TypeOK, StoreTypeOK
  <2>2. \A g \in Handlers : Busy(g) => job[g].node # n
    BY <2>1 DEF Purposes
  <2>3. \A g \in Handlers : g \notin Reporting(n)
    BY <2>2 DEF Reporting, Busy, ReportPoints
  <2>4. Reporting(n)' = {}
    <3>1. h \notin Reporting(n)'
      <4>1. CASE Begins(h, job'[h])
        BY <1>2, <4>1 DEF Begins, ReportArrives, Reporting, ReportPoints
      <4>2. CASE job'[h].pc = "idle"
        BY <4>2 DEF Reporting, ReportPoints
      <4>3. CASE GoesOn(h, job'[h])
        BY <2>2, <4>3 DEF GoesOn, Alike, Reporting
      <4>. QED
        BY <1>2, <4>1, <4>2, <4>3, Moves
    <3>2. \A g \in Handlers \ {h} : g \notin Reporting(n)'
      BY <1>2, <2>3, OneGoroutine DEF Reporting
    <3>. QED
      BY <3>1, <3>2 DEF Reporting
  <2>5. ~fail'[n] /\ latest'[n] = {}
    <3>1. ASSUME NEW m \in Nodes, Statement(m)
          PROVE  ~fail'[n] /\ latest'[n] = {}
      BY <2>1, <3>1 DEF Statement, CreateNode, DeleteNode, UpdateNodeHeartbeat,
         UpdateNodeStatus, UpdateNodeCompliance, UpdateNodeComplianceStatus,
         StoreReport, Updated, Registered, TypeOK, StoreTypeOK, BlankCounts
    <3>. QED
      BY <2>1, <3>1, OneStatement DEF Elapse, storeVars, BlankCounts
  <2>6. fail'[n] = HasFailure({}) 
    <3>1. fail'[n] \in BOOLEAN
      BY TypeStep DEF TypeOK, StoreTypeOK
    <3>. QED
      BY <2>5, <3>1 DEF HasFailure
  <2>. QED
    BY <2>4, <2>5, <2>6 DEF Settling
<1>3. ASSUME NEW h \in Handlers, OwnStep(h), Registered(n)
      PROVE  Settling(n)'
  <2>1. \A g \in Handlers \ {h} : job'[g] = job[g]
    BY <1>3, OneGoroutine
  <2>2. ASSUME Settling(n), h \notin Reporting(n), h \notin Reporting(n)'
        PROVE  Settling(n)'
    <3>1. Reporting(n)' = Reporting(n)
      BY <2>1, <2>2 DEF Reporting
    <3>2. latest'[n] = latest[n] /\ fail'[n] = fail[n]
      <4>1. At(h, "store") \/ At(h, "counts") => job[h].node # n
        BY <2>2 DEF Purposes, Reporting, At, ReportPoints
      <4>. QED
        BY <1>3, <4>1, CountsWritten DEF ReportStored, CountsUpdated
    <3>3. \A g \in Reporting(n) : g \in Handlers \ {h}
      BY <2>2 DEF Reporting
    <3>. QED
      BY <2>1, <2>2, <3>1, <3>2, <3>3, SettledKept
  <2>3. CASE (\E rep \in Reports : ReportArrives(h, n, rep)) /\ Reporting(n) = {}
    <3>1. job'[h].pc = "store"
      BY <2>3, ReportBegins
    <3>2. \A g \in Reporting(n)' : g = h
      BY <2>1, <2>3 DEF Reporting
    <3>3. h \in Reporting(n)'
      BY <2>3, ReportBegins DEF Reporting, ReportPoints
    <3>. QED
      BY <3>1, <3>2, <3>3 DEF Settling
  <2>4. CASE /\ \E m \in Nodes \ {n}, rep \in Reports : ReportArrives(h, m, rep)
             /\ ~mixed[n]
    <3>1. h \notin Reporting(n)'
      BY <2>4, ReportBegins DEF Reporting
    <3>2. h \notin Reporting(n)
      BY <2>4 DEF ReportArrives, Busy, Reporting, ReportPoints
    <3>. QED
      BY <1>3, <2>2, <2>4, <3>1, <3>2 DEF Settled
  <2>5. CASE ClientGone(h) /\ ~mixed[n] /\ h \notin Reporting(n)
    <3>1. h \notin Reporting(n)'
      BY <2>5, DoneEffect DEF ClientGone, Reporting, ReportPoints
    <3>. QED
      BY <1>3, <2>2, <2>5, <3>1 DEF Settled
  <2>6. CASE /\ mixed' = mixed /\ ~ClientGone(h)
             /\ ~(\E m \in Nodes, rep \in Reports : ReportArrives(h, m, rep))
    <3>1. Settling(n)
      BY <1>3, <2>6 DEF Settled
    <3>2. CASE h \in Reporting(n)
      BY <1>3, <2>6, <3>1, <3>2, SettledBySole
    <3>3. CASE h \notin Reporting(n)
      <4>1. h \notin Reporting(n)'
        <5>1. CASE Begins(h, job'[h])
          BY <2>6, <5>1 DEF Begins, Reporting, ReportPoints
        <5>2. CASE job'[h].pc = "idle"
          BY <5>2 DEF Reporting, ReportPoints
        <5>3. CASE GoesOn(h, job'[h])
          <6>1. <<job[h].pc, job'[h].pc>> \in Flow
            BY <5>3 DEF GoesOn
          <6>2. \/ job[h].pc \in ReportPoints
                \/ At(h, "joined") \/ At(h, "delete")
            BY <6>1 DEF Flow, ReportPoints, At
          <6>. QED
            BY <3>3, <5>3, <6>2 DEF GoesOn, Alike, Reporting, Purposes
        <5>. QED
          BY <1>3, <5>1, <5>2, <5>3, Moves
      <4>. QED
        BY <2>2, <3>1, <3>3, <4>1
    <3>. QED
      BY <3>2, <3>3
  <2>. QED
    BY <1>3, <2>3, <2>4, <2>5, <2>6, MixedBy
<1>. QED
  BY <1>1, <1>2, <1>3

(* What the counts rest on.                                                *)
CountsInv ==
  /\ TypeOK
  /\ Purposes
  /\ BlankCounts
  /\ Settled

LEMMA InitCounts == Init => CountsInv
<1>. SUFFICES ASSUME Init
     PROVE  CountsInv
  OBVIOUS
<1>1. TypeOK
  BY InitType
<1>2. Purposes
  BY DEF Init, Purposes, At, Busy, Idle, ReportPoints
<1>3. BlankCounts
  BY DEF Init, StoreInit, BlankCounts
<1>4. Settled
  BY DEF Init, StoreInit, Settled, Registered
<1>. QED
  BY <1>1, <1>2, <1>3, <1>4 DEF CountsInv

LEMMA CountsStep == CountsInv /\ [Next]_vars => CountsInv'
BY TypeStep, PurposesStep, BlankCountsStep, SettledStep DEF CountsInv

(* What HandleReport has stored of a report, statement by statement.       *)
THEOREM CountsInvariant == Spec => []CountsInv
BY InitCounts, CountsStep, PTL DEF Spec

(* After a node's last report has been handled without another of the same *)
(* node overlapping it, or a hang-up or restart cutting it short, the      *)
(* stored failure count is that of the stored report: no other write to    *)
(* the row between the statements of HandleReport comes in between.        *)
THEOREM CountsSettle == Spec => []SettledCounts
<1>1. CountsInv => SettledCounts
  BY DEF CountsInv, Settled, Settling, SettledCounts
<1>. QED
  BY <1>1, CountsInvariant, PTL

-----------------------------------------------------------------------------
(* The event stream.  Composition adds steps of the clients to those of    *)
(* the controller; a page is up to date when what is queued, applied in    *)
(* order, gives the registry.                                              *)

(* Membership events of n.                                                 *)
Joins(e, n) == e.type = "node_joined" /\ e.node = n
Removes(e, n) == e.type = "node_removed" /\ e.node = n

(* Whether a page that shows n, or not (b), shows it after event e, and    *)
(* after the events of q.                                                  *)
ListedAfter(b, e, n) == Joins(e, n) \/ (b /\ ~Removes(e, n))
Listed(b, q, n) ==
  \/ \E i \in 1 .. Len(q) : /\ Joins(q[i], n)
                            /\ \A k \in (i + 1) .. Len(q) : ~Removes(q[k], n)
  \/ b /\ \A k \in 1 .. Len(q) : ~Removes(q[k], n)

Emitting(n, type) ==
  \E h \in Handlers : At(h, "emit") /\ job[h].node = n /\ job[h].type = type
JoinPending(n) ==
  \/ \E h \in Handlers : At(h, "joined") /\ job[h].node = n
  \/ Emitting(n, "node_joined")

(* What the page of c will show of n once the queued events are applied.   *)
OnPage(c, n) == Listed(view[c][n] # "absent", chan[c], n)
WillShow(c, n) == Listed(OnPage(c, n), eventCh, n)

TrueOf(rows, e) ==
  /\ e.type = "node_joined" => rows[e.node] # "new"
  /\ e.type = "node_removed" => rows[e.node] = "deleted"

EventsTrue(rows, q) == \A k \in 1 .. Len(q) : TrueOf(rows, q[k])

StreamTrue ==
  /\ EventsTrue(life, eventCh)
  /\ \A c \in Clients :
       /\ EventsTrue(life, chan[c])
       /\ sse[c] # "open" => chan[c] = <<>>
       /\ \A n \in Nodes : view[c][n] # "absent" => life[n] # "new"

Uncrossed(n) == life[n] = "deleted" /\ n \notin crossed
NoLateJoin ==
  \A n \in Nodes : Uncrossed(n) => ~Emitting(n, "node_joined")
RemovalFollows ==
  \A n \in Nodes :
    Uncrossed(n) => Emitting(n, "node_removed") \/ ~Listed(FALSE, eventCh, n)
PageLosesDeleted ==
  \A c \in Clients, n \in Nodes :
    sse[c] # "closed" /\ ~missed[c] /\ Uncrossed(n)
      => Emitting(n, "node_removed") \/ ~WillShow(c, n)
PageGetsRegistered ==
  \A c \in Clients, n \in Nodes :
    sse[c] # "closed" /\ ~missed[c] /\ Registered(n)
      => JoinPending(n) \/ WillShow(c, n)

-----------------------------------------------------------------------------
(* An event put at the end of a queue is applied last.                     *)
LEMMA ListedAppend ==
  ASSUME NEW q \in Seq(Event), NEW e \in Event, NEW n, NEW b \in BOOLEAN
  PROVE  Listed(b, Append(q, e), n) <=> ListedAfter(Listed(b, q, n), e, n)
<1>. DEFINE r == Append(q, e)
<1>1. /\ Len(r) = Len(q) + 1 /\ r[Len(q) + 1] = e /\ Len(q) \in Nat
      /\ \A i \in 1 .. Len(q) : r[i] = q[i]
  OBVIOUS
<1>. HIDE DEF r
<1>2. (\A k \in 1 .. Len(r) : ~Removes(r[k], n))
        <=> ~Removes(e, n) /\ \A k \in 1 .. Len(q) : ~Removes(q[k], n)
  <2>1. \A k \in 1 .. Len(r) : k \in 1 .. Len(q) \/ k = Len(q) + 1
    BY <1>1
  <2>2. 1 .. Len(q) \subseteq 1 .. Len(r) /\ Len(q) + 1 \in 1 .. Len(r)
    BY <1>1
  <2>. QED
    BY <1>1, <2>1, <2>2
<1>3. ASSUME NEW i \in 1 .. Len(q)
      PROVE  (\A k \in (i + 1) .. Len(r) : ~Removes(r[k], n))
               <=> ~Removes(e, n) /\ \A k \in (i + 1) .. Len(q) : ~Removes(q[k], n)
  <2>1. \A k \in (i + 1) .. Len(r) : k \in (i + 1) .. Len(q) \/ k = Len(q) + 1
    BY <1>1
  <2>2. /\ \A k \in (i + 1) .. Len(q) : k \in (i + 1) .. Len(r) /\ r[k] = q[k]
        /\ Len(q) + 1 \in (i + 1) .. Len(r)
    BY <1>1
  <2>. QED
    BY <1>1, <2>1, <2>2
<1>4. \A k \in (Len(q) + 2) .. Len(r) : FALSE
  BY <1>1
<1>5. Joins(e, n) => Listed(b, r, n)
  <2>1. Len(q) + 1 \in 1 .. Len(r) /\ (Len(q) + 1) + 1 = Len(q) + 2
    BY <1>1
  <2>. QED
    BY <1>1, <1>4, <2>1 DEF Listed
<1>6. Joins(e, n) => ~Removes(e, n)
  BY DEF Joins, Removes
<1>7. 1 .. Len(q) \subseteq 1 .. Len(r)
  BY <1>1
<1>8. Listed(b, q, n) /\ ~Removes(e, n) => Listed(b, r, n)
  BY <1>1, <1>2, <1>3, <1>7 DEF Listed
<1>9. Listed(b, r, n) /\ ~Joins(e, n) => Listed(b, q, n) /\ ~Removes(e, n)
  <2>1. \A i \in 1 .. Len(r) : i \in 1 .. Len(q) \/ i = Len(q) + 1
    BY <1>1
  <2>. QED
    BY <1>1, <1>2, <1>3, <2>1 DEF Listed
<1>. QED
  BY <1>5, <1>6, <1>8, <1>9 DEF ListedAfter, r

(* Applying the first event of a queue early changes nothing.              *)
LEMMA ListedHead ==
  ASSUME NEW q \in Seq(Event), q # <<>>, NEW n, NEW b \in BOOLEAN
  PROVE  Listed(b, q, n) <=> Listed(ListedAfter(b, Head(q), n), Tail(q), n)
<1>. DEFINE t == Tail(q)
            e == Head(q)
<1>1. /\ Len(q) \in Nat \ {0} /\ Len(t) = Len(q) - 1 /\ q[1] = e
      /\ \A i \in 1 .. Len(t) : t[i] = q[i + 1]
  OBVIOUS
<1>. HIDE DEF t, e
<1>2. \A i \in 1 .. Len(q) : i = 1 \/ (i - 1 \in 1 .. Len(t) /\ t[i - 1] = q[i])
  BY <1>1
<1>3. \A i \in 1 .. Len(t) : i + 1 \in 1 .. Len(q) /\ t[i] = q[i + 1]
  BY <1>1
<1>4. ASSUME NEW i \in 1 .. Len(q)
      PROVE  (\A k \in (i + 1) .. Len(q) : ~Removes(q[k], n))
               <=> \A k \in i .. Len(t) : ~Removes(t[k], n)
  <2>1. \A k \in (i + 1) .. Len(q) : k - 1 \in i .. Len(t) /\ t[k - 1] = q[k]
    BY <1>1
  <2>2. \A k \in i .. Len(t) : k + 1 \in (i + 1) .. Len(q) /\ t[k] = q[k + 1]
    BY <1>1
  <2>. QED
    BY <2>1, <2>2
<1>5. (\A k \in 1 .. Len(q) : ~Removes(q[k], n))
        <=> ~Removes(e, n) /\ \A k \in 1 .. Len(t) : ~Removes(t[k], n)
  <2>1. 1 \in 1 .. Len(q)
    BY <1>1
  <2>. QED
    BY <1>1, <1>2, <1>3, <2>1
<1>6. (\E i \in 1 .. Len(q) : /\ Joins(q[i], n)
                              /\ \A k \in (i + 1) .. Len(q) : ~Removes(q[k], n))
        <=> \/ Joins(e, n) /\ \A k \in 1 .. Len(t) : ~Removes(t[k], n)
            \/ \E i \in 1 .. Len(t) :
                 /\ Joins(t[i], n)
                 /\ \A k \in (i + 1) .. Len(t) : ~Removes(t[k], n)
  <2>1. 1 \in 1 .. Len(q)
    BY <1>1
  <2>2. \A i \in 1 .. Len(q) : (i - 1) + 1 = i
    BY <1>1
  <2>. QED
    BY <1>1, <1>2, <1>3, <1>4, <2>1, <2>2
<1>7. Joins(e, n) => ~Removes(e, n)
  BY DEF Joins, Removes
<1>. QED
  BY <1>5, <1>6, <1>7 DEF Listed, ListedAfter, t, e

-----------------------------------------------------------------------------
(* Every step of the composition is one of the controller, or leaves it.   *)
LEMMA SSEStepIsNext ==
  ASSUME [SSENext]_allVars
  PROVE  [Next]_vars
BY DEF SSENext, allVars, ControllerStep, ControllerRestarts, FanOut, ClientStep,
     ListSent, ChannelRegistered, EventDelivered, Disconnected, Next, vars

(* The stream only watches the controller (HandleFleetSSE, BroadcastEvents): *)
(* what every behaviour of FleetController satisfies holds with clients too. *)
THEOREM StreamObserves == SSESpec => Spec
<1>1. SSEInit => Init
  BY DEF SSEInit
<1>. QED
  BY <1>1, SSEStepIsNext, PTL DEF SSESpec, Spec

LEMMA AppliedType ==
  ASSUME NEW page \in [Nodes -> Shown], NEW e \in Event
  PROVE  /\ Applied(page, e) \in [Nodes -> Shown]
         /\ \A n \in Nodes : Applied(page, e)[n] # "absent"
                               <=> ListedAfter(page[n] # "absent", e, n)
<1>1. e.node \in Nodes /\ e.status \in Statuses
  BY DEF Event
<1>2. "absent" \notin Statuses
  BY DEF Statuses
<1>. QED
  BY <1>1, <1>2 DEF Applied, Shown, ListedAfter, Joins, Removes

LEMMA SSETypeStep ==
  ASSUME SSETypeOK, [SSENext]_allVars
  PROVE  SSETypeOK'
<1>. USE DEF SSETypeOK
<1>1. TypeOK'
  BY SSEStepIsNext, TypeStep
<1>2. CASE ControllerStep
  <2>1. \A c \in Clients : missed'[c] \in BOOLEAN
    BY <1>2 DEF ControllerStep
  <2>2. missed' \in [Clients -> BOOLEAN]
    BY <1>2, <2>1 DEF ControllerStep
  <2>. QED
    BY <1>1, <1>2, <2>2 DEF ControllerStep
<1>3. CASE ControllerRestarts
  BY <1>1, <1>3, CapAssumption DEF ControllerRestarts
<1>4. CASE FanOut
  <2>1. eventCh # <<>> /\ eventCh \in Seq(Event)
    BY <1>4 DEF FanOut, Broadcast, TypeOK
  <2>2. Head(eventCh) \in Event
    BY <2>1
  <2>3. \A c \in Clients : chan'[c] \in Seq(Event) /\ Len(chan'[c]) <= ChanCap
    BY <1>4, <2>2, CapAssumption DEF FanOut, Room
  <2>4. chan' \in [Clients -> Seq(Event)]
    BY <1>4, <2>3 DEF FanOut
  <2>5. missed' \in [Clients -> BOOLEAN]
    BY <1>4 DEF FanOut
  <2>. QED
    BY <1>1, <1>4, <2>3, <2>4, <2>5 DEF FanOut
<1>5. ASSUME NEW c \in Clients, ListSent(c)
      PROVE  SSETypeOK'
  <2>1. Listing \in [Nodes -> Shown]
    BY DEF Listing, Shown, TypeOK, StoreTypeOK
  <2>. DEFINE empty == \A n \in Nodes : ~Registered(n)
              page == IF empty THEN view[c] ELSE Listing
              b == empty /\ view[c] # Listing
  <2>2. view' = [view EXCEPT ![c] = page] /\ missed' = [missed EXCEPT ![c] = b]
    BY <1>5 DEF ListSent
  <2>3. page \in [Nodes -> Shown] /\ b \in BOOLEAN
    BY <2>1
  <2>. HIDE DEF page, b
  <2>. QED
    BY <1>1, <1>5, <2>2, <2>3 DEF ListSent
<1>6. ASSUME NEW c \in Clients, EventDelivered(c)
      PROVE  SSETypeOK'
  <2>1. /\ Head(chan[c]) \in Event /\ Tail(chan[c]) \in Seq(Event)
        /\ Len(Tail(chan[c])) <= ChanCap
    BY <1>6, CapAssumption DEF EventDelivered
  <2>2. Applied(view[c], Head(chan[c])) \in [Nodes -> Shown]
    BY <2>1, AppliedType
  <2>. QED
    BY <1>1, <1>6, <2>1, <2>2 DEF EventDelivered
<1>7. ASSUME NEW c \in Clients, ChannelRegistered(c) \/ Disconnected(c)
      PROVE  SSETypeOK'
  <2>1. CASE ChannelRegistered(c)
    BY <1>1, <2>1 DEF ChannelRegistered
  <2>2. CASE Disconnected(c)
    <3>1. <<>> \in Seq(Event) /\ Len(<<>>) <= ChanCap
      BY CapAssumption
    <3>2. /\ chan' \in [Clients -> Seq(Event)]
          /\ \A d \in Clients : Len(chan'[d]) <= ChanCap
      BY <2>2, <3>1 DEF Disconnected
    <3>. QED
      BY <1>1, <2>2, <3>2 DEF Disconnected
  <2>. QED
    BY <1>7, <2>1, <2>2
<1>8. CASE UNCHANGED allVars
  BY <1>1, <1>8 DEF allVars, sseVars
<1>. QED
  BY <1>2, <1>3, <1>4, <1>5, <1>6, <1>7, <1>8 DEF SSENext, ClientStep

LEMMA SSEInitType == SSEInit => SSETypeOK
<1>. SUFFICES ASSUME SSEInit
     PROVE  SSETypeOK
  OBVIOUS
<1>1. TypeOK
  BY InitType DEF SSEInit
<1>2. <<>> \in Seq(Event) /\ Len(<<>>) <= ChanCap
  BY CapAssumption
<1>3. chan \in [Clients -> Seq(Event)] /\ \A c \in Clients : Len(chan[c]) <= ChanCap
  BY <1>2 DEF SSEInit
<1>. QED
  BY <1>1, <1>3 DEF SSEInit, SSETypeOK, Shown

(* Types, of the controller, the queues and the pages.                     *)
THEOREM StreamTypes == SSESpec => []SSETypeOK
BY SSEInitType, SSETypeStep, PTL DEF SSESpec

-----------------------------------------------------------------------------
(* What the controller does to the membership of one node, and to the      *)
(* requests that announce it.                                              *)

(* The send of a handler.                                                  *)
LEMMA Emitted ==
  ASSUME TypeOK, Purposes, NEW h \in Handlers, EmitEvent(h)
  PROVE  /\ job[h] \in Request
         /\ eventCh' = IF Len(eventCh) < EventCap
                       THEN Append(eventCh, [type |-> job[h].type,
                                             node |-> job[h].node,
                                             status |-> job[h].seen])
                       ELSE eventCh
         /\ [type |-> job[h].type, node |-> job[h].node,
             status |-> job[h].seen] \in Event
<1>1. job[h] \in Request
  BY BusyType DEF EmitEvent, At
<1>. QED
  BY <1>1 DEF EmitEvent, Emit, Event, Request

(* What is queued of joins and removals was sent by a handler.             *)
LEMMA QueueGrows ==
  ASSUME TypeOK, Purposes, ControllerStep
  PROVE  \/ eventCh' = eventCh
         \/ \E e \in Event :
              /\ eventCh' = Append(eventCh, e)
              /\ e.type \in {"node_joined", "node_removed"}
                   => Emitting(e.node, e.type)
<1>1. ASSUME NEW h \in Handlers, EmitEvent(h), eventCh' # eventCh
      PROVE  \E e \in Event : /\ eventCh' = Append(eventCh, e)
                              /\ Emitting(e.node, e.type)
  <2>1. Emitting(job[h].node, job[h].type)
    BY <1>1 DEF EmitEvent, Emitting
  <2>. QED
    BY <1>1, <2>1, Emitted
<1>2. ASSUME NEW n \in Nodes, MonitorAnnounces(n), eventCh' # eventCh
      PROVE  \E e \in Event : /\ eventCh' = Append(eventCh, e)
                              /\ e.type \in {"node_offline", "node_degraded"}
  <2>1. ASSUME NEW type \in {"node_offline", "node_degraded"}, NEW s \in Statuses,
               Emit(type, n, s)
        PROVE  \E e \in Event : /\ eventCh' = Append(eventCh, e)
                                /\ e.type \in {"node_offline", "node_degraded"}
    <3>. DEFINE e == [type |-> type, node |-> n, status |-> s]
    <3>1. e \in Event /\ e.type = type
      BY DEF Event, EventTypes
    <3>2. eventCh' = Append(eventCh, e)
      BY <1>2, <2>1 DEF Emit
    <3>. QED
      BY <3>1, <3>2
  <2>. QED
    BY <1>2, <2>1 DEF MonitorAnnounces, Statuses
<1>3. ASSUME \A h \in Handlers : ~EmitEvent(h),
             \A n \in Nodes : ~MonitorAnnounces(n)
      PROVE  eventCh' = eventCh
  BY <1>3 DEF ControllerStep, Arrival, ReportArrives, HeartbeatArrives,
       NodeEnrolled, DeleteArrives, HandlerStep, ReportStored, CountsUpdated,
       ReportBeat, StatusFromReport, ReadBack, EvaluationStarts, ItemEvaluated,
       VerdictWritten, HeartbeatWritten, JoinedReadBack, NodeDeleted,
       ClientGone, UpdatePolicy, MonitorStep, MonitorSnapshot, MonitorWrites,
       Tick, controlVars
<1>. QED
  BY <1>1, <1>2, <1>3

(* A request moves by a step of its own goroutine only.                    *)
LEMMA OwnOrStill ==
  ASSUME TypeOK, ControllerStep, NEW h \in Handlers
  PROVE  \/ OwnStep(h)
         \/ job'[h].pc = job[h].pc /\ (Busy(h) => Alike(job'[h], job[h]))
<1>1. CASE \E g \in Handlers \ {h} : OwnStep(g)
  BY <1>1, OneGoroutine DEF Alike
<1>2. CASE \A g \in Handlers : ~OwnStep(g)
  BY <1>2, BackgroundSteps DEF ControllerStep, OwnStep
<1>. QED
  BY <1>1, <1>2

(* A row appears by HandleEnroll and goes by HandleDeleteNode.             *)
LEMMA LifeChanges ==
  ASSUME TypeOK, Purposes, ControllerStep, NEW n \in Nodes, life'[n] # life[n]
  PROVE  \/ \E h \in Handlers : NodeEnrolled(h, n)
         \/ \E h \in Handlers : NodeDeleted(h) /\ job[h].node = n /\ Registered(n)
<1>1. PICK h \in Handlers : OwnStep(h)
  BY BackgroundSteps DEF ControllerStep, OwnStep
<1>2. CASE Arrival(h)
  <2>1. PICK m \in Nodes : NodeEnrolled(h, m)
    BY <1>2 DEF Arrival, ReportArrives, HeartbeatArrives, DeleteArrives, storeVars
  <2>2. m = n
    BY <2>1 DEF NodeEnrolled, CreateNode, TypeOK, StoreTypeOK
  <2>. QED
    BY <2>1, <2>2
<1>3. CASE HandlerStep(h)
  <2>1. NodeDeleted(h)
    BY <1>3 DEF HandlerStep, CountsUpdated, ReportStored, ReportBeat,
       StatusFromReport, ReadBack, EmitEvent, EvaluationStarts, ItemEvaluated,
       VerdictWritten, HeartbeatWritten, JoinedReadBack, UpdateNodeHeartbeat,
       UpdateNodeStatus, UpdateNodeCompliance, UpdateNodeComplianceStatus,
       StoreReport, storeVars
  <2>2. job[h].node = n /\ Registered(n)
    BY <2>1 DEF NodeDeleted, DeleteNode, Updated, TypeOK, StoreTypeOK
  <2>. QED
    BY <2>1, <2>2
<1>4. CASE ClientGone(h)
  BY <1>4 DEF ClientGone, storeVars
<1>. QED
  BY <1>1, <1>2, <1>3, <1>4 DEF OwnStep

(* A new row comes with its join pending,                                  *)
LEMMA Enrolled ==
  ASSUME TypeOK, Purposes, ControllerStep, NEW n \in Nodes,
         Registered(n)', ~Registered(n)
  PROVE  JoinPending(n)' /\ eventCh' = eventCh
<1>1. PICK h \in Handlers : NodeEnrolled(h, n)
  BY LifeChanges DEF Registered
<1>2. job'[h] = NewRequest("joined", n, {}, "node_joined")
  BY <1>1, CapAssumption, StartEffect DEF NodeEnrolled
<1>. QED
  BY <1>1, <1>2 DEF NodeEnrolled, NewRequest, JoinPending, At

(* a row that goes with its removal to send.                               *)
LEMMA Removed ==
  ASSUME TypeOK, Purposes, ControllerStep, NEW n \in Nodes,
         life'[n] = "deleted", life[n] # "deleted"
  PROVE  Emitting(n, "node_removed")' /\ eventCh' = eventCh /\ Registered(n)
<1>1. CASE \E h \in Handlers : NodeEnrolled(h, n)
  BY <1>1 DEF NodeEnrolled, CreateNode, TypeOK, StoreTypeOK
<1>2. ASSUME NEW h \in Handlers, NodeDeleted(h), job[h].node = n, Registered(n)
      PROVE  Emitting(n, "node_removed")' /\ eventCh' = eventCh
  <2>1. job[h] \in Request /\ job[h].type = "node_removed"
    BY <1>2, BusyType DEF NodeDeleted, At, Purposes
  <2>2. job'[h].pc = "emit" /\ Alike(job'[h], job[h])
    BY <1>2, <2>1, GotoEffect, CapAssumption DEF NodeDeleted
  <2>. QED
    BY <1>2, <2>1, <2>2 DEF NodeDeleted, Emitting, At, Alike
<1>. QED
  BY <1>1, <1>2, LifeChanges

(* A request comes to send node_joined only by reading the row back.       *)
LEMMA JoinSends ==
  ASSUME TypeOK, Purposes, ControllerStep, NEW n \in Nodes,
         Emitting(n, "node_joined")'
  PROVE  Emitting(n, "node_joined") \/ (Registered(n) /\ life' = life)
<1>1. PICK h \in Handlers : /\ job'[h].pc = "emit" /\ job'[h].node = n
                            /\ job'[h].type = "node_joined"
  BY DEF Emitting, At
<1>2. CASE ~OwnStep(h)
  <2>1. job[h].pc = "emit" /\ Alike(job'[h], job[h])
    BY <1>1, <1>2, OwnOrStill DEF Busy
  <2>. QED
    BY <1>1, <2>1 DEF Emitting, At, Alike
<1>3. CASE OwnStep(h)
  <2>1. GoesOn(h, job'[h])
    BY <1>1, <1>3, Moves DEF Begins
  <2>2. job[h].node = n /\ job[h].type = "node_joined"
    BY <1>1, <2>1 DEF GoesOn, Alike
  <2>3. job[h].pc \in {"read", "joined", "delete"}
    BY <1>1, <2>1 DEF GoesOn, Flow
  <2>4. At(h, "joined")
    BY <2>2, <2>3 DEF Purposes, ReportPoints, At
  <2>5. ~ClientGone(h)
    BY <1>1, DoneEffect DEF ClientGone
  <2>6. JoinedReadBack(h)
    BY <1>3, <2>4, <2>5, OnlyStep
  <2>7. Registered(n)
    BY <1>1, <2>2, <2>6, DoneEffect DEF JoinedReadBack
  <2>. QED
    BY <2>6, <2>7 DEF JoinedReadBack, storeVars
<1>. QED
  BY <1>2, <1>3

(* ... and a pending node_joined stays so until it is sent or lost.        *)
LEMMA PendingJoin ==
  ASSUME TypeOK, Purposes, ControllerStep, NEW n \in Nodes, Registered(n)',
         JoinPending(n)
  PROVE  \/ JoinPending(n)'
         \/ \E h \in Handlers : /\ EmitEvent(h) /\ job[h].node = n
                                /\ job[h].type = "node_joined"
         \/ \E h \in Handlers : LosesMembershipEvent(h)
<1>1. PICK h \in Handlers :
        /\ job[h].node = n
        /\ At(h, "joined") \/ (At(h, "emit") /\ job[h].type = "node_joined")
  BY DEF JoinPending, Emitting
<1>2. job[h].type = "node_joined" /\ Busy(h) /\ job[h] \in Request
  BY <1>1, BusyType DEF Purposes, At, Busy
<1>3. CASE ~OwnStep(h)
  <2>1. job'[h].pc = job[h].pc /\ Alike(job'[h], job[h])
    BY <1>2, <1>3, OwnOrStill
  <2>. QED
    BY <1>1, <1>2, <2>1 DEF JoinPending, Emitting, At, Alike
<1>4. CASE OwnStep(h) /\ At(h, "emit")
  BY <1>1, <1>4, OnlyStep DEF ClientGone, At
<1>5. CASE ClientGone(h) /\ At(h, "joined")
  BY <1>5 DEF LosesMembershipEvent
<1>6. CASE OwnStep(h) /\ ~ClientGone(h) /\ At(h, "joined")
  <2>1. JoinedReadBack(h)
    BY <1>6, OnlyStep
  <2>. DEFINE r == [job[h] EXCEPT !.pc = "emit", !.seen = status[job[h].node]]
  <2>2. Registered(n)
    BY <2>1 DEF JoinedReadBack, storeVars, Registered
  <2>3. job' = [job EXCEPT ![h] = r]
    BY <1>1, <2>1, <2>2 DEF JoinedReadBack
  <2>4. r.pc = "emit" /\ r.node = n /\ r.type = "node_joined"
    BY <1>1, <1>2 DEF Request
  <2>. HIDE DEF r
  <2>5. job'[h] = r
    BY <2>3, StartEffect
  <2>. QED
    BY <2>4, <2>5 DEF JoinPending, Emitting, At
<1>. QED
  BY <1>1, <1>3, <1>4, <1>5, <1>6

LEMMA RemovalSends ==
  ASSUME TypeOK, Purposes, ControllerStep, NEW n \in Nodes,
         Emitting(n, "node_removed")
  PROVE  \/ Emitting(n, "node_removed")'
         \/ \E h \in Handlers : /\ EmitEvent(h) /\ job[h].node = n
                                /\ job[h].type = "node_removed"
<1>1. PICK h \in Handlers : /\ At(h, "emit") /\ job[h].node = n
                            /\ job[h].type = "node_removed"
  BY DEF Emitting
<1>2. CASE ~OwnStep(h)
  BY <1>1, <1>2, OwnOrStill DEF Emitting, At, Busy, Alike
<1>3. CASE OwnStep(h)
  BY <1>1, <1>3, OnlyStep DEF ClientGone
<1>. QED
  BY <1>2, <1>3

-----------------------------------------------------------------------------
(* The queues and pages tell of nothing that has not happened.             *)
LEMMA TrueStays ==
  ASSUME TypeOK, [SSENext]_allVars
  PROVE  /\ \A e \in Event : TrueOf(life, e) => TrueOf(life', e)
         /\ \A q \in Seq(Event) : EventsTrue(life, q) => EventsTrue(life', q)
<1>1. ASSUME NEW e \in Event, TrueOf(life, e)
      PROVE  TrueOf(life', e)
  BY <1>1, SSEStepIsNext, LifeGoesOn DEF Event, TrueOf
<1>2. ASSUME NEW q \in Seq(Event), EventsTrue(life, q)
      PROVE  EventsTrue(life', q)
  <2>1. \A k \in 1 .. Len(q) : q[k] \in Event
    OBVIOUS
  <2>. QED
    BY <1>1, <1>2, <2>1 DEF EventsTrue
<1>. QED
  BY <1>1, <1>2

LEMMA TrueQueues ==
  ASSUME NEW rows, NEW q \in Seq(Event), EventsTrue(rows, q)
  PROVE  /\ \A e \in Event : TrueOf(rows, e) => EventsTrue(rows, Append(q, e))
         /\ q # <<>> => TrueOf(rows, Head(q)) /\ EventsTrue(rows, Tail(q))
<1>1. ASSUME NEW e \in Event, TrueOf(rows, e)
      PROVE  EventsTrue(rows, Append(q, e))
  <2>1. \A k \in 1 .. Len(Append(q, e)) :
          \/ k \in 1 .. Len(q) /\ Append(q, e)[k] = q[k]
          \/ Append(q, e)[k] = e
    OBVIOUS
  <2>. QED
    BY <1>1, <2>1 DEF EventsTrue
<1>2. CASE q # <<>>
  <2>1. /\ 1 \in 1 .. Len(q) /\ Head(q) = q[1]
        /\ \A k \in 1 .. Len(Tail(q)) : k + 1 \in 1 .. Len(q) /\ Tail(q)[k] = q[k + 1]
    BY <1>2
  <2>. QED
    BY <2>1 DEF EventsTrue
<1>. QED
  BY <1>1, <1>2

(* Every step keeps queues and pages to what has happened.                 *)
LEMMA StreamTrueStep ==
  ASSUME SSETypeOK, Purposes, StreamTrue, [SSENext]_allVars
  PROVE  StreamTrue'
<1>. USE DEF SSETypeOK
<1>1. TypeOK /\ eventCh \in Seq(Event) /\ \A c \in Clients : chan[c] \in Seq(Event)
  BY DEF TypeOK
<1>2. EventsTrue(life', eventCh)
  BY <1>1, TrueStays DEF StreamTrue
<1>3. \A c \in Clients : EventsTrue(life', chan[c])
  BY <1>1, TrueStays DEF StreamTrue
<1>4. \A c \in Clients, n \in Nodes : view[c][n] # "absent" => life'[n] # "new"
  BY <1>1, SSEStepIsNext, LifeGoesOn DEF StreamTrue
<1>5. EventsTrue(life', <<>>)
  BY DEF EventsTrue
<1>6. CASE ControllerStep
  <2>1. EventsTrue(life', eventCh')
    <3>1. ASSUME NEW e \in Event, eventCh' = Append(eventCh, e),
                 e.type \in {"node_joined", "node_removed"} => Emitting(e.node, e.type)
          PROVE  TrueOf(life', e)
      <4>1. TrueOf(life, e)
        BY <3>1 DEF Emitting, Purposes, Busy, At, TrueOf
      <4>. QED
        BY <1>1, <4>1, TrueStays
    <3>. QED
      BY <1>1, <1>2, <1>6, <3>1, QueueGrows, TrueQueues
  <2>. QED
    BY <1>3, <1>4, <1>6, <2>1 DEF ControllerStep, StreamTrue
<1>7. CASE ControllerRestarts
  BY <1>4, <1>5, <1>7 DEF ControllerRestarts, Restart, StreamTrue
<1>8. CASE FanOut
  <2>1. TrueOf(life', Head(eventCh)) /\ EventsTrue(life', Tail(eventCh))
    BY <1>1, <1>2, <1>8, TrueQueues DEF FanOut, Broadcast
  <2>2. Head(eventCh) \in Event
    BY <1>1, <1>8 DEF FanOut, Broadcast
  <2>3. \A c \in Clients : EventsTrue(life', chan'[c])
    BY <1>1, <1>3, <1>8, <2>1, <2>2, TrueQueues DEF FanOut
  <2>. QED
    BY <1>4, <1>8, <2>1, <2>3 DEF FanOut, Broadcast, Room, StreamTrue
<1>9. ASSUME NEW c \in Clients, ListSent(c)
      PROVE  StreamTrue'
  <2>1. \A n \in Nodes : view'[c][n] # "absent" => life'[n] # "new"
    BY <1>4, <1>9 DEF ListSent, vars, storeVars, Listing, Registered
  <2>2. \A d \in Clients \ {c} : view'[d] = view[d] /\ sse'[d] = sse[d]
    BY <1>9 DEF ListSent
  <2>3. chan' = chan /\ sse[c] # "open" /\ eventCh' = eventCh
    BY <1>9 DEF ListSent, vars, controlVars
  <2>. QED
    BY <1>2, <1>3, <1>4, <2>1, <2>2, <2>3 DEF StreamTrue
<1>10. ASSUME NEW c \in Clients, EventDelivered(c)
       PROVE  StreamTrue'
  <2>. DEFINE e == Head(chan[c])
  <2>1. TrueOf(life', e) /\ EventsTrue(life', Tail(chan[c])) /\ e \in Event
    BY <1>1, <1>3, <1>10, TrueQueues DEF EventDelivered
  <2>2. view'[c] = Applied(view[c], e)
    BY <1>10 DEF EventDelivered
  <2>. HIDE DEF e
  <2>3. \A n \in Nodes : view'[c][n] # "absent" => life'[n] # "new"
    BY <1>4, <2>1, <2>2, AppliedType DEF ListedAfter, Joins, TrueOf
  <2>4. \A d \in Clients \ {c} : view'[d] = view[d] /\ chan'[d] = chan[d]
    BY <1>10 DEF EventDelivered
  <2>5. chan'[c] = Tail(chan[c]) /\ sse[c] = "open" /\ sse' = sse /\ eventCh' = eventCh
    BY <1>10 DEF EventDelivered, vars, controlVars
  <2>. QED
    BY <1>2, <1>3, <1>4, <2>1, <2>3, <2>4, <2>5 DEF StreamTrue
<1>11. ASSUME NEW c \in Clients, ChannelRegistered(c) \/ Disconnected(c)
       PROVE  StreamTrue'
  BY <1>2, <1>3, <1>4, <1>5, <1>11
     DEF ChannelRegistered, Disconnected, vars, controlVars, StreamTrue
<1>12. CASE UNCHANGED allVars
  BY <1>2, <1>3, <1>4, <1>12 DEF allVars, sseVars, vars, controlVars, StreamTrue
<1>. QED
  BY <1>6, <1>7, <1>8, <1>9, <1>10, <1>11, <1>12 DEF SSENext, ClientStep

-----------------------------------------------------------------------------
(* How far the news of one node's membership has come.                     *)
LEMMA ListedEasily ==
  ASSUME NEW q \in Seq(Event), NEW n
  PROVE  /\ \A b \in BOOLEAN : Listed(FALSE, q, n) => Listed(b, q, n)
         /\ \A b \in BOOLEAN : Listed(b, <<>>, n) <=> b
         /\ (\A k \in 1 .. Len(q) : q[k].node # n) => ~Listed(FALSE, q, n)
         /\ (\A k \in 1 .. Len(q) : ~Removes(q[k], n)) => Listed(TRUE, q, n)
BY DEF Listed, Joins

(* No join is sent after the removal but of a node in crossed.             *)
LEMMA NoLateJoinStep ==
  ASSUME TypeOK, Purposes, NoLateJoin, [SSENext]_allVars
  PROVE  NoLateJoin'
<1>. SUFFICES ASSUME NEW n \in Nodes, life'[n] = "deleted", n \notin crossed',
                     Emitting(n, "node_joined")'
     PROVE  FALSE
  BY DEF NoLateJoin, Uncrossed
<1>1. CASE ControllerStep
  <2>1. n \notin crossed /\ ~JoinCrossesRemoval(n)
    BY <1>1 DEF ControllerStep
  <2>2. Emitting(n, "node_joined")
    BY <1>1, JoinSends DEF Registered
  <2>3. life[n] # "new"
    BY <2>2 DEF Emitting, Purposes, At, Busy
  <2>4. ~Registered(n)
    BY <2>1, <2>2 DEF Emitting, JoinCrossesRemoval
  <2>. QED
    BY <2>1, <2>2, <2>3, <2>4 DEF Registered, NoLateJoin, Uncrossed, TypeOK, StoreTypeOK
<1>2. CASE ControllerRestarts
  BY <1>2 DEF ControllerRestarts, Restart, Idle, Emitting, At
<1>3. CASE UNCHANGED <<job, life, crossed>>
  BY <1>3 DEF NoLateJoin, Uncrossed, Emitting, At
<1>4. [SSENext]_allVars => ControllerStep \/ ControllerRestarts \/ UNCHANGED <<job, life, crossed>>
  BY DEF SSENext, allVars, sseVars, vars, controlVars, storeVars, FanOut,
     Broadcast, ClientStep, ListSent, ChannelRegistered, EventDelivered, Disconnected
<1>. QED
  BY <1>1, <1>2, <1>3, <1>4

(* A page that shows n, or not (b), comes to drop a deleted n ...          *)
LEMMA GoneStep ==
  ASSUME TypeOK, Purposes, NoLateJoin, ControllerStep,
         NEW n \in Nodes, life'[n] = "deleted", n \notin crossed',
         NEW b \in BOOLEAN,
         life[n] = "deleted" =>
           Emitting(n, "node_removed") \/ ~Listed(b, eventCh, n),
         b => ~\E h \in Handlers : LosesMembershipEvent(h)
  PROVE  Emitting(n, "node_removed")' \/ ~Listed(b, eventCh', n)
<1>. DEFINE q == eventCh
<1>1. q \in Seq(Event) /\ Len(q) <= EventCap /\ EventCap \in Nat
  BY InputAssumption DEF TypeOK
<1>2. CASE life[n] # "deleted"
  BY <1>2, Removed
<1>3. CASE life[n] = "deleted" /\ Emitting(n, "node_removed")
  <2>1. SUFFICES ASSUME NEW h \in Handlers, EmitEvent(h), job[h].node = n,
                        job[h].type = "node_removed"
        PROVE  ~Listed(b, eventCh', n)
    BY <1>3, RemovalSends
  <2>. DEFINE e == [type |-> job[h].type, node |-> job[h].node,
                    status |-> job[h].seen]
  <2>2. e \in Event /\ Removes(e, n) /\ ~Joins(e, n)
    BY <2>1, Emitted DEF Removes, Joins
  <2>3. eventCh' = IF Len(q) < EventCap THEN Append(q, e) ELSE q
    BY <2>1, Emitted
  <2>. HIDE DEF e, q
  <2>4. CASE Len(q) < EventCap
    BY <1>1, <2>2, <2>3, <2>4, ListedAppend DEF ListedAfter
  <2>5. CASE ~(Len(q) < EventCap)
    <3>1. LosesMembershipEvent(h)
      BY <1>1, <2>1, <2>5 DEF LosesMembershipEvent, q
    <3>2. ~JoinCrossesRemoval(n)
      BY DEF ControllerStep
    <3>3. \A k \in 1 .. Len(q) : q[k].node # n
      BY <2>1, <3>1, <3>2 DEF JoinCrossesRemoval, q
    <3>4. ~Listed(FALSE, q, n) /\ b = FALSE
      BY <1>1, <3>1, <3>3, ListedEasily
    <3>. QED
      BY <2>3, <2>5, <3>4
  <2>. QED
    BY <2>4, <2>5
<1>4. CASE /\ life[n] = "deleted" /\ ~Emitting(n, "node_removed")
           /\ ~Listed(b, q, n)
  <2>1. n \notin crossed
    BY DEF ControllerStep
  <2>2. ~Emitting(n, "node_joined")
    BY <1>4, <2>1 DEF NoLateJoin, Uncrossed
  <2>3. ASSUME NEW e \in Event, eventCh' = Append(q, e),
               e.type \in {"node_joined", "node_removed"} => Emitting(e.node, e.type)
        PROVE  ~Listed(b, eventCh', n)
    <3>1. ~Joins(e, n) /\ ~Removes(e, n)
      BY <1>4, <2>2, <2>3 DEF Joins, Removes
    <3>. QED
      BY <1>1, <1>4, <2>3, <3>1, ListedAppend DEF ListedAfter
  <2>. QED
    BY <1>4, <2>3, QueueGrows
<1>. QED
  BY <1>2, <1>3, <1>4

(* ... and to show a registered one.                                       *)
LEMMA PresentStep ==
  ASSUME TypeOK, Purposes, ControllerStep, NEW n \in Nodes, Registered(n)',
         NEW b \in BOOLEAN,
         Registered(n) => JoinPending(n) \/ Listed(b, eventCh, n),
         ~\E h \in Handlers : LosesMembershipEvent(h)
  PROVE  JoinPending(n)' \/ Listed(b, eventCh', n)
<1>. DEFINE q == eventCh
<1>1. q \in Seq(Event) /\ Len(q) <= EventCap /\ EventCap \in Nat
  BY InputAssumption DEF TypeOK
<1>2. CASE ~Registered(n)
  BY <1>2, Enrolled
<1>3. CASE JoinPending(n)
  <2>1. SUFFICES ASSUME NEW h \in Handlers, EmitEvent(h), job[h].node = n,
                        job[h].type = "node_joined"
        PROVE  Listed(b, eventCh', n)
    BY <1>3, PendingJoin
  <2>. DEFINE e == [type |-> job[h].type, node |-> job[h].node,
                    status |-> job[h].seen]
  <2>2. e \in Event /\ Joins(e, n)
    BY <2>1, Emitted DEF Joins
  <2>3. eventCh' = IF Len(q) < EventCap THEN Append(q, e) ELSE q
    BY <2>1, Emitted
  <2>4. Len(q) < EventCap
    BY <1>1, <2>1 DEF LosesMembershipEvent
  <2>. HIDE DEF e, q
  <2>. QED
    BY <1>1, <2>2, <2>3, <2>4, ListedAppend DEF ListedAfter
<1>4. CASE Registered(n) /\ Listed(b, q, n)
  <2>1. ASSUME NEW e \in Event, eventCh' = Append(q, e),
               e.type \in {"node_joined", "node_removed"} => Emitting(e.node, e.type)
        PROVE  Listed(b, eventCh', n)
    <3>1. ~Removes(e, n)
      <4>1. ASSUME Emitting(n, "node_removed") PROVE FALSE
        BY <1>4, <4>1 DEF Emitting, Purposes, Registered
      <4>. QED
        BY <2>1, <4>1 DEF Removes
    <3>. QED
      BY <1>1, <1>4, <2>1, <3>1, ListedAppend DEF ListedAfter
  <2>. QED
    BY <1>4, <2>1, QueueGrows
<1>. QED
  BY <1>2, <1>3, <1>4

(* The event channel ends with the removal of a deleted node.              *)
LEMMA RemovalFollowsStep ==
  ASSUME TypeOK, Purposes, NoLateJoin, RemovalFollows, [SSENext]_allVars
  PROVE  RemovalFollows'
<1>. SUFFICES ASSUME NEW n \in Nodes, life'[n] = "deleted", n \notin crossed'
     PROVE  Emitting(n, "node_removed")' \/ ~Listed(FALSE, eventCh', n)
  BY DEF RemovalFollows, Uncrossed
<1>0. eventCh \in Seq(Event)
  BY DEF TypeOK
<1>1. CASE ControllerStep
  <2>1. n \notin crossed
    BY <1>1 DEF ControllerStep
  <2>. QED
    BY <1>1, <2>1, GoneStep DEF RemovalFollows, Uncrossed
<1>2. CASE ControllerRestarts
  BY <1>0, <1>2, ListedEasily DEF ControllerRestarts, Restart
<1>3. CASE UNCHANGED <<job, life, crossed, eventCh>>
  BY <1>3 DEF RemovalFollows, Uncrossed, Emitting, At
<1>4. CASE FanOut
  <2>1. /\ Emitting(n, "node_removed") \/ ~Listed(FALSE, eventCh, n)
        /\ Emitting(n, "node_removed")' <=> Emitting(n, "node_removed")
    BY <1>4 DEF FanOut, Broadcast, storeVars, RemovalFollows, Uncrossed, Emitting, At
  <2>2. eventCh # <<>> /\ eventCh' = Tail(eventCh) /\ eventCh' \in Seq(Event)
    BY <1>0, <1>4 DEF FanOut, Broadcast
  <2>. QED
    BY <1>0, <2>1, <2>2, ListedHead, ListedEasily DEF ListedAfter
<1>5. [SSENext]_allVars => \/ ControllerStep \/ ControllerRestarts \/ FanOut
                           \/ UNCHANGED <<job, life, crossed, eventCh>>
  BY DEF SSENext, allVars, sseVars, vars, controlVars, storeVars,
     ClientStep, ListSent, ChannelRegistered, EventDelivered, Disconnected
<1>. QED
  BY <1>1, <1>2, <1>3, <1>4, <1>5

-----------------------------------------------------------------------------
(* What a page will show, as events are queued, moved on and applied.      *)
LEMMA FannedOut ==
  ASSUME SSETypeOK, FanOut, NEW c \in Clients, NEW n \in Nodes,
         sse[c] # "closed", ~missed'[c]
  PROVE  WillShow(c, n)' <=> WillShow(c, n)
<1>. DEFINE e == Head(eventCh)
            b == view[c][n] # "absent"
<1>1. eventCh # <<>> /\ eventCh \in Seq(Event) /\ chan[c] \in Seq(Event)
  BY DEF SSETypeOK, TypeOK, FanOut, Broadcast
<1>2. e \in Event /\ eventCh' = Tail(eventCh) /\ view' = view
  BY <1>1 DEF FanOut, Broadcast
<1>3. chan'[c] = Append(chan[c], e)
  BY DEF FanOut
<1>4. OnPage(c, n)' <=> ListedAfter(OnPage(c, n), e, n)
  <2>1. OnPage(c, n)' <=> Listed(b, Append(chan[c], e), n)
    BY <1>2, <1>3 DEF OnPage
  <2>. HIDE DEF e, b
  <2>2. Listed(b, Append(chan[c], e), n) <=> ListedAfter(Listed(b, chan[c], n), e, n)
    BY <1>1, <1>2, ListedAppend DEF b
  <2>. QED
    BY <2>1, <2>2 DEF OnPage, b
<1>5. WillShow(c, n) <=> Listed(ListedAfter(OnPage(c, n), e, n), Tail(eventCh), n)
  BY <1>1, ListedHead DEF WillShow, OnPage, Listed
<1>6. WillShow(c, n)' <=> Listed(OnPage(c, n)', eventCh', n)
  BY DEF WillShow
<1>7. ListedAfter(OnPage(c, n), e, n) \in BOOLEAN /\ OnPage(c, n)' \in BOOLEAN
  BY DEF ListedAfter, OnPage, Listed, Joins
<1>. HIDE DEF e
<1>8. OnPage(c, n)' = ListedAfter(OnPage(c, n), e, n)
  BY <1>4, <1>7
<1>. QED
  BY <1>2, <1>5, <1>6, <1>8

(* An event applied by a page was about to be.                             *)
LEMMA Delivered ==
  ASSUME SSETypeOK, NEW c \in Clients, EventDelivered(c),
         NEW d \in Clients, NEW n \in Nodes
  PROVE  WillShow(d, n)' <=> WillShow(d, n)
<1>0. eventCh' = eventCh
  BY DEF EventDelivered, vars, controlVars
<1>1. CASE d # c
  <2>1. view'[d] = view[d] /\ chan'[d] = chan[d]
    BY <1>1 DEF EventDelivered, SSETypeOK
  <2>. QED
    BY <1>0, <2>1 DEF WillShow, OnPage
<1>2. CASE d = c
  <2>. DEFINE e == Head(chan[c])
              b == view[c][n] # "absent"
              after == view'[c][n] # "absent"
  <2>1. chan[c] # <<>> /\ chan[c] \in Seq(Event) /\ chan'[c] = Tail(chan[c])
    BY DEF EventDelivered, SSETypeOK
  <2>2. e \in Event
    BY <2>1
  <2>3. view'[c] = Applied(view[c], e)
    BY DEF EventDelivered, SSETypeOK
  <2>. HIDE DEF e
  <2>4. after <=> ListedAfter(b, e, n)
    <3>1. view[c] \in [Nodes -> Shown]
      BY DEF SSETypeOK
    <3>2. Applied(view[c], e)[n] # "absent" <=> ListedAfter(view[c][n] # "absent", e, n)
      BY <2>2, <3>1, AppliedType
    <3>. QED
      BY <2>3, <3>2
  <2>5. Listed(b, chan[c], n) <=> Listed(ListedAfter(b, e, n), Tail(chan[c]), n)
    BY <2>1, ListedHead DEF e
  <2>6. ListedAfter(b, e, n) \in BOOLEAN /\ after \in BOOLEAN
    BY DEF ListedAfter, Joins
  <2>7. OnPage(c, n)' <=> OnPage(c, n)
    <3>1. after = ListedAfter(b, e, n)
      BY <2>4, <2>6
    <3>2. OnPage(c, n)' <=> Listed(after, Tail(chan[c]), n)
      BY <2>1 DEF OnPage
    <3>. QED
      BY <2>5, <3>1, <3>2 DEF OnPage
  <2>8. OnPage(c, n)' = OnPage(c, n)
    BY <2>7 DEF OnPage, Listed
  <2>. QED
    BY <1>0, <1>2, <2>8 DEF WillShow
<1>. QED
  BY <1>1, <1>2

(* The list sent to a new connection is the registry.                      *)
LEMMA Relisted ==
  ASSUME SSETypeOK, StreamTrue, NEW c \in Clients, ListSent(c), ~missed'[c],
         NEW n \in Nodes
  PROVE  WillShow(c, n)' <=> Listed(Registered(n), eventCh, n)
<1>1. chan'[c] = <<>> /\ eventCh' = eventCh
  BY DEF ListSent, StreamTrue, vars, controlVars
<1>2. view'[c] = Listing
  BY DEF ListSent, SSETypeOK
<1>3. view'[c][n] # "absent" <=> Registered(n)
  BY <1>2 DEF Listing, SSETypeOK, TypeOK, StoreTypeOK, Statuses
<1>4. OnPage(c, n)' <=> Registered(n)
  <2>1. OnPage(c, n)' <=> Listed(view'[c][n] # "absent", <<>>, n)
    BY <1>1 DEF OnPage
  <2>. QED
    BY <1>3, <2>1 DEF Listed
<1>5. OnPage(c, n)' = Registered(n)
  BY <1>4 DEF OnPage, Listed, Registered
<1>. QED
  BY <1>1, <1>5 DEF WillShow

(* A step of one client leaves the pages of the others.                    *)
LEMMA OtherPages ==
  ASSUME SSETypeOK, StreamTrue, NEW c \in Clients, ClientStep(c),
         NEW d \in Clients, NEW n \in Nodes,
         d # c \/ ChannelRegistered(c), sse'[d] # "closed", ~missed'[d]
  PROVE  /\ sse[d] # "closed" /\ ~missed[d]
         /\ WillShow(d, n)' <=> WillShow(d, n)
<1>1. sse[d] # "closed" /\ ~missed[d]
  BY DEF ClientStep, ListSent, ChannelRegistered, EventDelivered, Disconnected,
     SSETypeOK
<1>2. view'[d] = view[d] /\ chan'[d] = chan[d] /\ eventCh' = eventCh
  BY DEF ClientStep, ListSent, ChannelRegistered, EventDelivered, Disconnected,
     SSETypeOK, vars, controlVars
<1>. QED
  BY <1>1, <1>2 DEF WillShow, OnPage

(* One page, one node, one step.                                           *)
LEMMA PagesStep ==
  ASSUME SSETypeOK, Purposes, StreamTrue, NoLateJoin, RemovalFollows,
         PageLosesDeleted, PageGetsRegistered, [SSENext]_allVars
  PROVE  PageLosesDeleted' /\ PageGetsRegistered'
<1>. SUFFICES ASSUME NEW c \in Clients, NEW n \in Nodes,
                     sse'[c] # "closed", ~missed'[c]
     PROVE  /\ Uncrossed(n)' => Emitting(n, "node_removed")' \/ ~WillShow(c, n)'
            /\ Registered(n)' => JoinPending(n)' \/ WillShow(c, n)'
  BY DEF PageLosesDeleted, PageGetsRegistered
<1>0. TypeOK /\ eventCh \in Seq(Event)
  BY DEF SSETypeOK, TypeOK
<1>1. CASE ControllerStep
  <2>. DEFINE b == OnPage(c, n)
  <2>1. /\ sse[c] # "closed" /\ ~missed[c]
        /\ ~\E h \in Handlers : LosesMembershipEvent(h)
        /\ view' = view /\ chan' = chan /\ crossed \subseteq crossed'
    BY <1>1 DEF ControllerStep
  <2>2. b \in BOOLEAN
    BY DEF OnPage, Listed
  <2>3. WillShow(c, n) <=> Listed(b, eventCh, n)
    BY DEF WillShow
  <2>4. WillShow(c, n)' <=> Listed(b, eventCh', n)
    BY <2>1 DEF WillShow, OnPage
  <2>. HIDE DEF b
  <2>5. ASSUME Uncrossed(n)'
        PROVE  Emitting(n, "node_removed")' \/ ~WillShow(c, n)'
    <3>1. life'[n] = "deleted" /\ n \notin crossed' /\ n \notin crossed
      BY <2>1, <2>5 DEF Uncrossed
    <3>2. life[n] = "deleted" =>
            Emitting(n, "node_removed") \/ ~Listed(b, eventCh, n)
      BY <2>1, <2>3, <3>1 DEF PageLosesDeleted, Uncrossed
    <3>. QED
      BY <1>0, <1>1, <2>1, <2>2, <2>4, <3>1, <3>2, GoneStep
  <2>6. ASSUME Registered(n)'
        PROVE  JoinPending(n)' \/ WillShow(c, n)'
    <3>1. Registered(n) => JoinPending(n) \/ Listed(b, eventCh, n)
      BY <2>1, <2>3 DEF PageGetsRegistered
    <3>. QED
      BY <1>0, <1>1, <2>1, <2>2, <2>4, <2>6, <3>1, PresentStep
  <2>. QED
    BY <2>5, <2>6
<1>2. CASE ControllerRestarts
  BY <1>2 DEF ControllerRestarts
<1>3. ASSUME UNCHANGED <<job, life, crossed>>, sse[c] # "closed", ~missed[c],
             WillShow(c, n)' <=> WillShow(c, n)
      PROVE  /\ Uncrossed(n)' => Emitting(n, "node_removed")' \/ ~WillShow(c, n)'
             /\ Registered(n)' => JoinPending(n)' \/ WillShow(c, n)'
  <2>1. /\ Uncrossed(n)' => Uncrossed(n)
        /\ Registered(n)' => Registered(n)
        /\ Emitting(n, "node_removed") => Emitting(n, "node_removed")'
        /\ JoinPending(n) => JoinPending(n)'
    BY <1>3 DEF Uncrossed, Registered, Emitting, JoinPending, At
  <2>. QED
    BY <1>3, <2>1 DEF PageLosesDeleted, PageGetsRegistered
<1>4. CASE FanOut
  BY <1>3, <1>4, FannedOut DEF FanOut, Broadcast, storeVars
<1>5. ASSUME NEW d \in Clients, ClientStep(d)
      PROVE  UNCHANGED <<job, life, crossed, eventCh>>
  BY <1>5 DEF ClientStep, ListSent, ChannelRegistered, EventDelivered,
     Disconnected, vars, controlVars, storeVars
<1>6. CASE ListSent(c)
  <2>1. WillShow(c, n)' <=> Listed(Registered(n), eventCh, n)
    BY <1>6, Relisted
  <2>2. ASSUME Uncrossed(n)'
        PROVE  Emitting(n, "node_removed")' \/ ~WillShow(c, n)'
    <3>1. Uncrossed(n) /\ Registered(n) = FALSE
      BY <1>5, <1>6, <2>2 DEF ClientStep, Uncrossed, Registered
    <3>2. Emitting(n, "node_removed") => Emitting(n, "node_removed")'
      BY <1>5, <1>6 DEF ClientStep, Emitting, At
    <3>. QED
      BY <2>1, <3>1, <3>2 DEF RemovalFollows
  <2>3. ASSUME Registered(n)'
        PROVE  WillShow(c, n)'
    <3>1. Registered(n) = TRUE
      BY <1>5, <1>6, <2>3 DEF ClientStep, Registered
    <3>2. \A k \in 1 .. Len(eventCh) : ~Removes(eventCh[k], n)
      BY <3>1 DEF StreamTrue, EventsTrue, TrueOf, Removes, Registered
    <3>. QED
      BY <1>0, <2>1, <3>1, <3>2, ListedEasily
  <2>. QED
    BY <2>2, <2>3
<1>7. ASSUME NEW d \in Clients, EventDelivered(d)
      PROVE  sse[c] # "closed" /\ ~missed[c]
  BY <1>7 DEF EventDelivered
<1>8. ASSUME NEW d \in Clients, ClientStep(d), ~ListSent(c)
      PROVE  /\ Uncrossed(n)' => Emitting(n, "node_removed")' \/ ~WillShow(c, n)'
             /\ Registered(n)' => JoinPending(n)' \/ WillShow(c, n)'
  <2>1. CASE EventDelivered(d)
    BY <1>3, <1>5, <1>7, <1>8, <2>1, Delivered
  <2>2. CASE d # c \/ ChannelRegistered(d)
    BY <1>3, <1>5, <1>8, <2>2, OtherPages
  <2>3. CASE d = c /\ Disconnected(d)
    BY <2>3 DEF Disconnected, SSETypeOK
  <2>. QED
    BY <1>8, <2>1, <2>2, <2>3 DEF ClientStep
<1>9. CASE UNCHANGED allVars
  <2>1. WillShow(c, n)' <=> WillShow(c, n)
    BY <1>9 DEF allVars, sseVars, vars, controlVars, WillShow, OnPage
  <2>. QED
    BY <1>3, <1>9, <2>1 DEF allVars, sseVars, vars, controlVars, storeVars
<1>. QED
  BY <1>1, <1>2, <1>4, <1>6, <1>8, <1>9 DEF SSENext

(* The composition's inductive invariant.                                  *)
StreamInv ==
  /\ SSETypeOK
  /\ Purposes
  /\ StreamTrue
  /\ NoLateJoin
  /\ RemovalFollows
  /\ PageLosesDeleted
  /\ PageGetsRegistered

LEMMA InitStream == SSEInit => StreamInv
<1>. SUFFICES ASSUME SSEInit
     PROVE  StreamInv
  OBVIOUS
<1>1. SSETypeOK
  BY SSEInitType
<1>2. Purposes /\ Init
  BY InitCounts DEF CountsInv, SSEInit
<1>3. StreamTrue
  BY <1>2 DEF Init, SSEInit, StreamTrue, EventsTrue
<1>4. \A n \in Nodes : life[n] = "new"
  BY <1>2 DEF Init, StoreInit
<1>. QED
  BY <1>1, <1>2, <1>3, <1>4 DEF StreamInv, NoLateJoin, RemovalFollows,
     PageLosesDeleted, PageGetsRegistered, Uncrossed, Registered

LEMMA StreamStep == StreamInv /\ [SSENext]_allVars => StreamInv'
<1>. SUFFICES ASSUME StreamInv, [SSENext]_allVars
     PROVE  StreamInv'
  OBVIOUS
<1>1. TypeOK
  BY DEF StreamInv, SSETypeOK
<1>2. SSETypeOK'
  BY SSETypeStep DEF StreamInv
<1>3. Purposes'
  BY <1>1, SSEStepIsNext, PurposesStep DEF StreamInv
<1>4. StreamTrue'
  BY StreamTrueStep DEF StreamInv
<1>5. NoLateJoin' /\ RemovalFollows'
  BY <1>1, NoLateJoinStep, RemovalFollowsStep DEF StreamInv
<1>6. PageLosesDeleted' /\ PageGetsRegistered'
  BY PagesStep DEF StreamInv
<1>. QED
  BY <1>2, <1>3, <1>4, <1>5, <1>6 DEF StreamInv

(* Where the news of a join or a removal is on its way to a page           *)
(* (HandleEnroll, HandleDeleteNode, BroadcastEvents, HandleFleetSSE).      *)
THEOREM StreamInvariant == SSESpec => []StreamInv
BY InitStream, StreamStep, PTL DEF SSESpec

(* With the stream caught up and no membership event lost on the way, the  *)
(* page lists the registered nodes and no others, but for those whose join *)
(* was sent after their removal: however lists, channels, lost events,     *)
(* hang-ups, reconnections and restarts interleave (HandleFleetSSE,        *)
(* BroadcastEvents, useFleetSSE.ts).                                       *)
THEOREM PagesMatch == SSESpec => []PageMatchesRegistry
<1>1. ASSUME StreamInv, NEW c \in Clients, Quiet(c), ~missed[c],
             NEW n \in Nodes, n \notin crossed
      PROVE  view[c][n] # "absent" <=> Registered(n)
  <2>1. WillShow(c, n) <=> view[c][n] # "absent"
    BY <1>1, ListedEasily DEF Quiet, WillShow, OnPage, Listed
  <2>2. ~JoinPending(n) /\ ~Emitting(n, "node_removed")
    BY <1>1 DEF Quiet, JoinPending, Emitting, At
  <2>3. life[n] \in {"new", "registered", "deleted"}
    BY <1>1 DEF StreamInv, SSETypeOK, TypeOK, StoreTypeOK
  <2>4. life[n] = "new" => view[c][n] = "absent"
    BY <1>1 DEF StreamInv, StreamTrue
  <2>5. life[n] = "deleted" => view[c][n] = "absent"
    BY <1>1, <2>1, <2>2 DEF StreamInv, PageLosesDeleted, Uncrossed, Quiet
  <2>6. Registered(n) => view[c][n] # "absent"
    BY <1>1, <2>1, <2>2 DEF StreamInv, PageGetsRegistered, Quiet
  <2>. QED
    BY <2>3, <2>4, <2>5, <2>6 DEF Registered
<1>2. StreamInv => PageMatchesRegistry
  BY <1>1 DEF PageMatchesRegistry, Members
<1>. QED
  BY <1>2, StreamInvariant, PTL
=============================================================================
