------------------------------ MODULE FleetSSE ------------------------------
(***************************************************************************)
(* The fleet event stream: BroadcastEvents and HandleFleetSSE              *)
(* (internal/dashboard/fleet_handler.go) feeding the browser's node list   *)
(* (dashboard/src/hooks/useFleetSSE.ts), composed with the controller.     *)
(*                                                                         *)
(* A connection reads the node list, writes it to the stream, and only     *)
(* then registers its channel for events.  The stream itself is a TCP      *)
(* connection: what is written is applied by the browser in that order, so *)
(* writing an event and applying it is one step.                           *)
(***************************************************************************)
EXTENDS FleetController

CONSTANTS
  Clients,   \* browsers with the fleet page open
  ChanCap    \* capacity of a client's channel (32)

(* main.go makes the event channel and starts BroadcastEvents whenever it  *)
(* serves the fleet routes, this stream among them.                        *)
ASSUME CapAssumption == ChanCap \in Nat \ {0} /\ EventCap # 0

VARIABLES
  sse,     \* "closed", "listed": list sent but not registered, "open"
  chan,    \* chan[c]: the client's buffered channel
  view,    \* view[c][n]: what the page shows for node n
  missed,  \* history: a membership event did not or will not reach c
  crossed  \* history: nodes whose node_joined is followed by no node_removed

sseVars == <<sse, chan, view, missed, crossed>>
allVars == <<vars, sseVars>>

Shown == Statuses \cup {"absent"}

SSETypeOK ==
  /\ TypeOK
  /\ sse \in [Clients -> {"closed", "listed", "open"}]
  /\ chan \in [Clients -> Seq(Event)]
  /\ \A c \in Clients : Len(chan[c]) <= ChanCap
  /\ view \in [Clients -> [Nodes -> Shown]]
  /\ missed \in [Clients -> BOOLEAN]
  /\ crossed \in SUBSET Nodes

SSEInit ==
  /\ Init
  /\ sse = [c \in Clients |-> "closed"]
  /\ chan = [c \in Clients |-> <<>>]
  /\ view = [c \in Clients |-> [n \in Nodes |-> "absent"]]
  /\ missed = [c \in Clients |-> FALSE]
  /\ crossed = {}

-----------------------------------------------------------------------------
Listing == [n \in Nodes |-> IF Registered(n) THEN status[n] ELSE "absent"]

(* The first writes of HandleFleetSSE.  ListNodes returns a nil slice for  *)
(* an empty registry and nothing is sent: the page keeps what it showed.   *)
ListSent(c) ==
  /\ sse[c] = "closed"
  /\ sse' = [sse EXCEPT ![c] = "listed"]
  /\ LET empty == \A n \in Nodes : ~Registered(n) IN
     /\ view' = [view EXCEPT ![c] = IF empty THEN @ ELSE Listing]
     /\ missed' = [missed EXCEPT ![c] = empty /\ view[c] # Listing]
  /\ UNCHANGED <<vars, chan, crossed>>

ChannelRegistered(c) ==
  /\ sse[c] = "listed"
  /\ sse' = [sse EXCEPT ![c] = "open"]
  /\ UNCHANGED <<vars, chan, view, missed, crossed>>

(* Slip: the test for a full channel lets one event too many in.           *)
RoomForOneMore(c) == sse[c] = "open" /\ Len(chan[c]) <= ChanCap

(* BroadcastEvents: one event to every registered channel that has room.   *)
Room(c) == sse[c] = "open" /\ Len(chan[c]) < ChanCap

FanOut ==
  /\ Broadcast
  /\ chan' = [c \in Clients |-> IF Room(c) THEN Append(chan[c], Head(eventCh))
                                ELSE chan[c]]
  /\ missed' = [c \in Clients |-> missed[c] \/ (sse[c] # "closed" /\ ~Room(c))]
  /\ UNCHANGED <<sse, view, crossed>>

(* Slip: an update of a node that is not listed adds it.                   *)
AppliedUpsert(page, e) ==
  [page EXCEPT ![e.node] = IF e.type = "node_removed" THEN "absent"
                           ELSE e.status]

(* The page's fleet_event listener.                                        *)
Applied(page, e) ==
  IF e.type = "node_removed" THEN [page EXCEPT ![e.node] = "absent"]
  ELSE IF e.type = "node_joined" \/ page[e.node] # "absent"
       THEN [page EXCEPT ![e.node] = e.status]
  ELSE page

EventDelivered(c) ==
  /\ sse[c] = "open"
  /\ chan[c] # <<>>
  /\ view' = [view EXCEPT ![c] = Applied(@, Head(chan[c]))]
  /\ chan' = [chan EXCEPT ![c] = Tail(@)]
  /\ UNCHANGED <<vars, sse, missed, crossed>>

(* The stream breaks; the handler unregisters its channel.  The hook keeps *)
(* its list and reconnects five seconds later.                             *)
Disconnected(c) ==
  /\ sse[c] # "closed"
  /\ sse' = [sse EXCEPT ![c] = "closed"]
  /\ chan' = [chan EXCEPT ![c] = <<>>]
  /\ missed' = [missed EXCEPT ![c] = FALSE]
  /\ UNCHANGED <<vars, view, crossed>>

-----------------------------------------------------------------------------
(* The controller's own steps.  A membership event is lost for everyone    *)
(* when eventCh is full, and when the enrolling client hangs up before     *)
(* the handler has read the node back.                                     *)
LosesMembershipEvent(h) ==
  \/ /\ EmitEvent(h)
     /\ job[h].type # "node_updated"
     /\ Len(eventCh) = EventCap
  \/ ClientGone(h) /\ At(h, "joined")

(* A node_joined that no node_removed follows, of a node that is gone: the *)
(* row goes away between HandleEnroll's GetNode and its send, so that the  *)
(* two handlers may send in the other order; or node_removed finds eventCh *)
(* full of older events.                                                   *)
JoinCrossesRemoval(n) ==
  \E h \in Handlers :
    \/ /\ At(h, "emit") /\ job[h].node = n /\ job[h].type = "node_joined"
       /\ Registered(n) /\ life'[n] = "deleted"
    \/ /\ LosesMembershipEvent(h)
       /\ job[h].node = n /\ job[h].type = "node_removed"
       /\ \E k \in 1 .. Len(eventCh) : eventCh[k].node = n

ControllerStep ==
  /\ \/ \E h \in Handlers : Arrival(h) \/ HandlerStep(h) \/ ClientGone(h)
     \/ \E p \in Policies : UpdatePolicy(p)
     \/ MonitorStep
     \/ Tick
  /\ LET lost == \E h \in Handlers : LosesMembershipEvent(h) IN
     missed' = [c \in Clients |-> missed[c] \/ (lost /\ sse[c] # "closed")]
  /\ crossed' = crossed \cup {n \in Nodes : JoinCrossesRemoval(n)}
  /\ UNCHANGED <<sse, chan, view>>

ControllerRestarts ==
  /\ Restart
  /\ sse' = [c \in Clients |-> "closed"]
  /\ chan' = [c \in Clients |-> <<>>]
  /\ missed' = [c \in Clients |-> FALSE]
  /\ UNCHANGED <<view, crossed>>

ClientStep(c) ==
  ListSent(c) \/ ChannelRegistered(c) \/ EventDelivered(c) \/ Disconnected(c)

SSENext ==
  \/ ControllerStep
  \/ ControllerRestarts
  \/ FanOut
  \/ \E c \in Clients : ClientStep(c)

SSESpec == SSEInit /\ [][SSENext]_allVars

-----------------------------------------------------------------------------
(* Properties.                                                             *)

Members(c) == {n \in Nodes : view[c][n] # "absent"}
Quiet(c) ==
  /\ sse[c] = "open" /\ chan[c] = <<>> /\ eventCh = <<>>
  /\ \A h \in Handlers : job[h].pc \notin {"joined", "emit", "delete"}

(* With the stream caught up and no membership event lost on the way, the  *)
(* page lists exactly the registered nodes: replays of events older than   *)
(* the list, updates of nodes already removed and monitor events do no     *)
(* harm (useFleetSSE.ts, BroadcastEvents).                                 *)
PageMatchesRegistry ==
  \A c \in Clients :
    Quiet(c) /\ ~missed[c]
      => Members(c) \ crossed = {n \in Nodes : Registered(n)} \ crossed
=============================================================================
