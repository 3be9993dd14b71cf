----------------------------- MODULE AuditTrail -----------------------------
(***************************************************************************)
(* The audit logger (pkg/audit/audit.go) and its two kinds of listener:    *)
(* the alert manager (pkg/alerts) and the clients of the audit stream      *)
(* (HandleAuditSSE in internal/dashboard/handler.go).                      *)
(*                                                                         *)
(* Log holds its lock while it writes the line and the ring; the listeners *)
(* are called one by one after the lock is released, by the goroutine that *)
(* logs, which goes on when the last of them has returned.  An event is    *)
(* its position in the journal, the sequence of events in the order of the *)
(* lock.                                                                   *)
(***************************************************************************)
EXTENDS Integers, Sequences, FiniteSets

CONSTANTS
  Loggers,     \* goroutines that log: requests, the alert test
  Streams,     \* clients of the audit stream
  Hooks,       \* configured webhooks
  Kinds,       \* event types that occur
  Alerting,    \* those shouldAlert lets through
  Filter,      \* Filter[h]: the types webhook h asked for, {} for all
  RingSize,    \* 1000 in the code
  BatchLimit,  \* 50 in the code: events a new stream is sent
  ChanCap,     \* 64 in the code
  Cooldown,    \* 5 minutes in the code; here in ticks
  MaxRetries,  \* 3 in the code
  LogCap,      \* bound: events logged
  TimeCap      \* bound: ticks

ASSUME AuditTrailAssumption ==
  /\ Alerting \subseteq Kinds
  /\ Filter \in [Hooks -> SUBSET Kinds]
  /\ RingSize \in Nat \ {0} /\ BatchLimit \in Nat \ {0}
  /\ ChanCap \in Nat \ {0} /\ MaxRetries \in Nat \ {0}
  /\ Cooldown \in Nat /\ LogCap \in Nat /\ TimeCap \in Nat
  /\ "alerts" \notin Streams

VARIABLES
  journal,    \* the events logged, which is what the log file holds
  ring, ringIdx, ringFull,
  listeners,  \* in the order of registration
  call,       \* call[g]: the event g logs and the listeners still to call
  stream,     \* stream[s]: the handler's state, the batch, its channel
  cooldowns,  \* cooldowns[k]: when an alert on k was last let through
  sending,    \* deliveries under way: webhook, event, attempts made
  now,
  \* history variables: read by properties only
  got,        \* got[s]: events written to s after the batch
  lost,       \* lost[s]: events that found the channel of s full
  since,      \* since[s]: how long the journal was when s was registered
  heard       \* what onEvent made of each event that may alert, and when

ringVars == <<ring, ringIdx, ringFull>>
streamVars == <<stream, got, lost, since>>
alertVars == <<cooldowns, sending, heard>>
vars == <<journal, ringVars, listeners, call, streamVars, alertVars, now>>

Positions == 1..Len(journal)
NoCall == [left |-> <<>>]
Never == -1

Init ==
  /\ journal = <<>>
  /\ ring = [i \in 0..RingSize - 1 |-> 0]
  /\ ringIdx = 0
  /\ ringFull = FALSE
  /\ listeners = <<"alerts">>
  /\ call = [g \in Loggers |-> NoCall]
  /\ stream = [s \in Streams |-> [pc |-> "none", batch |-> <<>>, ch |-> <<>>]]
  /\ cooldowns = [k \in Kinds |-> Never]
  /\ sending = {}
  /\ now = 0
  /\ got = [s \in Streams |-> <<>>]
  /\ lost = [s \in Streams |-> {}]
  /\ since = [s \in Streams |-> 0]
  /\ heard = {}

-----------------------------------------------------------------------------
(* The logger.                                                             *)

(* Slip: reading back across the wrap misses the last slot.                *)
SlotShort(i) == IF ringIdx - i >= 0 THEN ringIdx - i
                ELSE (ringIdx - i + RingSize - 1) % RingSize

(* The slot of the i-th newest event.                                      *)
Slot(i) == IF ringIdx - i >= 0 THEN ringIdx - i ELSE ringIdx - i + RingSize

Held == IF ringFull THEN RingSize ELSE ringIdx

(* RecentEvents: newest first, all that the ring holds for limit <= 0.     *)
RecentEvents(limit) ==
  [i \in 1..(IF limit <= 0 \/ limit > Held THEN Held ELSE limit)
     |-> ring[Slot(i)]]

(* Slip: the index wraps one late.                                         *)
AdvancedLate == IF ringIdx + 1 > RingSize THEN 0 ELSE ringIdx + 1

Advanced == IF ringIdx + 1 >= RingSize THEN 0 ELSE ringIdx + 1

(* Log up to the release of the lock.  Errors of the file are ignored.     *)
Log(g, k) ==
  /\ call[g].left = <<>>
  /\ Len(journal) < LogCap
  /\ journal' = Append(journal, k)
  /\ ring' = [ring EXCEPT ![ringIdx] = Len(journal) + 1]
  /\ ringIdx' = Advanced
  /\ ringFull' = (ringFull \/ ringIdx + 1 >= RingSize)
  /\ call' = [call EXCEPT ![g] = [left |-> listeners,
                                  pos |-> Len(journal) + 1]]
  /\ UNCHANGED <<listeners, streamVars, alertVars, now>>

(* The listener that g calls next, and the call returning.                 *)
Calling(g, l) == call[g].left # <<>> /\ Head(call[g].left) = l
(* Slip: the loop over the listeners ends with the first.                  *)
ReturnsAtOnce(g) == call' = [call EXCEPT ![g] = NoCall]

Returns(g) ==
  call' = [call EXCEPT ![g] = IF Tail(@.left) = <<>> THEN NoCall
                              ELSE [left |-> Tail(@.left), pos |-> @.pos]]

-----------------------------------------------------------------------------
(* The alert manager.                                                      *)

(* The key is type and resource; no event that alerts names a resource.    *)
Key(p) == journal[p]

(* Slip: the cooldown is a tick short.                                     *)
CoolEarly(k) == cooldowns[k] = Never \/ now - cooldowns[k] >= Cooldown - 1

Cool(k) == cooldowns[k] = Never \/ now - cooldowns[k] >= Cooldown

Matching(k) == {h \in Hooks : Filter[h] = {} \/ k \in Filter[h]}

(* Slip: an alert that was held back starts the cooldown anew.             *)
Restarted(k) == [cooldowns EXCEPT ![k] = now]

Started(k) == IF Cool(k) THEN [cooldowns EXCEPT ![k] = now] ELSE cooldowns

(* onEvent.  Check and setting are one lock section; each delivery gets a  *)
(* goroutine of its own, and nothing undoes the cooldown when all fail.    *)
OnEvent(g) ==
  /\ Calling(g, "alerts")
  /\ LET p == call[g].pos  k == Key(p) IN
     IF k \in Alerting
     THEN /\ cooldowns' = Started(k)
          /\ sending' = sending \cup
               IF Cool(k) THEN [hook : Matching(k), pos : {p}, tries : {0}]
               ELSE {}
          /\ heard' = heard \cup {[pos |-> p, at |-> now, sent |-> Cool(k)]}
     ELSE UNCHANGED alertVars
  /\ Returns(g)
  /\ UNCHANGED <<journal, ringVars, listeners, streamVars, now>>

AfterFailure(d) ==
  IF d.tries + 1 < MaxRetries THEN {[d EXCEPT !.tries = @ + 1]} ELSE {}

(* An attempt of sendWebhookWithRetry succeeds, or fails.                  *)
Attempt(d) ==
  /\ d \in sending
  /\ \/ sending' = sending \ {d}
     \/ sending' = (sending \ {d}) \cup AfterFailure(d)
  /\ UNCHANGED <<journal, ringVars, listeners, call, streamVars, cooldowns,
                 heard, now>>

-----------------------------------------------------------------------------
(* The stream.                                                             *)

(* Slip: the listener sends even when nobody can receive.                  *)
SendsBlocking(g, s) ==
  /\ Len(stream[s].ch) < ChanCap
  /\ stream' = [stream EXCEPT ![s].ch = Append(@, call[g].pos)]
  /\ UNCHANGED lost

Sends(g, s) ==
  IF Len(stream[s].ch) < ChanCap
  THEN /\ stream' = [stream EXCEPT ![s].ch = Append(@, call[g].pos)]
       /\ UNCHANGED lost
  ELSE /\ lost' = [lost EXCEPT ![s] = @ \cup {call[g].pos}]
       /\ UNCHANGED stream

(* The listener of s, called although the client may be gone: no listener  *)
(* is ever removed.                                                        *)
OnStream(g, s) ==
  /\ Calling(g, s)
  /\ Sends(g, s)
  /\ Returns(g)
  /\ UNCHANGED <<journal, ringVars, listeners, got, since, alertVars, now>>

(* HandleAuditSSE: the batch,                                              *)
SendBatch(s) ==
  /\ stream[s].pc = "none"
  /\ stream' = [stream EXCEPT ![s].pc = "batched",
                              ![s].batch = RecentEvents(BatchLimit)]
  /\ UNCHANGED <<journal, ringVars, listeners, call, got, lost, since,
                 alertVars, now>>

(* Slip: Log iterates over the logger's own slice, not over a copy.        *)
JoinsUnderWay(s) ==
  call' = [g \in Loggers |-> IF call[g].left = <<>> THEN call[g]
                             ELSE [call[g] EXCEPT !.left = Append(@, s)]]

CallsUnderWay(s) == UNCHANGED call

(* then the listener: what is logged in between is in neither,             *)
Register(s) ==
  /\ stream[s].pc = "batched"
  /\ stream' = [stream EXCEPT ![s].pc = "open"]
  /\ listeners' = Append(listeners, s)
  /\ since' = [since EXCEPT ![s] = Len(journal)]
  /\ CallsUnderWay(s)
  /\ UNCHANGED <<journal, ringVars, got, lost, alertVars, now>>

(* then the loop, until the client hangs up.                               *)
Receive(s) ==
  /\ stream[s].pc = "open" /\ stream[s].ch # <<>>
  /\ stream' = [stream EXCEPT ![s].ch = Tail(@)]
  /\ got' = [got EXCEPT ![s] = Append(@, Head(stream[s].ch))]
  /\ UNCHANGED <<journal, ringVars, listeners, call, lost, since, alertVars,
                 now>>

HangUp(s) ==
  /\ stream[s].pc = "open"
  /\ stream' = [stream EXCEPT ![s].pc = "gone"]
  /\ UNCHANGED <<journal, ringVars, listeners, call, got, lost, since,
                 alertVars, now>>

Tick ==
  /\ now' = IF now < TimeCap THEN now + 1 ELSE now
  /\ UNCHANGED <<journal, ringVars, listeners, call, streamVars, alertVars>>

Hear(g) == OnEvent(g) \/ \E s \in Streams : OnStream(g, s)

Next ==
  \/ \E g \in Loggers : (\E k \in Kinds : Log(g, k)) \/ Hear(g)
  \/ \E d \in sending : Attempt(d)
  \/ \E s \in Streams : SendBatch(s) \/ Register(s) \/ Receive(s) \/ HangUp(s)
  \/ Tick

Spec == Init /\ [][Next]_vars

(* Goroutines that can run do run.                                         *)
FairSpec == Spec /\ \A g \in Loggers : WF_vars(Hear(g))

-----------------------------------------------------------------------------
TypeOK ==
  /\ journal \in Seq(Kinds)
  /\ ring \in [0..RingSize - 1 -> Nat]
  /\ ringIdx \in 0..RingSize - 1
  /\ ringFull \in BOOLEAN
  /\ listeners \in Seq({"alerts"} \cup Streams)
  /\ call \in [Loggers -> {NoCall} \cup [left : Seq({"alerts"} \cup Streams),
                                         pos : Positions]]
  /\ stream \in [Streams -> [pc : {"none", "batched", "open", "gone"},
                             batch : Seq(Positions), ch : Seq(Positions)]]
  /\ \A s \in Streams : Len(stream[s].ch) <= ChanCap
  /\ cooldowns \in [Kinds -> {Never} \cup 0..now]
  /\ sending \subseteq [hook : Hooks, pos : Positions, tries : 0..MaxRetries - 1]
  /\ now \in Nat
  /\ got \in [Streams -> Seq(Positions)]
  /\ lost \in [Streams -> SUBSET Positions]
  /\ since \in [Streams -> Nat]
  /\ heard \subseteq [pos : Positions, at : 0..now, sent : BOOLEAN]

(* audit.go:141: whatever the ring has been through, RecentEvents returns  *)
(* the newest events of the journal, newest first, none twice, none        *)
(* skipped, and never a slot that was not written.                         *)
RingIsTail ==
  /\ Held = IF Len(journal) < RingSize THEN Len(journal) ELSE RingSize
  /\ \A i \in 1..Held : ring[Slot(i)] = Len(journal) + 1 - i

Live(s) == got[s] \o stream[s].ch

(* handler.go:240: the batch is read before the listener is registered, so *)
(* no event reaches a client twice, be it once in the batch and once live. *)
NoneTwice ==
  \A s \in Streams :
    LET all == stream[s].batch \o Live(s) IN
    \A i, j \in 1..Len(all) : i # j => all[i] # all[j]

(* What is logged once a client is registered reaches it, is on its way or *)
(* found the channel full.  Its order may differ from the journal's, as    *)
(* audit.go:125 calls the listeners outside the lock.                      *)
StreamAccounts ==
  \A s \in Streams : stream[s].pc \in {"open", "gone"} =>
    \A p \in since[s] + 1..Len(journal) :
      \/ p \in lost[s]
      \/ \E i \in 1..Len(Live(s)) : Live(s)[i] = p
      \/ \E g \in Loggers : call[g].left # <<>> /\ call[g].pos = p
           /\ \E i \in 1..Len(call[g].left) : call[g].left[i] = s

(* alerts.go:97: two alerts of one key are at least the cooldown apart,    *)
(* whichever goroutines log the events and in whatever order they come.    *)
AlertsPaced ==
  \A d, e \in heard :
    d.sent /\ e.sent /\ d # e /\ Key(d.pos) = Key(e.pos)
      => d.at - e.at >= Cooldown \/ e.at - d.at >= Cooldown

(* An alert is held back only after one of the same key that was sent less *)
(* than the cooldown ago: held-back alerts never prolong the silence.      *)
HeldBackForCause ==
  \A d \in heard : ~d.sent =>
    \E e \in heard : /\ e.sent /\ Key(e.pos) = Key(d.pos)
                     /\ e.at <= d.at /\ d.at < e.at + Cooldown

(* audit.go:125 calls listeners synchronously: neither a slow or departed  *)
(* client of the stream nor a webhook keeps a request from going on.       *)
LogReturns == \A g \in Loggers : call[g].left # <<>> ~> call[g].left = <<>>
=============================================================================
