-------------------------- MODULE AuditTrailProofs --------------------------
(***************************************************************************)
(* Proofs about AuditTrail, for any loggers, streams, hooks, event types,  *)
(* sizes and cooldown: the ring, the pacing of alerts, types, and what a   *)
(* client of the stream is sent.                                           *)
(***************************************************************************)
EXTENDS AuditTrail, TLAPS

(* The ring and its index.  ringFull tells a ring that has wrapped.        *)
RingInv ==
  /\ journal \in Seq(Kinds)
  /\ ring \in [0..RingSize - 1 -> Nat]
  /\ ringIdx \in 0..RingSize - 1
  /\ ringFull \in BOOLEAN
  /\ ringFull <=> Len(journal) >= RingSize
  /\ ~ringFull => ringIdx = Len(journal)
  /\ RingIsTail
-----------------------------------------------------------------------------
(* The slot of what the i-th newest event becomes is the slot it has.      *)
LEMMA SlotsMove ==
  ASSUME RingInv, NEW g \in Loggers, NEW k \in Kinds, Log(g, k)
  PROVE  /\ Slot(1)' = ringIdx
         /\ \A i \in 2..RingSize : /\ Slot(i)' = Slot(i - 1)
                                   /\ Slot(i - 1) # ringIdx
                                   /\ Slot(i - 1) \in 0..RingSize - 1
<1>1. /\ ringIdx \in 0..RingSize - 1 /\ RingSize \in Nat \ {0}
      /\ ringIdx' = IF ringIdx + 1 >= RingSize THEN 0 ELSE ringIdx + 1
  BY AuditTrailAssumption DEF RingInv, Log, Advanced
<1>. QED
  BY <1>1 DEF Slot

(* An event is written over the oldest, or into the next free slot.        *)
LEMMA LogKeepsRing ==
  ASSUME RingInv, NEW g \in Loggers, NEW k \in Kinds, Log(g, k)
  PROVE  RingInv'
<1>1. RingSize \in Nat \ {0} /\ Len(journal) \in Nat
  BY AuditTrailAssumption DEF RingInv
<1>2. /\ journal' = Append(journal, k)
      /\ ring' = [ring EXCEPT ![ringIdx] = Len(journal) + 1]
      /\ ringIdx' = IF ringIdx + 1 >= RingSize THEN 0 ELSE ringIdx + 1
      /\ ringFull' = (ringFull \/ ringIdx + 1 >= RingSize)
  BY DEF Log, Advanced
<1>3. journal' \in Seq(Kinds) /\ Len(journal') = Len(journal) + 1
  BY <1>2 DEF RingInv
<1>4. /\ ring' \in [0..RingSize - 1 -> Nat]
      /\ ringIdx' \in 0..RingSize - 1
      /\ ringFull' \in BOOLEAN
  BY <1>1, <1>2 DEF RingInv
<1>5. /\ ringFull' <=> Len(journal') >= RingSize
      /\ ~ringFull' => ringIdx' = Len(journal')
  <2>1. ringFull' <=> ringFull \/ ringIdx + 1 >= RingSize
    BY <1>2 DEF RingInv
  <2>2. ringFull <=> Len(journal) >= RingSize
    BY DEF RingInv
  <2>3. ~ringFull => ringIdx = Len(journal)
    BY DEF RingInv
  <2>4. ringIdx \in Nat
    BY DEF RingInv
  <2>. QED
    BY <1>1, <1>2, <1>3, <2>1, <2>2, <2>3, <2>4
<1>6. Held = IF Len(journal) < RingSize THEN Len(journal) ELSE RingSize
  BY DEF RingInv, RingIsTail
<1>7. Held' = IF Len(journal') < RingSize THEN Len(journal') ELSE RingSize
  BY <1>1, <1>3, <1>4, <1>5 DEF Held
<1>8. ASSUME NEW i \in 1..Held'
      PROVE  ring'[Slot(i)'] = Len(journal') + 1 - i
  <2>1. i \in 1..RingSize /\ i <= Len(journal) + 1
    BY <1>1, <1>3, <1>7
  <2>2. CASE i = 1
    BY <1>1, <1>2, <1>3, <2>2, SlotsMove DEF RingInv
  <2>3. CASE i # 1
    <3>1. i \in 2..RingSize /\ i - 1 \in 1..Held
      BY <1>1, <1>6, <2>1, <2>3
    <3>2. ring[Slot(i - 1)] = Len(journal) + 1 - (i - 1)
      BY <3>1 DEF RingInv, RingIsTail
    <3>3. /\ Slot(i)' = Slot(i - 1) /\ Slot(i - 1) # ringIdx
          /\ Slot(i - 1) \in 0..RingSize - 1
      BY <3>1, SlotsMove
    <3>4. ring'[Slot(i - 1)] = ring[Slot(i - 1)]
      BY <1>2, <3>3 DEF RingInv
    <3>. QED
      BY <1>1, <1>3, <2>1, <3>2, <3>3, <3>4
  <2>. QED
    BY <2>2, <2>3
<1>9. RingIsTail'
  BY <1>7, <1>8 DEF RingIsTail
<1>. QED
  BY <1>3, <1>4, <1>5, <1>9 DEF RingInv

(* Nothing else touches the ring.                                          *)
LEMMA RingStep ==
  ASSUME RingInv, [Next]_vars
  PROVE  RingInv'
<1>1. CASE UNCHANGED <<journal, ringVars>>
  BY <1>1 DEF ringVars, RingInv, RingIsTail, Held, Slot
<1>2. CASE \E g \in Loggers, k \in Kinds : Log(g, k)
  BY <1>2, LogKeepsRing
<1>. QED
  BY <1>1, <1>2
  DEF Next, Hear, OnEvent, OnStream, Attempt, SendBatch, Register, Receive,
      HangUp, Tick, vars

(* The initial ring holds nothing.                                         *)
LEMMA RingInit == Init => RingInv
<1>. SUFFICES ASSUME Init PROVE RingInv
  OBVIOUS
<1>1. RingSize \in Nat \ {0} /\ journal = <<>> /\ Len(journal) = 0
  BY AuditTrailAssumption DEF Init
<1>2. Held = 0
  BY DEF Held, Init
<1>3. ~ringFull /\ ringFull \in BOOLEAN /\ ringIdx = 0
  BY DEF Init
<1>4. ring \in [0..RingSize - 1 -> Nat]
  BY DEF Init
<1>5. RingIsTail
  BY <1>1, <1>2 DEF RingIsTail
<1>. QED
  BY <1>1, <1>3, <1>4, <1>5 DEF RingInv

(* RecentEvents returns the tail of the journal, for a ring of any size    *)
(* and however often it has wrapped.                                       *)
THEOREM RingIsAlwaysTail == Spec => []RingIsTail
<1>1. RingInv => RingIsTail
  BY DEF RingInv
<1>. QED
  BY <1>1, RingInit, RingStep, PTL DEF Spec
-----------------------------------------------------------------------------
Listener == {"alerts"} \cup Streams
Calls == {NoCall} \cup [left : Seq(Listener), pos : Positions]
StreamStates == [pc : {"none", "batched", "open", "gone"},
                 batch : Seq(Positions), ch : Seq(Positions)]
StreamTypes ==
  /\ stream \in [Streams -> StreamStates]
  /\ \A s \in Streams : Len(stream[s].ch) <= ChanCap
  /\ got \in [Streams -> Seq(Positions)]
  /\ lost \in [Streams -> SUBSET Positions]
  /\ since \in [Streams -> Nat]
AlertTypes ==
  /\ cooldowns \in [Kinds -> {Never} \cup 0..now]
  /\ sending \subseteq [hook : Hooks, pos : Positions, tries : 0..MaxRetries - 1]
  /\ now \in Nat
  /\ heard \subseteq [pos : Positions, at : 0..now, sent : BOOLEAN]

(* TypeOK but for the ring: journal, listeners and calls, streams, alerts. *)
Types ==
  /\ journal \in Seq(Kinds)
  /\ listeners \in Seq(Listener)
  /\ call \in [Loggers -> Calls]
  /\ StreamTypes
  /\ AlertTypes

(* A sequence over a set is one over a larger set.                         *)
LEMMA WiderSeq ==
  ASSUME NEW S, NEW T, S \subseteq T, NEW q \in Seq(S)
  PROVE  q \in Seq(T)
OBVIOUS

(* RecentEvents names events of the journal.                               *)
LEMMA BatchType ==
  ASSUME RingInv
  PROVE  RecentEvents(BatchLimit) \in Seq(Positions)
<1>. DEFINE n == IF BatchLimit <= 0 \/ BatchLimit > Held THEN Held ELSE BatchLimit
<1>1. /\ Len(journal) \in Nat /\ RingSize \in Nat \ {0} /\ BatchLimit \in Nat
      /\ Held = IF Len(journal) < RingSize THEN Len(journal) ELSE RingSize
      /\ \A i \in 1..Held : ring[Slot(i)] = Len(journal) + 1 - i
  BY AuditTrailAssumption DEF RingInv, RingIsTail
<1>2. n \in Nat /\ n <= Held /\ Held <= Len(journal) /\ Held \in Nat
  BY <1>1
<1>3. RecentEvents(BatchLimit) = [i \in 1..n |-> ring[Slot(i)]]
  BY DEF RecentEvents
<1>. HIDE DEF n
<1>4. \A i \in 1..n : ring[Slot(i)] \in Positions
  BY <1>1, <1>2 DEF Positions
<1>. QED
  BY <1>2, <1>3, <1>4

(* Log, which adds a position.                                             *)
LEMMA LogTypes ==
  ASSUME Types, NEW g \in Loggers, NEW k \in Kinds, Log(g, k)
  PROVE  Types'
<1>1. /\ journal' = Append(journal, k)
      /\ call' = [call EXCEPT ![g] = [left |-> listeners,
                                      pos |-> Len(journal) + 1]]
      /\ UNCHANGED <<listeners, stream, got, lost, since, cooldowns, sending,
                     heard, now>>
  BY DEF Log, streamVars, alertVars
<1>2. /\ journal' \in Seq(Kinds) /\ Len(journal') = Len(journal) + 1
      /\ Len(journal) \in Nat
  BY <1>1 DEF Types
<1>3. Positions \subseteq Positions' /\ Len(journal) + 1 \in Positions'
  BY <1>2 DEF Positions
<1>4. Seq(Positions) \subseteq Seq(Positions')
  BY <1>3, WiderSeq
<1>5. Calls \subseteq Calls' /\ StreamStates \subseteq StreamStates'
  BY <1>3, <1>4 DEF Calls, StreamStates
<1>6. [left |-> listeners, pos |-> Len(journal) + 1] \in Calls'
  BY <1>3 DEF Types, Calls
<1>7. call' \in [Loggers -> Calls']
  BY <1>1, <1>5, <1>6 DEF Types
<1>8. StreamTypes'
  BY <1>1, <1>3, <1>4, <1>5 DEF Types, StreamTypes
<1>9. AlertTypes'
  BY <1>1, <1>3 DEF Types, AlertTypes
<1>. QED
  BY <1>1, <1>2, <1>7, <1>8, <1>9 DEF Types

(* A call that returns.                                                    *)
LEMMA ReturnsTypes ==
  ASSUME call \in [Loggers -> Calls], NEW g \in Loggers, Returns(g),
         call[g].left # <<>>
  PROVE  /\ call' \in [Loggers -> Calls]
         /\ call[g].pos \in Positions
         /\ \A h \in Loggers : call'[h].left # <<>>
              => call[h].left # <<>> /\ call'[h].pos = call[h].pos
<1>1. call[g] \in [left : Seq(Listener), pos : Positions]
  BY DEF Calls, NoCall
<1>2. Tail(call[g].left) \in Seq(Listener)
  BY <1>1
<1>3. call' = [call EXCEPT ![g] =
                 IF Tail(call[g].left) = <<>> THEN NoCall
                 ELSE [left |-> Tail(call[g].left), pos |-> call[g].pos]]
  BY DEF Returns
<1>4. [left |-> Tail(call[g].left), pos |-> call[g].pos] \in Calls
  BY <1>1, <1>2 DEF Calls
<1>5. call' \in [Loggers -> Calls]
  BY <1>3, <1>4 DEF Calls
<1>6. \A h \in Loggers : call'[h].left # <<>>
        => call[h].left # <<>> /\ call'[h].pos = call[h].pos
  BY <1>1, <1>3 DEF NoCall
<1>. QED
  BY <1>1, <1>5, <1>6

(* onEvent.                                                                *)
LEMMA OnEventTypes ==
  ASSUME Types, NEW g \in Loggers, OnEvent(g)
  PROVE  Types'
<1>1. /\ call[g].left # <<>> /\ Returns(g)
      /\ UNCHANGED <<journal, listeners, stream, got, lost, since, now>>
  BY DEF OnEvent, Calling, streamVars
<1>2. Positions' = Positions /\ Calls' = Calls /\ StreamStates' = StreamStates
  BY <1>1 DEF Positions, Calls, StreamStates
<1>3. call' \in [Loggers -> Calls] /\ call[g].pos \in Positions
  BY <1>1, ReturnsTypes DEF Types
<1>4. Key(call[g].pos) \in Kinds
  BY <1>3 DEF Types, Positions, Key
<1>5. AlertTypes'
  <2>1. CASE Key(call[g].pos) \notin Alerting
    <3>1. UNCHANGED <<cooldowns, sending, heard, now>>
      BY <1>1, <2>1 DEF OnEvent, alertVars
    <3>. QED
      BY <1>2, <3>1 DEF Types, AlertTypes
  <2>2. CASE Key(call[g].pos) \in Alerting
    <3>. DEFINE k == Key(call[g].pos)
    <3>1. /\ cooldowns' = Started(k)
          /\ sending' = sending \cup
               IF Cool(k) THEN [hook : Matching(k), pos : {call[g].pos}, tries : {0}]
               ELSE {}
          /\ heard' = heard \cup
               {[pos |-> call[g].pos, at |-> now, sent |-> Cool(k)]}
      BY <2>2 DEF OnEvent
    <3>2. cooldowns' \in [Kinds -> {Never} \cup 0..now]
      BY <1>4, <3>1 DEF Started, Types, AlertTypes
    <3>3. sending' \subseteq
            [hook : Hooks, pos : Positions, tries : 0..MaxRetries - 1]
      <4>1. [hook : Matching(k), pos : {call[g].pos}, tries : {0}] \subseteq
              [hook : Hooks, pos : Positions, tries : 0..MaxRetries - 1]
        BY <1>3, AuditTrailAssumption DEF Matching
      <4>. QED
        BY <3>1, <4>1 DEF Types, AlertTypes
    <3>4. heard' \subseteq [pos : Positions, at : 0..now, sent : BOOLEAN]
      <4>1. Cool(k) \in BOOLEAN /\ now \in 0..now
        BY DEF Cool, Types, AlertTypes
      <4>. QED
        BY <1>3, <3>1, <4>1 DEF Types, AlertTypes
    <3>. QED
      BY <1>1, <1>2, <3>2, <3>3, <3>4 DEF Types, AlertTypes
  <2>. QED
    BY <2>1, <2>2
<1>6. StreamTypes'
  BY <1>1, <1>2 DEF Types, StreamTypes
<1>. QED
  BY <1>1, <1>2, <1>3, <1>5, <1>6 DEF Types

(* The listener of a stream.                                               *)
LEMMA OnStreamTypes ==
  ASSUME Types, NEW g \in Loggers, NEW s \in Streams, OnStream(g, s)
  PROVE  Types'
<1>1. /\ call[g].left # <<>> /\ Returns(g) /\ Sends(g, s)
      /\ UNCHANGED <<journal, listeners, got, since, cooldowns, sending, heard,
                     now>>
  BY DEF OnStream, Calling, alertVars
<1>2. Positions' = Positions /\ Calls' = Calls /\ StreamStates' = StreamStates
  BY <1>1 DEF Positions, Calls, StreamStates
<1>3. call' \in [Loggers -> Calls] /\ call[g].pos \in Positions
  BY <1>1, ReturnsTypes DEF Types
<1>4. StreamTypes'
  <2>1. stream[s] \in StreamStates /\ ChanCap \in Nat
    BY AuditTrailAssumption DEF Types, StreamTypes
  <2>2. CASE Len(stream[s].ch) < ChanCap
    <3>1. /\ stream' = [stream EXCEPT ![s].ch = Append(stream[s].ch, call[g].pos)]
          /\ lost' = lost
      BY <1>1, <2>2 DEF Sends
    <3>2. /\ Append(stream[s].ch, call[g].pos) \in Seq(Positions)
          /\ Len(Append(stream[s].ch, call[g].pos)) = Len(stream[s].ch) + 1
          /\ Len(stream[s].ch) \in Nat
      BY <1>3, <2>1 DEF StreamStates
    <3>3. stream' \in [Streams -> StreamStates]
      BY <2>1, <3>1, <3>2 DEF Types, StreamTypes, StreamStates
    <3>4. \A x \in Streams : Len(stream'[x].ch) <= ChanCap
      BY <2>1, <2>2, <3>1, <3>2 DEF Types, StreamTypes, StreamStates
    <3>. QED
      BY <1>1, <1>2, <3>1, <3>3, <3>4 DEF Types, StreamTypes
  <2>3. CASE ~(Len(stream[s].ch) < ChanCap)
    <3>1. /\ lost' = [lost EXCEPT ![s] = @ \cup {call[g].pos}]
          /\ stream' = stream
      BY <1>1, <2>3 DEF Sends
    <3>. QED
      BY <1>1, <1>2, <1>3, <3>1 DEF Types, StreamTypes
  <2>. QED
    BY <2>2, <2>3
<1>5. AlertTypes'
  BY <1>1, <1>2 DEF Types, AlertTypes
<1>. QED
  BY <1>1, <1>2, <1>3, <1>4, <1>5 DEF Types

(* The other steps of a stream, and of deliveries and time.                *)
LEMMA QuietTypes ==
  ASSUME Types, RingInv,
         \/ \E d \in sending : Attempt(d)
         \/ \E s \in Streams :
              SendBatch(s) \/ Register(s) \/ Receive(s) \/ HangUp(s)
         \/ Tick \/ UNCHANGED vars
  PROVE  Types'
<1>0. UNCHANGED <<journal, call>>
  BY DEF Attempt, SendBatch, Register, CallsUnderWay, Receive, HangUp, Tick,
         vars
<1>1. Positions' = Positions /\ Calls' = Calls /\ StreamStates' = StreamStates
  BY <1>0 DEF Positions, Calls, StreamStates
<1>2. ASSUME UNCHANGED <<stream, got, lost, since>>
      PROVE  StreamTypes'
  BY <1>1, <1>2 DEF Types, StreamTypes
<1>3. ASSUME UNCHANGED <<cooldowns, sending, heard, now>>
      PROVE  AlertTypes'
  BY <1>1, <1>3 DEF Types, AlertTypes
<1>4. ASSUME NEW d \in sending, Attempt(d)
      PROVE  Types'
  <2>1. UNCHANGED <<listeners, stream, got, lost, since, cooldowns, heard, now>>
    BY <1>4 DEF Attempt, streamVars
  <2>2. AfterFailure(d) \subseteq
          [hook : Hooks, pos : Positions, tries : 0..MaxRetries - 1]
    <3>1. d \in [hook : Hooks, pos : Positions, tries : 0..MaxRetries - 1]
      BY DEF Types, AlertTypes
    <3>2. MaxRetries \in Nat \ {0}
      BY AuditTrailAssumption
    <3>. QED
      BY <3>1, <3>2 DEF AfterFailure
  <2>3. sending' \subseteq
          [hook : Hooks, pos : Positions, tries : 0..MaxRetries - 1]
    BY <1>4, <2>2 DEF Attempt, Types, AlertTypes
  <2>4. AlertTypes'
    BY <1>1, <2>1, <2>3 DEF Types, AlertTypes
  <2>. QED
    BY <1>0, <1>1, <1>2, <2>1, <2>4 DEF Types
<1>5. ASSUME NEW s \in Streams, SendBatch(s)
      PROVE  Types'
  <2>1. RecentEvents(BatchLimit) \in Seq(Positions)
    BY BatchType
  <2>2. /\ stream' = [stream EXCEPT ![s].pc = "batched",
                                    ![s].batch = RecentEvents(BatchLimit)]
        /\ UNCHANGED <<listeners, got, lost, since, cooldowns, sending, heard,
                       now>>
    BY <1>5 DEF SendBatch, alertVars
  <2>. DEFINE batch == RecentEvents(BatchLimit)
  <2>. HIDE DEF batch
  <2>3. StreamTypes'
    <3>1. stream' = [stream EXCEPT ![s].pc = "batched", ![s].batch = batch]
      BY <2>2 DEF batch
    <3>2. batch \in Seq(Positions)
      BY <2>1 DEF batch
    <3>3. /\ stream' \in [Streams -> StreamStates]
          /\ \A x \in Streams : Len(stream'[x].ch) <= ChanCap
      BY <3>1, <3>2 DEF Types, StreamTypes, StreamStates
    <3>. QED
      BY <1>1, <2>2, <3>3 DEF Types, StreamTypes
  <2>. QED
    BY <1>0, <1>1, <1>3, <2>2, <2>3 DEF Types
<1>6. ASSUME NEW s \in Streams, Register(s)
      PROVE  Types'
  <2>1. /\ stream' = [stream EXCEPT ![s].pc = "open"]
        /\ listeners' = Append(listeners, s)
        /\ since' = [since EXCEPT ![s] = Len(journal)]
        /\ UNCHANGED <<got, lost, cooldowns, sending, heard, now>>
    BY <1>6 DEF Register, alertVars
  <2>2. StreamTypes'
    <3>1. Len(journal) \in Nat
      BY DEF Types
    <3>2. since' \in [Streams -> Nat]
      BY <2>1, <3>1 DEF Types, StreamTypes
    <3>3. /\ stream' \in [Streams -> StreamStates]
          /\ \A x \in Streams : Len(stream'[x].ch) <= ChanCap
      BY <2>1 DEF Types, StreamTypes, StreamStates
    <3>. QED
      BY <1>1, <2>1, <3>2, <3>3 DEF Types, StreamTypes
  <2>3. listeners' \in Seq(Listener)
    BY <2>1 DEF Types, Listener
  <2>. QED
    BY <1>0, <1>1, <1>3, <2>1, <2>2, <2>3 DEF Types
<1>7. ASSUME NEW s \in Streams, Receive(s)
      PROVE  Types'
  <2>1. /\ stream[s].ch # <<>>
        /\ stream' = [stream EXCEPT ![s].ch = Tail(stream[s].ch)]
        /\ got' = [got EXCEPT ![s] = Append(@, Head(stream[s].ch))]
        /\ UNCHANGED <<listeners, lost, since, cooldowns, sending, heard, now>>
    BY <1>7 DEF Receive, alertVars
  <2>2. stream[s].ch \in Seq(Positions) /\ got[s] \in Seq(Positions)
    BY DEF Types, StreamTypes, StreamStates
  <2>3. /\ Tail(stream[s].ch) \in Seq(Positions)
        /\ Len(Tail(stream[s].ch)) = Len(stream[s].ch) - 1
        /\ Len(stream[s].ch) \in Nat
        /\ Append(got[s], Head(stream[s].ch)) \in Seq(Positions)
    BY <2>1, <2>2
  <2>. DEFINE rest == Tail(stream[s].ch)
  <2>. HIDE DEF rest
  <2>4. /\ stream' \in [Streams -> StreamStates]
        /\ \A x \in Streams : Len(stream'[x].ch) <= ChanCap
    <3>1. stream' = [stream EXCEPT ![s].ch = rest] /\ rest \in Seq(Positions)
      BY <2>1, <2>3 DEF rest
    <3>2. Len(rest) <= ChanCap
      BY <2>3, AuditTrailAssumption DEF Types, StreamTypes, rest
    <3>3. stream' \in [Streams -> StreamStates]
      BY <3>1 DEF Types, StreamTypes, StreamStates
    <3>4. \A x \in Streams : stream'[x].ch = IF x = s THEN rest ELSE stream[x].ch
      BY <3>1 DEF Types, StreamTypes, StreamStates
    <3>. QED
      BY <3>2, <3>3, <3>4 DEF Types, StreamTypes
  <2>5. got' \in [Streams -> Seq(Positions)]
    BY <2>1, <2>3 DEF Types, StreamTypes
  <2>6. StreamTypes'
    BY <1>1, <2>1, <2>4, <2>5 DEF Types, StreamTypes
  <2>. QED
    BY <1>0, <1>1, <1>3, <2>1, <2>6 DEF Types
<1>8. ASSUME NEW s \in Streams, HangUp(s)
      PROVE  Types'
  <2>1. /\ stream' = [stream EXCEPT ![s].pc = "gone"]
        /\ UNCHANGED <<listeners, got, lost, since, cooldowns, sending, heard,
                       now>>
    BY <1>8 DEF HangUp, alertVars
  <2>2. StreamTypes'
    BY <1>1, <2>1 DEF Types, StreamTypes, StreamStates
  <2>. QED
    BY <1>0, <1>1, <1>3, <2>1, <2>2 DEF Types
<1>9. CASE Tick
  <2>1. UNCHANGED <<listeners, stream, got, lost, since, cooldowns, sending,
                    heard>>
    BY <1>9 DEF Tick, streamVars, alertVars
  <2>2. now' \in Nat /\ 0..now \subseteq 0..now'
    BY <1>9 DEF Tick, Types, AlertTypes
  <2>3. AlertTypes'
    BY <1>1, <2>1, <2>2 DEF Types, AlertTypes
  <2>. QED
    BY <1>0, <1>1, <1>2, <2>1, <2>3 DEF Types
<1>10. CASE UNCHANGED vars
  <2>1. UNCHANGED <<listeners, stream, got, lost, since, cooldowns, sending,
                    heard, now>>
    BY <1>10 DEF vars, streamVars, alertVars
  <2>. QED
    BY <1>0, <1>1, <1>2, <1>3, <2>1 DEF Types
<1>. QED
  BY <1>4, <1>5, <1>6, <1>7, <1>8, <1>9, <1>10

(* Types and the ring hold together: a batch names positions because the   *)
(* ring is the tail of the journal.                                        *)
LEMMA TypeStep ==
  ASSUME Types, RingInv, [Next]_vars
  PROVE  Types' /\ RingInv'
<1>1. RingInv'
  BY RingStep
<1>2. Types'
  BY LogTypes, OnEventTypes, OnStreamTypes, QuietTypes DEF Next, Hear
<1>. QED
  BY <1>1, <1>2

(* The first state has the types.                                          *)
LEMMA TypeInit == Init => Types
<1>. SUFFICES ASSUME Init PROVE Types
  OBVIOUS
<1>1. journal = <<>> /\ journal \in Seq(Kinds)
  BY DEF Init
<1>2. listeners \in Seq(Listener)
  BY DEF Init, Listener
<1>3. call \in [Loggers -> Calls]
  BY DEF Init, Calls
<1>4. StreamTypes
  BY AuditTrailAssumption DEF Init, StreamTypes, StreamStates
<1>5. AlertTypes
  BY DEF Init, AlertTypes
<1>. QED
  BY <1>1, <1>2, <1>3, <1>4, <1>5 DEF Types

(* Types, at every step of AuditTrail.                                     *)
THEOREM TypeCorrect == Spec => []TypeOK
<1>1. Types /\ RingInv => TypeOK
  BY DEF Types, RingInv, StreamTypes, AlertTypes, Calls, StreamStates, Listener,
         TypeOK
<1>. QED
  BY <1>1, TypeInit, RingInit, TypeStep, PTL DEF Spec
-----------------------------------------------------------------------------
(* The time of a cooldown is that of the last alert sent under its key.    *)
SentUnder(k) == {e \in heard : e.sent /\ Key(e.pos) = k}

LastSent ==
  \A k \in Kinds :
    /\ \A e \in SentUnder(k) : cooldowns[k] # Never /\ e.at <= cooldowns[k]
    /\ cooldowns[k] # Never => \E e \in SentUnder(k) : e.at = cooldowns[k]

AlertInv == LastSent /\ AlertsPaced /\ HeldBackForCause

(* The invariant speaks of alerts, cooldowns and keys, and of nothing else. *)
LEMMA AlertsIdle ==
  ASSUME AlertInv, UNCHANGED <<cooldowns, heard>>,
         \A e \in heard : Key(e.pos)' = Key(e.pos)
  PROVE  AlertInv'
<1>1. \A k \in Kinds : SentUnder(k)' = SentUnder(k)
  BY DEF SentUnder
<1>2. LastSent'
  BY <1>1 DEF AlertInv, LastSent
<1>3. AlertsPaced' /\ HeldBackForCause'
  BY DEF AlertInv, AlertsPaced, HeldBackForCause
<1>. QED
  BY <1>2, <1>3 DEF AlertInv

(* An event logged is a new position: the keys of older ones stay.         *)
LEMMA LogKeepsAlerts ==
  ASSUME Types, AlertInv, NEW g \in Loggers, NEW k \in Kinds, Log(g, k)
  PROVE  AlertInv'
<1>1. journal' = Append(journal, k) /\ UNCHANGED <<cooldowns, heard>>
  BY DEF Log, alertVars
<1>2. \A p \in Positions : journal'[p] = journal[p]
  BY <1>1 DEF Types, Positions
<1>3. \A e \in heard : Key(e.pos)' = Key(e.pos)
  BY <1>1, <1>2 DEF Types, AlertTypes, Key
<1>. QED
  BY <1>1, <1>3, AlertsIdle

(* onEvent lets an alert through: the last one was the cooldown ago.       *)
LEMMA SendsAlert ==
  ASSUME Types, AlertInv, NEW k \in Kinds, Cool(k), NEW d, d.sent,
         d.at = now, Key(d.pos) = k, UNCHANGED journal,
         heard' = heard \cup {d}, cooldowns' = [cooldowns EXCEPT ![k] = now]
  PROVE  AlertInv'
<1>0. \A e : Key(e.pos)' = Key(e.pos)
  BY DEF Key
<1>1. SentUnder(k)' = SentUnder(k) \cup {d}
  BY <1>0 DEF SentUnder
<1>2. \A j \in Kinds \ {k} : SentUnder(j)' = SentUnder(j)
  BY <1>0 DEF SentUnder
<1>3. now \in Nat /\ now # Never /\ now <= now
  BY DEF Types, AlertTypes, Never
<1>4. ASSUME NEW e \in SentUnder(k)
      PROVE  e.at \in Nat /\ e.at <= now /\ now - e.at >= Cooldown
  <2>1. cooldowns[k] # Never /\ e.at <= cooldowns[k]
    BY DEF AlertInv, LastSent
  <2>2. cooldowns[k] \in 0..now
    BY <2>1 DEF Types, AlertTypes
  <2>3. now - cooldowns[k] >= Cooldown
    BY <2>1 DEF Cool
  <2>4. e.at \in Nat
    BY <1>3 DEF SentUnder, Types, AlertTypes
  <2>. QED
    BY <1>3, <2>1, <2>2, <2>3, <2>4, AuditTrailAssumption
<1>5. LastSent'
  <2>1. /\ cooldowns'[k] = now
        /\ \A j \in Kinds \ {k} : cooldowns'[j] = cooldowns[j]
    BY DEF Types, AlertTypes
  <2>2. \A e \in SentUnder(k)' : cooldowns'[k] # Never /\ e.at <= cooldowns'[k]
    BY <1>1, <1>3, <1>4, <2>1
  <2>3. \E e \in SentUnder(k)' : e.at = cooldowns'[k]
    BY <1>1, <2>1
  <2>4. ASSUME NEW j \in Kinds \ {k}
        PROVE  /\ \A e \in SentUnder(j)' :
                    cooldowns'[j] # Never /\ e.at <= cooldowns'[j]
               /\ cooldowns'[j] # Never
                    => \E e \in SentUnder(j)' : e.at = cooldowns'[j]
    BY <1>2, <2>1 DEF AlertInv, LastSent
  <2>. QED
    BY <2>2, <2>3, <2>4 DEF LastSent
<1>6. AlertsPaced'
  <2>1. SUFFICES ASSUME NEW e \in heard', NEW f \in heard', e # f,
                        e.sent, f.sent, Key(e.pos) = Key(f.pos)
                 PROVE  e.at - f.at >= Cooldown \/ f.at - e.at >= Cooldown
    BY <1>0 DEF AlertsPaced
  <2>2. CASE e \in heard /\ f \in heard
    BY <2>1, <2>2 DEF AlertInv, AlertsPaced
  <2>3. CASE e = d /\ f \in heard
    <3>1. f \in SentUnder(k)
      BY <2>1, <2>3 DEF SentUnder
    <3>. QED
      BY <1>4, <2>3, <3>1
  <2>4. CASE f = d /\ e \in heard
    <3>1. e \in SentUnder(k)
      BY <2>1, <2>4 DEF SentUnder
    <3>. QED
      BY <1>4, <2>4, <3>1
  <2>. QED
    BY <2>1, <2>2, <2>3, <2>4
<1>7. HeldBackForCause'
  BY <1>0 DEF AlertInv, HeldBackForCause
<1>. QED
  BY <1>5, <1>6, <1>7 DEF AlertInv

(* onEvent holds an alert back: the last one was less than that ago.       *)
LEMMA HoldsBackAlert ==
  ASSUME Types, AlertInv, NEW k \in Kinds, ~Cool(k), NEW d, ~d.sent,
         d.at = now, Key(d.pos) = k, UNCHANGED <<journal, cooldowns>>,
         heard' = heard \cup {d}
  PROVE  AlertInv'
<1>0. \A e : Key(e.pos)' = Key(e.pos)
  BY DEF Key
<1>1. \A j \in Kinds : SentUnder(j)' = SentUnder(j)
  BY <1>0 DEF SentUnder
<1>2. LastSent'
  BY <1>1 DEF AlertInv, LastSent
<1>3. AlertsPaced'
  BY <1>0 DEF AlertInv, AlertsPaced
<1>4. PICK e \in SentUnder(k) : e.at = cooldowns[k]
  BY DEF AlertInv, LastSent, Cool
<1>5. e \in heard /\ e.sent /\ Key(e.pos) = k
  BY DEF SentUnder
<1>6. e.at <= now /\ now < e.at + Cooldown
  <2>1. cooldowns[k] \in 0..now /\ now \in Nat
    BY DEF Types, AlertTypes, Cool
  <2>2. ~(now - cooldowns[k] >= Cooldown)
    BY DEF Cool
  <2>. QED
    BY <1>4, <2>1, <2>2, AuditTrailAssumption
<1>7. HeldBackForCause'
  <2>1. SUFFICES ASSUME NEW f \in heard', ~f.sent
                 PROVE  \E c \in heard : /\ c.sent /\ Key(c.pos) = Key(f.pos)
                                         /\ c.at <= f.at
                                         /\ f.at < c.at + Cooldown
    BY <1>0 DEF HeldBackForCause
  <2>2. CASE f \in heard
    BY <2>1, <2>2 DEF AlertInv, HeldBackForCause
  <2>3. CASE f = d
    BY <1>5, <1>6, <2>3
  <2>. QED
    BY <2>2, <2>3
<1>. QED
  BY <1>2, <1>3, <1>7 DEF AlertInv

(* onEvent does one, the other or nothing.                                 *)
LEMMA OnEventKeepsAlerts ==
  ASSUME Types, AlertInv, NEW g \in Loggers, OnEvent(g)
  PROVE  AlertInv'
<1>1. call[g].left # <<>> /\ Returns(g) /\ UNCHANGED <<journal, now>>
  BY DEF OnEvent, Calling
<1>2. call[g].pos \in Positions
  BY <1>1, ReturnsTypes DEF Types
<1>3. PICK k \in Kinds : k = Key(call[g].pos)
  BY <1>2 DEF Types, Positions, Key
<1>4. CASE k \notin Alerting
  <2>1. UNCHANGED <<cooldowns, heard>>
    BY <1>3, <1>4 DEF OnEvent, alertVars
  <2>. QED
    BY <1>1, <2>1, AlertsIdle DEF Key
<1>5. CASE k \in Alerting
  <2>1. PICK d : d = [pos |-> call[g].pos, at |-> now, sent |-> Cool(k)]
    OBVIOUS
  <2>2. cooldowns' = Started(k) /\ heard' = heard \cup {d}
    BY <1>3, <1>5, <2>1 DEF OnEvent
  <2>3. d.at = now /\ Key(d.pos) = k /\ d.sent = Cool(k)
    BY <1>3, <2>1
  <2>4. CASE Cool(k)
    <3>1. cooldowns' = [cooldowns EXCEPT ![k] = now]
      BY <2>2, <2>4 DEF Started
    <3>. QED
      BY <1>1, <2>2, <2>3, <2>4, <3>1, SendsAlert
  <2>5. CASE ~Cool(k)
    <3>1. cooldowns' = cooldowns
      BY <2>2, <2>5 DEF Started
    <3>. QED
      BY <1>1, <2>2, <2>3, <2>5, <3>1, HoldsBackAlert
  <2>. QED
    BY <2>4, <2>5
<1>. QED
  BY <1>4, <1>5

(* Every step.                                                             *)
LEMMA AlertStep ==
  ASSUME Types, AlertInv, [Next]_vars
  PROVE  AlertInv'
<1>1. ASSUME NEW g \in Loggers, NEW k \in Kinds, Log(g, k)
      PROVE  AlertInv'
  BY <1>1, LogKeepsAlerts
<1>2. ASSUME NEW g \in Loggers, OnEvent(g)
      PROVE  AlertInv'
  BY <1>2, OnEventKeepsAlerts
<1>3. CASE UNCHANGED <<journal, cooldowns, heard>>
  BY <1>3, AlertsIdle DEF Key
<1>. QED
  BY <1>1, <1>2, <1>3
  DEF Next, Hear, OnStream, Attempt, SendBatch, Register, Receive, HangUp, Tick,
      alertVars, vars

(* At first nothing was heard.                                             *)
LEMMA AlertInit == Init => AlertInv
BY DEF Init, AlertInv, LastSent, SentUnder, AlertsPaced, HeldBackForCause

(* Whatever goroutines log and in whatever order the events come, alerts   *)
(* of one key are the cooldown apart.                                      *)
THEOREM AlertsArePaced == Spec => []AlertsPaced
<1>1. AlertInv => AlertsPaced
  BY DEF AlertInv
<1>. QED
  BY <1>1, TypeInit, RingInit, AlertInit, TypeStep, AlertStep, PTL DEF Spec

(* An alert is held back only behind one that was let through lately.      *)
THEOREM HeldBackRightly == Spec => []HeldBackForCause
<1>1. AlertInv => HeldBackForCause
  BY DEF AlertInv
<1>. QED
  BY <1>1, TypeInit, RingInit, AlertInit, TypeStep, AlertStep, PTL DEF Spec
-----------------------------------------------------------------------------
(* Sequences, by what occurs in them.                                      *)
Occurs(x, q) == \E i \in 1..Len(q) : q[i] = x
Distinct(q) == \A i, j \in 1..Len(q) : i # j => q[i] # q[j]

(* One more at the end.                                                    *)
LEMMA AppendOccurs ==
  ASSUME NEW S, NEW q \in Seq(S), NEW p \in S
  PROVE  /\ \A x : Occurs(x, Append(q, p)) <=> Occurs(x, q) \/ x = p
         /\ Distinct(q) /\ ~Occurs(p, q) => Distinct(Append(q, p))
<1>. DEFINE r == Append(q, p)
<1>1. /\ Len(q) \in Nat /\ Len(r) = Len(q) + 1 /\ r[Len(q) + 1] = p
      /\ \A i \in 1..Len(q) : r[i] = q[i]
  OBVIOUS
<1>. HIDE DEF r
<1>2. \A i \in 1..Len(r) : i \in 1..Len(q) \/ i = Len(q) + 1
  BY <1>1
<1>3. \A x : Occurs(x, r) <=> Occurs(x, q) \/ x = p
  <2>1. ASSUME NEW x, Occurs(x, r)
        PROVE  Occurs(x, q) \/ x = p
    BY <1>1, <1>2, <2>1 DEF Occurs
  <2>2. ASSUME NEW x, Occurs(x, q)
        PROVE  Occurs(x, r)
    BY <1>1, <2>2 DEF Occurs
  <2>3. Occurs(p, r)
    BY <1>1 DEF Occurs
  <2>. QED
    BY <2>1, <2>2, <2>3
<1>4. Distinct(q) /\ ~Occurs(p, q) => Distinct(r)
  BY <1>1, <1>2 DEF Distinct, Occurs
<1>. QED
  BY <1>3, <1>4 DEF r

(* The first one less.                                                     *)
LEMMA TailOccurs ==
  ASSUME NEW S, NEW q \in Seq(S), q # <<>>
  PROVE  /\ \A x : Occurs(x, q) <=> x = Head(q) \/ Occurs(x, Tail(q))
         /\ Distinct(q) => Distinct(Tail(q)) /\ ~Occurs(Head(q), Tail(q))
<1>. DEFINE r == Tail(q)
<1>1. /\ Len(q) \in Nat \ {0} /\ Len(r) = Len(q) - 1 /\ Head(q) = q[1]
      /\ \A i \in 1..Len(r) : r[i] = q[i + 1]
  OBVIOUS
<1>. HIDE DEF r
<1>2. /\ \A i \in 1..Len(q) : i = 1 \/ (i - 1 \in 1..Len(r) /\ r[i - 1] = q[i])
      /\ \A i \in 1..Len(r) : i + 1 \in 1..Len(q)
      /\ 1 \in 1..Len(q)
  BY <1>1
<1>3. \A x : Occurs(x, q) <=> x = Head(q) \/ Occurs(x, r)
  <2>1. ASSUME NEW x, Occurs(x, q)
        PROVE  x = Head(q) \/ Occurs(x, r)
    BY <1>1, <1>2, <2>1 DEF Occurs
  <2>2. ASSUME NEW x, Occurs(x, r)
        PROVE  Occurs(x, q)
    BY <1>1, <1>2, <2>2 DEF Occurs
  <2>3. Occurs(Head(q), q)
    BY <1>1, <1>2 DEF Occurs
  <2>. QED
    BY <2>1, <2>2, <2>3
<1>4. ASSUME Distinct(q)
      PROVE  Distinct(r) /\ ~Occurs(Head(q), r)
  <2>1. Distinct(r)
    BY <1>1, <1>2, <1>4 DEF Distinct
  <2>2. ~Occurs(Head(q), r)
    BY <1>1, <1>2, <1>4 DEF Distinct, Occurs
  <2>. QED
    BY <2>1, <2>2
<1>. QED
  BY <1>3, <1>4 DEF r

(* One after the other.                                                    *)
LEMMA ConcatDistinct ==
  ASSUME NEW S, NEW q \in Seq(S), NEW r \in Seq(S), Distinct(q), Distinct(r),
         \A x : ~(Occurs(x, q) /\ Occurs(x, r))
  PROVE  Distinct(q \o r)
<1>. DEFINE c == q \o r
<1>1. /\ Len(q) \in Nat /\ Len(r) \in Nat /\ Len(c) = Len(q) + Len(r)
      /\ \A i \in 1..Len(c) : c[i] = IF i <= Len(q) THEN q[i] ELSE r[i - Len(q)]
  OBVIOUS
<1>. HIDE DEF c
<1>2. SUFFICES ASSUME NEW i \in 1..Len(c), NEW j \in 1..Len(c), i # j,
                      c[i] = c[j]
               PROVE  FALSE
  BY DEF Distinct, c
<1>3. CASE i <= Len(q) /\ j <= Len(q)
  BY <1>1, <1>2, <1>3 DEF Distinct
<1>4. CASE i > Len(q) /\ j > Len(q)
  <2>1. /\ i - Len(q) \in 1..Len(r) /\ j - Len(q) \in 1..Len(r)
        /\ i - Len(q) # j - Len(q)
        /\ r[i - Len(q)] = r[j - Len(q)]
    BY <1>1, <1>2, <1>4
  <2>. QED
    BY <2>1 DEF Distinct
<1>5. CASE i <= Len(q) /\ j > Len(q)
  <2>1. i \in 1..Len(q) /\ j - Len(q) \in 1..Len(r) /\ q[i] = r[j - Len(q)]
    BY <1>1, <1>2, <1>5
  <2>. QED
    BY <2>1 DEF Occurs
<1>6. CASE i > Len(q) /\ j <= Len(q)
  <2>1. j \in 1..Len(q) /\ i - Len(q) \in 1..Len(r) /\ q[j] = r[i - Len(q)]
    BY <1>1, <1>2, <1>6
  <2>. QED
    BY <2>1 DEF Occurs
<1>. QED
  BY <1>1, <1>2, <1>3, <1>4, <1>5, <1>6

(* What a client got and what waits for it, when an event is sent ...      *)
LEMMA SendLive ==
  ASSUME NEW S, NEW q \in Seq(S), NEW r \in Seq(S), NEW p \in S
  PROVE  q \o Append(r, p) = Append(q \o r, p)
OBVIOUS

(* ... and when one is received: it only changes places.                   *)
LEMMA ReceiveLive ==
  ASSUME NEW S, NEW q \in Seq(S), NEW r \in Seq(S), r # <<>>
  PROVE  Append(q, Head(r)) \o Tail(r) = q \o r
OBVIOUS
-----------------------------------------------------------------------------
(* A stream is registered once, and then stays so.                         *)
Registered(s) == stream[s].pc \in {"open", "gone"}
Pending(g, s) == call[g].left # <<>> /\ Occurs(s, call[g].left)

ListenersOnce ==
  /\ Distinct(listeners)
  /\ \A s \in Streams : Occurs(s, listeners) <=> Registered(s)

(* Two calls are about two events, and each goes through its listeners     *)
(* once.                                                                   *)
CallsOnce ==
  /\ \A g \in Loggers : Distinct(call[g].left)
  /\ \A g, h \in Loggers :
       g # h /\ call[g].left # <<>> /\ call[h].left # <<>>
         => call[g].pos # call[h].pos

(* What is still to be sent to a client was logged after it registered,    *)
(* and has not been sent to it.                                            *)
PendingNew ==
  \A g \in Loggers, s \in Streams :
    Pending(g, s) => /\ Registered(s)
                     /\ since[s] < call[g].pos
                     /\ ~Occurs(call[g].pos, Live(s))

BatchBefore ==
  \A s \in Streams :
    /\ Distinct(stream[s].batch)
    /\ since[s] <= Len(journal)
    /\ Registered(s) => \A p : Occurs(p, stream[s].batch) => p <= since[s]

LiveAfter ==
  \A s \in Streams :
    /\ Distinct(Live(s))
    /\ \A p : Occurs(p, Live(s)) => p > since[s]
    /\ ~Registered(s) => got[s] = <<>> /\ stream[s].ch = <<>>

Accounts(s) ==
  \A p \in since[s] + 1..Len(journal) :
    \/ p \in lost[s]
    \/ Occurs(p, Live(s))
    \/ \E g \in Loggers : call[g].pos = p /\ Pending(g, s)

AllAccounted == \A s \in Streams : Registered(s) => Accounts(s)

StreamInv ==
  /\ ListenersOnce /\ CallsOnce /\ PendingNew
  /\ BatchBefore /\ LiveAfter /\ AllAccounted

(* What a client got, and what waits for it, are events of the journal.    *)
LEMMA LiveType ==
  ASSUME Types, NEW s \in Streams
  PROVE  /\ got[s] \in Seq(Positions) /\ stream[s].ch \in Seq(Positions)
         /\ stream[s].batch \in Seq(Positions) /\ since[s] \in Nat
         /\ Live(s) \in Seq(Positions)
         /\ \A p : Occurs(p, Live(s)) => p \in Positions
         /\ \A p : Occurs(p, stream[s].batch) => p \in Positions
<1>1. /\ got[s] \in Seq(Positions) /\ stream[s].ch \in Seq(Positions)
      /\ stream[s].batch \in Seq(Positions) /\ since[s] \in Nat
  BY DEF Types, StreamTypes, StreamStates
<1>2. Live(s) \in Seq(Positions)
  BY <1>1 DEF Live
<1>. QED
  BY <1>1, <1>2 DEF Occurs

(* The listeners a call has left.                                          *)
LEMMA CallType ==
  ASSUME Types, NEW g \in Loggers
  PROVE  /\ call[g].left \in Seq(Listener)
         /\ call[g].left # <<>> => call[g].pos \in Positions
<1>1. call[g] \in Calls
  BY DEF Types
<1>2. CASE call[g] = NoCall
  <2>1. call[g].left = <<>>
    BY <1>2 DEF NoCall
  <2>2. <<>> \in Seq(Listener)
    OBVIOUS
  <2>. QED
    BY <2>1, <2>2
<1>3. CASE call[g] \in [left : Seq(Listener), pos : Positions]
  BY <1>3
<1>. QED
  BY <1>1, <1>2, <1>3 DEF Calls

(* An event is logged: it is newer than any other, and pending for each    *)
(* client that is registered.                                              *)
LEMMA LogStream ==
  ASSUME Types, StreamInv, NEW g \in Loggers, NEW k \in Kinds, Log(g, k)
  PROVE  StreamInv'
<1>. DEFINE n == Len(journal) + 1
<1>1. /\ Len(journal') = n /\ Len(journal) \in Nat
      /\ call' = [call EXCEPT ![g] = [left |-> listeners, pos |-> n]]
      /\ call[g].left = <<>>
      /\ UNCHANGED <<listeners, stream, got, lost, since>>
  BY DEF Log, streamVars, Types
<1>2. /\ call'[g].left = listeners /\ call'[g].pos = n
      /\ \A h \in Loggers \ {g} : call'[h] = call[h]
  BY <1>1 DEF Types
<1>3. \A s \in Streams : Live(s)' = Live(s) /\ Registered(s)' = Registered(s)
  BY <1>1 DEF Live, Registered
<1>4. \A s \in Streams : Pending(g, s)' => Registered(s)
  BY <1>2 DEF Pending, StreamInv, ListenersOnce
<1>5. \A s \in Streams : Registered(s) => Pending(g, s)'
  BY <1>2 DEF Pending, StreamInv, ListenersOnce, Occurs
<1>6. \A h \in Loggers \ {g}, s \in Streams : Pending(h, s)' <=> Pending(h, s)
  BY <1>2 DEF Pending
<1>7. ListenersOnce'
  BY <1>1, <1>3 DEF StreamInv, ListenersOnce
<1>8. CallsOnce'
  <2>1. \A h \in Loggers : Distinct(call'[h].left)
    BY <1>2 DEF StreamInv, ListenersOnce, CallsOnce
  <2>2. \A h \in Loggers \ {g} : call'[h].left # <<>> => call'[h].pos # n
    BY <1>1, <1>2, CallType DEF Positions
  <2>. QED
    BY <1>2, <2>1, <2>2 DEF StreamInv, CallsOnce
<1>9. PendingNew'
  <2>1. ASSUME NEW s \in Streams, Pending(g, s)'
        PROVE  Registered(s) /\ since[s] < n /\ ~Occurs(n, Live(s))
    <3>1. n \notin Positions /\ since[s] <= Len(journal) /\ since[s] \in Nat
      BY <1>1, LiveType DEF Positions, StreamInv, BatchBefore
    <3>. QED
      BY <1>1, <1>4, <2>1, <3>1, LiveType
  <2>2. ASSUME NEW h \in Loggers \ {g}, NEW s \in Streams, Pending(h, s)'
        PROVE  /\ Registered(s) /\ since[s] < call'[h].pos
               /\ ~Occurs(call'[h].pos, Live(s))
    BY <1>2, <1>6, <2>2 DEF StreamInv, PendingNew
  <2>3. \A s \in Streams : since'[s] = since[s]
    BY <1>1
  <2>4. ASSUME NEW h \in Loggers, NEW s \in Streams, Pending(h, s)'
        PROVE  /\ Registered(s)' /\ since'[s] < call'[h].pos
               /\ ~Occurs(call'[h].pos, Live(s)')
    BY <1>2, <1>3, <2>1, <2>2, <2>3, <2>4
  <2>. QED
    BY <2>4 DEF PendingNew, Occurs
<1>10. BatchBefore'
  <2>1. \A s \in Streams : since[s] \in Nat
    BY LiveType
  <2>. QED
    BY <1>1, <1>3, <2>1 DEF StreamInv, BatchBefore
<1>11. LiveAfter'
  BY <1>1, <1>3 DEF StreamInv, LiveAfter
<1>12. AllAccounted'
  <2>1. ASSUME NEW s \in Streams, Registered(s), NEW p \in since[s] + 1..n
        PROVE  \/ p \in lost[s]
               \/ Occurs(p, Live(s))
               \/ \E h \in Loggers : call'[h].pos = p /\ Pending(h, s)'
    <3>1. CASE p = n
      BY <1>2, <1>5, <2>1, <3>1
    <3>2. CASE p # n
      <4>1. p \in since[s] + 1..Len(journal)
        BY <1>1, <2>1, <3>2, LiveType
      <4>2. ASSUME NEW h \in Loggers, call[h].pos = p, Pending(h, s)
            PROVE  call'[h].pos = p /\ Pending(h, s)'
        <5>1. h # g
          BY <1>1, <4>2 DEF Pending
        <5>. QED
          BY <1>2, <1>6, <4>2, <5>1
      <4>. QED
        BY <2>1, <4>1, <4>2 DEF StreamInv, AllAccounted, Accounts
    <3>. QED
      BY <3>1, <3>2
  <2>. QED
    BY <1>1, <1>3, <2>1 DEF AllAccounted, Accounts
<1>. QED
  BY <1>7, <1>8, <1>9, <1>10, <1>11, <1>12 DEF StreamInv

(* A call that returns has one listener less, and is the call it was.      *)
LEMMA ReturnsStream ==
  ASSUME Types, CallsOnce, NEW g \in Loggers, call[g].left # <<>>, Returns(g)
  PROVE  /\ CallsOnce'
         /\ \A h \in Loggers, s \in Streams :
              Pending(h, s)' => Pending(h, s) /\ call'[h].pos = call[h].pos
         /\ \A h \in Loggers, s \in Streams :
              Pending(h, s) /\ ~(h = g /\ s = Head(call[g].left))
                => Pending(h, s)' /\ call'[h].pos = call[h].pos
         /\ \A s \in Streams : s = Head(call[g].left) => ~Pending(g, s)'
<1>. DEFINE q == call[g].left
<1>1. q \in Seq(Listener) /\ q # <<>>
  BY CallType
<1>2. /\ call'[g].left = Tail(q)
      /\ Tail(q) # <<>> => call'[g].pos = call[g].pos
      /\ \A h \in Loggers \ {g} : call'[h] = call[h]
  BY DEF Returns, Types, NoCall
<1>3. /\ \A x : Occurs(x, q) <=> x = Head(q) \/ Occurs(x, Tail(q))
      /\ Distinct(Tail(q)) /\ ~Occurs(Head(q), Tail(q))
  <2>1. Distinct(q)
    BY DEF CallsOnce
  <2>. HIDE DEF q
  <2>. QED
    BY <1>1, <2>1, TailOccurs
<1>4. ~\E x : Occurs(x, <<>>)
  BY DEF Occurs
<1>5. CallsOnce'
  <2>1. \A h \in Loggers : Distinct(call'[h].left)
    BY <1>2, <1>3 DEF CallsOnce
  <2>2. \A h \in Loggers : call'[h].left # <<>>
          => call[h].left # <<>> /\ call'[h].pos = call[h].pos
    BY <1>1, <1>2
  <2>. QED
    BY <2>1, <2>2 DEF CallsOnce
<1>6. ASSUME NEW s \in Streams
      PROVE  /\ Pending(g, s)' => Pending(g, s) /\ call'[g].pos = call[g].pos
             /\ Pending(g, s) /\ s # Head(q)
                  => Pending(g, s)' /\ call'[g].pos = call[g].pos
             /\ s = Head(q) => ~Pending(g, s)'
  <2>1. Pending(g, s)' <=> Tail(q) # <<>> /\ Occurs(s, Tail(q))
    BY <1>2 DEF Pending
  <2>2. Pending(g, s) <=> Occurs(s, q)
    BY <1>1 DEF Pending
  <2>3. Occurs(s, Tail(q)) => Tail(q) # <<>>
    BY <1>4
  <2>. HIDE DEF q
  <2>. QED
    BY <1>2, <1>3, <2>1, <2>2, <2>3
<1>7. \A h \in Loggers \ {g}, s \in Streams :
        (Pending(h, s)' <=> Pending(h, s)) /\ call'[h].pos = call[h].pos
  BY <1>2 DEF Pending
<1>. QED
  BY <1>5, <1>6, <1>7

(* The alert manager is called: no stream sees any of it.                  *)
LEMMA OnEventStream ==
  ASSUME Types, StreamInv, NEW g \in Loggers, OnEvent(g)
  PROVE  StreamInv'
<1>1. /\ call[g].left # <<>> /\ Returns(g) /\ Head(call[g].left) = "alerts"
      /\ UNCHANGED <<journal, listeners, stream, got, lost, since>>
  BY DEF OnEvent, Calling, streamVars
<1>2. /\ CallsOnce'
      /\ \A h \in Loggers, s \in Streams :
           /\ Pending(h, s)' <=> Pending(h, s)
           /\ Pending(h, s) => call'[h].pos = call[h].pos
  <2>1. "alerts" \notin Streams
    BY AuditTrailAssumption
  <2>. QED
    BY <1>1, <2>1, ReturnsStream DEF StreamInv
<1>3. \A s \in Streams : Live(s)' = Live(s) /\ Registered(s)' = Registered(s)
  BY <1>1 DEF Live, Registered
<1>4. ListenersOnce'
  BY <1>1, <1>3 DEF StreamInv, ListenersOnce
<1>5. PendingNew'
  <2>1. ASSUME NEW h \in Loggers, NEW s \in Streams, Pending(h, s)'
        PROVE  /\ Registered(s)' /\ since'[s] < call'[h].pos
               /\ ~Occurs(call'[h].pos, Live(s)')
    BY <1>1, <1>2, <1>3, <2>1 DEF StreamInv, PendingNew
  <2>. QED
    BY <2>1 DEF PendingNew, Occurs
<1>6. BatchBefore' /\ LiveAfter'
  BY <1>1, <1>3 DEF StreamInv, BatchBefore, LiveAfter
<1>7. AllAccounted'
  <2>1. ASSUME NEW s \in Streams, Registered(s),
               NEW p \in since[s] + 1..Len(journal)
        PROVE  \/ p \in lost[s]
               \/ Occurs(p, Live(s))
               \/ \E h \in Loggers : call'[h].pos = p /\ Pending(h, s)'
    BY <1>2, <2>1 DEF StreamInv, AllAccounted, Accounts
  <2>. QED
    BY <1>1, <1>3, <2>1 DEF AllAccounted, Accounts
<1>. QED
  BY <1>2, <1>4, <1>5, <1>6, <1>7 DEF StreamInv

(* The listener of a stream is called: the event is sent to the client,    *)
(* or counted as lost, and no longer pending for it.                       *)
LEMMA OnStreamStream ==
  ASSUME Types, StreamInv, NEW g \in Loggers, NEW s \in Streams, OnStream(g, s)
  PROVE  StreamInv'
<1>1. /\ call[g].left # <<>> /\ Returns(g) /\ Head(call[g].left) = s
      /\ Sends(g, s)
      /\ UNCHANGED <<journal, listeners, got, since>>
  BY DEF OnStream, Calling
<1>2. /\ CallsOnce'
      /\ \A h \in Loggers, x \in Streams :
           Pending(h, x)' => Pending(h, x) /\ call'[h].pos = call[h].pos
      /\ \A h \in Loggers, x \in Streams :
           Pending(h, x) /\ ~(h = g /\ x = s)
             => Pending(h, x)' /\ call'[h].pos = call[h].pos
      /\ ~Pending(g, s)'
  BY <1>1, ReturnsStream DEF StreamInv
<1>3. Pending(g, s)
  <2>1. call[g].left \in Seq(Listener) /\ call[g].left # <<>>
    BY <1>1, CallType
  <2>2. Occurs(Head(call[g].left), call[g].left)
    BY <2>1, TailOccurs
  <2>. QED
    BY <1>1, <2>2 DEF Pending
<1>. DEFINE p == call[g].pos
<1>4. /\ Registered(s) /\ since[s] < p /\ ~Occurs(p, Live(s))
      /\ p \in Positions
  BY <1>1, <1>3, CallType DEF StreamInv, PendingNew
<1>5. ASSUME NEW h \in Loggers, Pending(h, s)'
      PROVE  call'[h].pos # p
  BY <1>2, <1>3, <1>5 DEF StreamInv, CallsOnce, Pending
<1>6. /\ \A x \in Streams : Registered(x)' <=> Registered(x)
      /\ \A x \in Streams : stream'[x].batch = stream[x].batch
      /\ \A x \in Streams \ {s} :
           Live(x)' = Live(x) /\ lost'[x] = lost[x] /\ stream'[x] = stream[x]
      /\ \/ Live(s)' = Append(Live(s), p) /\ lost'[s] = lost[s]
         \/ Live(s)' = Live(s) /\ lost'[s] = lost[s] \cup {p}
  <2>1. CASE Len(stream[s].ch) < ChanCap
    <3>1. /\ stream' = [stream EXCEPT ![s].ch = Append(stream[s].ch, p)]
          /\ lost' = lost
      BY <1>1, <2>1 DEF Sends
    <3>2. got[s] \o Append(stream[s].ch, p) = Append(got[s] \o stream[s].ch, p)
      <4>1. /\ got[s] \in Seq(Positions) /\ stream[s].ch \in Seq(Positions)
            /\ p \in Positions
        BY <1>4, LiveType
      <4>2. \A q, r \in Seq(Positions) : \A e \in Positions :
              q \o Append(r, e) = Append(q \o r, e)
        BY SendLive
      <4>. HIDE DEF p
      <4>. QED
        BY ONLY <4>1, <4>2
    <3>3. /\ stream'[s].ch = Append(stream[s].ch, p)
          /\ stream'[s].pc = stream[s].pc /\ stream'[s].batch = stream[s].batch
          /\ \A x \in Streams \ {s} : stream'[x] = stream[x]
      BY <3>1 DEF Types, StreamTypes, StreamStates
    <3>4. Live(s)' = Append(Live(s), p)
      BY <1>1, <3>2, <3>3 DEF Live
    <3>. HIDE DEF p
    <3>. QED
      BY <1>1, <3>1, <3>3, <3>4 DEF Live, Registered
  <2>2. CASE ~(Len(stream[s].ch) < ChanCap)
    <3>1. stream' = stream /\ lost' = [lost EXCEPT ![s] = @ \cup {p}]
      BY <1>1, <2>2 DEF Sends
    <3>. QED
      BY <1>1, <3>1 DEF Live, Registered, Types, StreamTypes
  <2>. QED
    BY <2>1, <2>2
<1>7. /\ \A x : Occurs(x, Live(s)') => Occurs(x, Live(s)) \/ x = p
      /\ \A x : Occurs(x, Live(s)) => Occurs(x, Live(s)')
      /\ Occurs(p, Live(s)') \/ p \in lost'[s]
      /\ lost[s] \subseteq lost'[s]
      /\ Distinct(Live(s)')
  <2>1. Live(s) \in Seq(Positions) /\ Distinct(Live(s))
    BY LiveType DEF StreamInv, LiveAfter
  <2>2. /\ \A x : Occurs(x, Append(Live(s), p)) <=> Occurs(x, Live(s)) \/ x = p
        /\ Distinct(Append(Live(s), p))
    BY <1>4, <2>1, AppendOccurs
  <2>. HIDE DEF p
  <2>. QED
    BY <1>6, <2>1, <2>2
<1>. HIDE DEF p
<1>8. ListenersOnce'
  BY <1>1, <1>6 DEF StreamInv, ListenersOnce
<1>9. PendingNew'
  <2>1. ASSUME NEW h \in Loggers, NEW x \in Streams, Pending(h, x)'
        PROVE  /\ Registered(x)' /\ since'[x] < call'[h].pos
               /\ ~Occurs(call'[h].pos, Live(x)')
    <3>1. /\ Registered(x) /\ since[x] < call'[h].pos
          /\ ~Occurs(call'[h].pos, Live(x))
      BY <1>2, <2>1 DEF StreamInv, PendingNew
    <3>. QED
      BY <1>1, <1>5, <1>6, <1>7, <2>1, <3>1
  <2>. QED
    BY <2>1 DEF PendingNew, Occurs
<1>10. BatchBefore'
  BY <1>1, <1>6 DEF StreamInv, BatchBefore
<1>11. LiveAfter'
  <2>1. ASSUME NEW x \in Streams
        PROVE  /\ Distinct(Live(x)')
               /\ \A y : Occurs(y, Live(x)') => y > since[x]
               /\ ~Registered(x)' => got'[x] = <<>> /\ stream'[x].ch = <<>>
    <3>1. CASE x = s
      <4>1. since[s] \in Nat /\ p \in Nat
        BY <1>4, LiveType DEF Positions
      <4>2. p > since[s]
        BY <1>4, <4>1
      <4>3. \A y : Occurs(y, Live(s)) => y > since[s]
        BY DEF StreamInv, LiveAfter
      <4>4. \A y : Occurs(y, Live(s)') => y > since[s]
        BY <1>7, <4>2, <4>3
      <4>5. Registered(s)'
        BY <1>4, <1>6
      <4>. QED
        BY <1>7, <3>1, <4>4, <4>5
    <3>2. CASE x # s
      BY <1>1, <1>6, <3>2 DEF StreamInv, LiveAfter
    <3>. QED
      BY <3>1, <3>2
  <2>. QED
    BY <1>1, <2>1 DEF LiveAfter, Occurs, Distinct
<1>12. AllAccounted'
  <2>1. ASSUME NEW x \in Streams, Registered(x),
               NEW y \in since[x] + 1..Len(journal)
        PROVE  \/ y \in lost'[x]
               \/ Occurs(y, Live(x)')
               \/ \E h \in Loggers : call'[h].pos = y /\ Pending(h, x)'
    <3>1. \/ y \in lost[x] \/ Occurs(y, Live(x))
          \/ \E h \in Loggers : call[h].pos = y /\ Pending(h, x)
      BY <2>1 DEF StreamInv, AllAccounted, Accounts
    <3>2. y \in lost[x] => y \in lost'[x]
      BY <1>6, <1>7
    <3>3. Occurs(y, Live(x)) => Occurs(y, Live(x)')
      BY <1>6, <1>7
    <3>4. ASSUME NEW h \in Loggers, call[h].pos = y, Pending(h, x)
          PROVE  \/ y \in lost'[x] \/ Occurs(y, Live(x)')
                 \/ call'[h].pos = y /\ Pending(h, x)'
      <4>1. CASE h = g /\ x = s
        BY <1>7, <3>4, <4>1 DEF p
      <4>2. CASE ~(h = g /\ x = s)
        BY <1>2, <3>4, <4>2
      <4>. QED
        BY <4>1, <4>2
    <3>. QED
      BY <3>1, <3>2, <3>3, <3>4
  <2>. QED
    BY <1>1, <1>6, <2>1 DEF AllAccounted, Accounts, Occurs
<1>. QED
  BY <1>2, <1>8, <1>9, <1>10, <1>11, <1>12 DEF StreamInv

(* The batch names events of the journal, and each once.                   *)
LEMMA BatchOnce ==
  ASSUME Types, RingInv
  PROVE  Distinct(RecentEvents(BatchLimit))
<1>. DEFINE n == IF BatchLimit <= 0 \/ BatchLimit > Held THEN Held ELSE BatchLimit
            r == RecentEvents(BatchLimit)
<1>1. /\ Len(journal) \in Nat /\ RingSize \in Nat \ {0} /\ BatchLimit \in Nat
      /\ Held = IF Len(journal) < RingSize THEN Len(journal) ELSE RingSize
      /\ \A i \in 1..Held : ring[Slot(i)] = Len(journal) + 1 - i
  BY AuditTrailAssumption DEF RingInv, RingIsTail
<1>2. n \in Nat /\ n <= Held /\ Held \in Nat
  BY <1>1
<1>3. r = [i \in 1..n |-> ring[Slot(i)]]
  BY DEF RecentEvents
<1>. HIDE DEF n, r
<1>4. Len(r) = n /\ \A i \in 1..n : r[i] = Len(journal) + 1 - i
  BY <1>1, <1>2, <1>3
<1>. QED
  BY <1>1, <1>2, <1>4 DEF Distinct, r

(* The batch is sent: the client is not registered yet.                    *)
LEMMA SendBatchStream ==
  ASSUME Types, RingInv, StreamInv, NEW s \in Streams, SendBatch(s)
  PROVE  StreamInv'
<1>. DEFINE batch == RecentEvents(BatchLimit)
<1>1. /\ stream[s].pc = "none"
      /\ stream' = [stream EXCEPT ![s].pc = "batched", ![s].batch = batch]
      /\ UNCHANGED <<journal, listeners, call, got, lost, since>>
  BY DEF SendBatch
<1>2. Distinct(batch)
  BY BatchOnce
<1>. HIDE DEF batch
<1>3. /\ stream'[s].pc = "batched" /\ stream'[s].batch = batch
      /\ stream'[s].ch = stream[s].ch
      /\ \A x \in Streams \ {s} : stream'[x] = stream[x]
  BY <1>1 DEF Types, StreamTypes, StreamStates
<1>4. /\ \A x \in Streams : Live(x)' = Live(x)
      /\ \A x \in Streams : Registered(x)' <=> Registered(x)
      /\ ~Registered(s)
  BY <1>1, <1>3 DEF Live, Registered
<1>5. ListenersOnce' /\ CallsOnce'
  BY <1>1, <1>4 DEF StreamInv, ListenersOnce, CallsOnce
<1>6. \A g \in Loggers, x \in Streams : Pending(g, x)' <=> Pending(g, x)
  BY <1>1 DEF Pending
<1>7. PendingNew'
  BY <1>1, <1>4, <1>6 DEF StreamInv, PendingNew
<1>8. BatchBefore'
  BY <1>1, <1>2, <1>3, <1>4 DEF StreamInv, BatchBefore
<1>9. LiveAfter'
  BY <1>1, <1>3, <1>4 DEF StreamInv, LiveAfter
<1>10. AllAccounted'
  BY <1>1, <1>4, <1>6 DEF StreamInv, AllAccounted, Accounts
<1>. QED
  BY <1>5, <1>7, <1>8, <1>9, <1>10 DEF StreamInv

(* The client is registered: nothing is pending for it, and what its batch *)
(* holds is in the journal.                                                *)
LEMMA RegisterStream ==
  ASSUME Types, StreamInv, NEW s \in Streams, Register(s)
  PROVE  StreamInv'
<1>1. /\ stream[s].pc = "batched"
      /\ stream' = [stream EXCEPT ![s].pc = "open"]
      /\ listeners' = Append(listeners, s)
      /\ since' = [since EXCEPT ![s] = Len(journal)]
      /\ UNCHANGED <<journal, call, got, lost>>
  BY DEF Register, CallsUnderWay
<1>2. /\ stream'[s].pc = "open" /\ stream'[s].batch = stream[s].batch
      /\ stream'[s].ch = stream[s].ch /\ since'[s] = Len(journal)
      /\ \A x \in Streams \ {s} : stream'[x] = stream[x] /\ since'[x] = since[x]
  BY <1>1 DEF Types, StreamTypes, StreamStates
<1>3. /\ \A x \in Streams : Live(x)' = Live(x)
      /\ \A x \in Streams \ {s} : Registered(x)' <=> Registered(x)
      /\ ~Registered(s) /\ Registered(s)'
  BY <1>1, <1>2 DEF Live, Registered
<1>4. \A x : ~Occurs(x, Live(s))
  <2>1. got[s] = <<>> /\ stream[s].ch = <<>>
    BY <1>3 DEF StreamInv, LiveAfter
  <2>2. Len(Live(s)) = 0
    BY <2>1 DEF Live
  <2>. QED
    BY <2>2 DEF Occurs
<1>5. ListenersOnce'
  <2>1. listeners \in Seq(Listener) /\ s \in Listener /\ ~Occurs(s, listeners)
    BY <1>3 DEF Types, Listener, StreamInv, ListenersOnce
  <2>2. /\ Distinct(listeners')
        /\ \A x : Occurs(x, listeners') <=> Occurs(x, listeners) \/ x = s
    BY <1>1, <2>1, AppendOccurs DEF StreamInv, ListenersOnce
  <2>. QED
    BY <1>3, <2>2 DEF StreamInv, ListenersOnce, Occurs, Distinct
<1>6. CallsOnce'
  BY <1>1 DEF StreamInv, CallsOnce
<1>7. \A g \in Loggers, x \in Streams : Pending(g, x)' <=> Pending(g, x)
  BY <1>1 DEF Pending
<1>8. PendingNew'
  <2>1. \A g \in Loggers : ~Pending(g, s)
    BY <1>3 DEF StreamInv, PendingNew
  <2>. QED
    BY <1>1, <1>2, <1>3, <1>7, <2>1 DEF StreamInv, PendingNew
<1>9. BatchBefore'
  <2>1. ASSUME NEW p, Occurs(p, stream[s].batch)
        PROVE  p <= Len(journal)
    BY <2>1, LiveType DEF Positions
  <2>2. Len(journal) \in Nat
    BY DEF Types
  <2>3. \A x \in Streams : Distinct(stream'[x].batch)
    BY <1>2 DEF StreamInv, BatchBefore
  <2>4. \A x \in Streams : since'[x] <= Len(journal')
    BY <1>1, <1>2, <2>2 DEF StreamInv, BatchBefore
  <2>5. ASSUME NEW x \in Streams, Registered(x)',
               NEW p, Occurs(p, stream'[x].batch)
        PROVE  p <= since'[x]
    <3>1. CASE x = s
      BY <1>2, <2>1, <2>5, <3>1
    <3>2. CASE x # s
      BY <1>2, <1>3, <2>5, <3>2 DEF StreamInv, BatchBefore
    <3>. QED
      BY <3>1, <3>2
  <2>. QED
    BY <2>3, <2>4, <2>5 DEF BatchBefore, Occurs, Distinct
<1>10. LiveAfter'
  BY <1>1, <1>2, <1>3, <1>4 DEF StreamInv, LiveAfter
<1>11. AllAccounted'
  <2>1. since'[s] + 1..Len(journal') = {}
    <3>1. Len(journal) \in Nat
      BY DEF Types
    <3>. QED
      BY <1>1, <1>2, <3>1
  <2>2. ASSUME NEW x \in Streams \ {s}, Registered(x)
        PROVE  Accounts(x)'
    <3>1. Accounts(x)
      BY <2>2 DEF StreamInv, AllAccounted
    <3>. QED
      BY <1>1, <1>2, <1>3, <1>7, <3>1 DEF Accounts
  <2>3. Accounts(s)'
    BY <2>1 DEF Accounts
  <2>4. \A x \in Streams : Registered(x)' => Accounts(x)'
    BY <1>3, <2>2, <2>3
  <2>. QED
    BY <2>4 DEF AllAccounted, Accounts
<1>. QED
  BY <1>5, <1>6, <1>8, <1>9, <1>10, <1>11 DEF StreamInv

(* The client receives an event, or hangs up: what was sent to it stays.   *)
LEMMA StreamKeeps ==
  ASSUME StreamInv, UNCHANGED <<journal, listeners, call, lost, since>>,
         \A x \in Streams : /\ Live(x)' = Live(x)
                            /\ Registered(x)' <=> Registered(x)
                            /\ stream'[x].batch = stream[x].batch,
         \A x \in Streams : ~Registered(x)
           => got'[x] = <<>> /\ stream'[x].ch = <<>>
  PROVE  StreamInv'
<1>1. \A g \in Loggers, x \in Streams : Pending(g, x)' <=> Pending(g, x)
  BY DEF Pending
<1>2. ListenersOnce' /\ CallsOnce' /\ PendingNew'
  BY <1>1 DEF StreamInv, ListenersOnce, CallsOnce, PendingNew
<1>3. BatchBefore' /\ LiveAfter'
  BY DEF StreamInv, BatchBefore, LiveAfter
<1>4. AllAccounted'
  BY <1>1 DEF StreamInv, AllAccounted, Accounts
<1>. QED
  BY <1>2, <1>3, <1>4 DEF StreamInv

(* Every step.                                                             *)
LEMMA StreamStep ==
  ASSUME Types, RingInv, StreamInv, [Next]_vars
  PROVE  StreamInv'
<1>1. ASSUME NEW g \in Loggers, NEW k \in Kinds, Log(g, k)
      PROVE  StreamInv'
  BY <1>1, LogStream
<1>2. ASSUME NEW g \in Loggers, Hear(g)
      PROVE  StreamInv'
  BY <1>2, OnEventStream, OnStreamStream DEF Hear
<1>3. ASSUME NEW s \in Streams, SendBatch(s) \/ Register(s)
      PROVE  StreamInv'
  BY <1>3, SendBatchStream, RegisterStream
<1>4. ASSUME NEW s \in Streams, Receive(s)
      PROVE  StreamInv'
  <2>1. /\ stream[s].pc = "open" /\ stream[s].ch # <<>>
        /\ stream' = [stream EXCEPT ![s].ch = Tail(stream[s].ch)]
        /\ got' = [got EXCEPT ![s] = Append(got[s], Head(stream[s].ch))]
        /\ UNCHANGED <<journal, listeners, call, lost, since>>
    BY <1>4 DEF Receive
  <2>2. got'[s] \o stream'[s].ch = got[s] \o stream[s].ch
    <3>1. Append(got[s], Head(stream[s].ch)) \o Tail(stream[s].ch)
            = got[s] \o stream[s].ch
      BY <2>1, LiveType, ReceiveLive
    <3>2. /\ stream'[s].ch = Tail(stream[s].ch)
          /\ got'[s] = Append(got[s], Head(stream[s].ch))
      BY <2>1 DEF Types, StreamTypes, StreamStates
    <3>. QED
      BY <3>1, <3>2
  <2>3. \A x \in Streams : /\ stream'[x].pc = stream[x].pc
                           /\ stream'[x].batch = stream[x].batch
    BY <2>1 DEF Types, StreamTypes, StreamStates
  <2>4. \A x \in Streams \ {s} : stream'[x] = stream[x] /\ got'[x] = got[x]
    BY <2>1 DEF Types, StreamTypes
  <2>5. \A x \in Streams : Live(x)' = Live(x) /\ (Registered(x)' <=> Registered(x))
    BY <2>2, <2>3, <2>4 DEF Live, Registered
  <2>6. Registered(s)
    BY <2>1 DEF Registered
  <2>7. \A x \in Streams : ~Registered(x)
          => got'[x] = <<>> /\ stream'[x].ch = <<>>
    BY <2>4, <2>6 DEF StreamInv, LiveAfter
  <2>. QED
    BY <2>1, <2>3, <2>5, <2>7, StreamKeeps
<1>5. ASSUME NEW s \in Streams, HangUp(s)
      PROVE  StreamInv'
  <2>1. /\ stream[s].pc = "open"
        /\ stream' = [stream EXCEPT ![s].pc = "gone"]
        /\ UNCHANGED <<journal, listeners, call, got, lost, since>>
    BY <1>5 DEF HangUp
  <2>2. /\ \A x \in Streams : /\ stream'[x].ch = stream[x].ch
                              /\ stream'[x].batch = stream[x].batch
        /\ \A x \in Streams \ {s} : stream'[x].pc = stream[x].pc
        /\ stream'[s].pc = "gone"
    BY <2>1 DEF Types, StreamTypes, StreamStates
  <2>3. \A x \in Streams : Live(x)' = Live(x) /\ (Registered(x)' <=> Registered(x))
    BY <2>1, <2>2 DEF Live, Registered
  <2>4. \A x \in Streams : ~Registered(x)
          => got'[x] = <<>> /\ stream'[x].ch = <<>>
    BY <2>1, <2>2 DEF StreamInv, LiveAfter
  <2>. QED
    BY <2>1, <2>2, <2>3, <2>4, StreamKeeps
<1>6. CASE UNCHANGED <<journal, listeners, call, streamVars>>
  <2>1. UNCHANGED <<journal, listeners, call, stream, got, lost, since>>
    BY <1>6 DEF streamVars
  <2>2. \A x \in Streams : ~Registered(x)
          => got'[x] = <<>> /\ stream'[x].ch = <<>>
    BY <2>1 DEF StreamInv, LiveAfter
  <2>. QED
    BY <2>1, <2>2, StreamKeeps DEF Live, Registered
<1>. QED
  BY <1>1, <1>2, <1>3, <1>4, <1>5, <1>6 DEF Next, Attempt, Tick, vars

(* The first state.                                                        *)
LEMMA StreamInit == Init => StreamInv
<1>. SUFFICES ASSUME Init PROVE StreamInv
  OBVIOUS
<1>1. /\ listeners = <<"alerts">> /\ journal = <<>>
      /\ \A g \in Loggers : call[g].left = <<>>
      /\ \A s \in Streams : /\ stream[s].pc = "none" /\ stream[s].batch = <<>>
                            /\ stream[s].ch = <<>> /\ got[s] = <<>>
                            /\ since[s] = 0
  BY DEF Init, NoCall
<1>2. Distinct(<<>>) /\ \A x : ~Occurs(x, <<>>)
  BY DEF Distinct, Occurs
<1>3. /\ \A s \in Streams : ~Registered(s) /\ Live(s) = <<>>
      /\ \A g \in Loggers, s \in Streams : ~Pending(g, s)
  BY <1>1 DEF Registered, Live, Pending
<1>4. ListenersOnce
  <2>1. Distinct(listeners) /\ \A x : Occurs(x, listeners) => x = "alerts"
    BY <1>1 DEF Distinct, Occurs
  <2>. QED
    BY <1>3, <2>1, AuditTrailAssumption DEF ListenersOnce
<1>5. CallsOnce /\ PendingNew
  BY <1>1, <1>2, <1>3 DEF CallsOnce, PendingNew
<1>6. BatchBefore /\ LiveAfter /\ AllAccounted
  BY <1>1, <1>2, <1>3 DEF BatchBefore, LiveAfter, AllAccounted
<1>. QED
  BY <1>4, <1>5, <1>6 DEF StreamInv

(* No client is sent an event twice, with any number of goroutines logging *)
(* while it connects.                                                      *)
THEOREM NothingTwice == Spec => []NoneTwice
<1>1. Types /\ StreamInv => NoneTwice
  <2>. SUFFICES ASSUME Types, StreamInv, NEW s \in Streams
                PROVE  Distinct(stream[s].batch \o Live(s))
    BY DEF NoneTwice, Distinct
  <2>1. /\ stream[s].batch \in Seq(Positions) /\ Live(s) \in Seq(Positions)
        /\ since[s] \in Nat
    BY LiveType
  <2>2. Distinct(stream[s].batch) /\ Distinct(Live(s))
    BY DEF StreamInv, BatchBefore, LiveAfter
  <2>3. ASSUME NEW x, Occurs(x, stream[s].batch), Occurs(x, Live(s))
        PROVE  FALSE
    <3>1. x \in Positions /\ x > since[s]
      BY <2>3, LiveType DEF StreamInv, LiveAfter
    <3>2. CASE Registered(s)
      <4>1. x <= since[s]
        BY <2>3, <3>2 DEF StreamInv, BatchBefore
      <4>. QED
        BY <2>1, <3>1, <4>1 DEF Positions
    <3>3. CASE ~Registered(s)
      <4>1. got[s] = <<>> /\ stream[s].ch = <<>>
        BY <3>3 DEF StreamInv, LiveAfter
      <4>. QED
        BY <2>3, <4>1 DEF Live, Occurs
    <3>. QED
      BY <3>2, <3>3
  <2>. QED
    BY <2>1, <2>2, <2>3, ConcatDistinct
<1>. QED
  BY <1>1, TypeInit, RingInit, StreamInit, TypeStep, StreamStep, PTL DEF Spec

(* What is logged once a client is registered reaches it, is on its way,   *)
(* or found its channel full.                                              *)
THEOREM StreamIsAccounted == Spec => []StreamAccounts
<1>1. StreamInv => StreamAccounts
  BY DEF StreamInv, AllAccounted, Accounts, StreamAccounts, Registered, Pending,
         Occurs
<1>. QED
  BY <1>1, TypeInit, RingInit, StreamInit, TypeStep, StreamStep, PTL DEF Spec
=============================================================================
