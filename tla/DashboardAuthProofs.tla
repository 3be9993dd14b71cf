------------------------ MODULE DashboardAuthProofs ------------------------
(***************************************************************************)
(* Proofs about DashboardAuth, for any callers, any finite set of          *)
(* concurrent requests, any limit and any window: types, TriesBounded and  *)
(* LockoutKept.                                                            *)
(***************************************************************************)
EXTENDS DashboardAuth, FiniteSetTheorems, TLAPS

IInv == TypeOK /\ TriesBounded
-----------------------------------------------------------------------------
(* The requests about to count a failure are some of the requests.         *)
LEMMA TryingSets ==
  ASSUME NEW S \in SUBSET Requests
  PROVE  /\ Cardinality(S) \in Nat
         /\ Cardinality(Requests) \in Nat \ {0}
         /\ Cardinality(S) <= Cardinality(Requests)
         /\ \A r \in Requests \ S : Cardinality(S \cup {r}) = Cardinality(S) + 1
         /\ \A r \in S : Cardinality(S \ {r}) = Cardinality(S) - 1
<1>1. IsFiniteSet(Requests) /\ Requests # {}
  BY DashboardAuthAssumption
<1>2. IsFiniteSet(S) /\ Cardinality(S) <= Cardinality(Requests)
  BY <1>1, FS_Subset
<1>3. Cardinality(S) \in Nat /\ Cardinality(Requests) \in Nat
  BY <1>1, <1>2, FS_CardinalityType
<1>4. Cardinality(Requests) # 0
  BY <1>1, FS_EmptySet
<1>5. \A r \in Requests \ S : Cardinality(S \cup {r}) = Cardinality(S) + 1
  BY <1>2, FS_AddElement
<1>6. \A r \in S : Cardinality(S \ {r}) = Cardinality(S) - 1
  BY <1>2, FS_RemoveElement
<1>. QED
  BY <1>2, <1>3, <1>4, <1>5, <1>6

(* An address in the type of a caller.                                     *)
LEMMA CallerType ==
  ASSUME TypeOK, NEW r \in Requests, req[r].pc \notin {"idle"}
  PROVE  /\ req[r].by \in Callers
         /\ Of(r) \in Addresses
<1>1. req[r] \in Busy \cup Done
  BY DEF TypeOK, Idle
<1>2. req[r].by \in Callers
  BY <1>1 DEF Busy, Done
<1>. QED
  BY <1>2, DashboardAuthAssumption DEF Of, Caller

(* What becomes of a request that goes on, or is answered.                 *)
LEMMA MovesType ==
  ASSUME TypeOK, NEW r \in Requests, req[r].pc # "idle",
         \/ \E pc \in {"gate", "record", "clear", "next"} : Goes(r, pc)
         \/ \E status \in {"ok", "401", "403", "429"} : Answers(r, status)
  PROVE  req' \in [Requests -> {Idle} \cup Busy \cup Done]
<1>1. req[r].by \in Callers
  BY CallerType
<1>2. ASSUME NEW pc \in {"gate", "record", "clear", "next"}, Goes(r, pc)
      PROVE  req' \in [Requests -> {Idle} \cup Busy \cup Done]
  BY <1>1, <1>2 DEF Goes, Busy, TypeOK
<1>3. ASSUME NEW status \in {"ok", "401", "403", "429"}, Answers(r, status)
      PROVE  req' \in [Requests -> {Idle} \cup Busy \cup Done]
  BY <1>1, <1>3 DEF Answers, Done, TypeOK
<1>. QED
  BY <1>2, <1>3

(* The token check lets through, counts or turns away.                     *)
LEMMA CheckTokenMoves ==
  ASSUME NEW r, CheckToken(r)
  PROVE  Answers(r, "401") \/ Goes(r, "clear") \/ Goes(r, "record")
BY DEF CheckToken

(* A record, whatever happens to it.                                       *)
LEMMA RecordType ==
  ASSUME NEW f \in [count : Nat, age : 0..Old]
  PROVE  /\ NoRecord \in [count : Nat, age : 0..Old]
         /\ Counted(f) \in [count : Nat, age : 0..Old]
         /\ Cleared(f) \in [count : Nat, age : 0..Old]
         /\ Aged(f) \in [count : Nat, age : 0..Old]
BY DashboardAuthAssumption DEF NoRecord, Counted, Cleared, Aged, Old

(* Every step keeps the types.                                             *)
LEMMA TypeStep ==
  ASSUME TypeOK, [Next]_vars
  PROVE  TypeOK'
<1>1. ASSUME NEW r \in Requests, NEW c \in Callers, Arrive(r, c)
      PROVE  TypeOK'
  <2>1. req' \in [Requests -> {Idle} \cup Busy \cup Done]
    BY <1>1 DEF Arrive, TypeOK, Busy
  <2>. QED
    BY <1>1, <2>1 DEF Arrive, TypeOK
<1>2. ASSUME NEW r \in Requests, Gate(r)
      PROVE  TypeOK'
  <2>1. req[r].pc # "idle" /\ Of(r) \in Addresses
    BY <1>2, CallerType DEF Gate, At
  <2>2. Answers(r, "401") \/ Answers(r, "429") \/ Goes(r, "clear")
          \/ Goes(r, "record")
    BY <1>2, CheckTokenMoves DEF Gate
  <2>3. req' \in [Requests -> {Idle} \cup Busy \cup Done]
    BY <2>1, <2>2, MovesType
  <2>4. failTracker' = failTracker
          \/ failTracker' = [failTracker EXCEPT ![Of(r)] = NoRecord]
    BY <1>2 DEF Gate
  <2>5. failTracker' \in [Addresses -> [count : Nat, age : 0..Old]]
    BY <2>1, <2>4, RecordType DEF TypeOK
  <2>. QED
    BY <2>3, <2>5 DEF TypeOK
<1>3. ASSUME NEW r \in Requests, RecordFailure(r)
      PROVE  TypeOK'
  <2>1. req[r].pc # "idle" /\ Of(r) \in Addresses
    BY <1>3, CallerType DEF RecordFailure, At
  <2>2. req' \in [Requests -> {Idle} \cup Busy \cup Done]
    BY <1>3, <2>1, MovesType DEF RecordFailure
  <2>3. failTracker' \in [Addresses -> [count : Nat, age : 0..Old]]
    BY <1>3, <2>1, RecordType DEF RecordFailure, TypeOK
  <2>. QED
    BY <2>2, <2>3 DEF TypeOK
<1>4. ASSUME NEW r \in Requests, ClearFailures(r)
      PROVE  TypeOK'
  <2>1. req[r].pc # "idle" /\ Of(r) \in Addresses
    BY <1>4, CallerType DEF ClearFailures, At
  <2>2. req' \in [Requests -> {Idle} \cup Busy \cup Done]
    BY <1>4, <2>1, MovesType DEF ClearFailures
  <2>3. failTracker' \in [Addresses -> [count : Nat, age : 0..Old]]
    BY <1>4, <2>1, RecordType DEF ClearFailures, TypeOK
  <2>. QED
    BY <2>2, <2>3 DEF TypeOK
<1>5. ASSUME NEW r \in Requests, NextHandler(r)
      PROVE  TypeOK'
  <2>1. req[r].pc # "idle"
    BY <1>5 DEF NextHandler, At
  <2>2. Answers(r, "ok") \/ Answers(r, "401") \/ Answers(r, "403")
    BY <1>5 DEF NextHandler
  <2>3. req' \in [Requests -> {Idle} \cup Busy \cup Done]
    BY <2>1, <2>2, MovesType
  <2>. QED
    BY <1>5, <2>3 DEF NextHandler, TypeOK
<1>6. CASE Tick
  BY <1>6, RecordType DEF Tick, TypeOK
<1>7. CASE UNCHANGED vars
  BY <1>7 DEF vars, TypeOK
<1>. QED
  BY <1>1, <1>2, <1>3, <1>4, <1>5, <1>6, <1>7 DEF Next, Serve

(* Types, at every step of DashboardAuth.                                  *)
THEOREM TypeCorrect == Spec => []TypeOK
<1>1. Init => TypeOK
  BY DashboardAuthAssumption DEF Init, TypeOK, NoRecord, Idle, Old
<1>. QED
  BY <1>1, TypeStep, PTL DEF Spec

-----------------------------------------------------------------------------
(* A step of a request that is not about to count a failure, and will not  *)
(* be, leaves those that are as they were.                                 *)
LEMMA OthersTry ==
  ASSUME TypeOK, NEW r \in Requests, ~At("record", r),
         NEW v, req' = [req EXCEPT ![r] = v], v.pc # "record", NEW ip
  PROVE  Trying(ip)' = Trying(ip)
BY DEF TypeOK, Trying, At, Of

(* ... an answer, in particular,                                           *)
LEMMA AnswersOthersTry ==
  ASSUME TypeOK, NEW r \in Requests, ~At("record", r),
         NEW status, Answers(r, status), NEW ip
  PROVE  Trying(ip)' = Trying(ip)
<1>. DEFINE v == [pc |-> "done", by |-> req[r].by, answer |-> status]
<1>1. req' = [req EXCEPT ![r] = v] /\ v.pc # "record"
  BY DEF Answers
<1>. HIDE DEF v
<1>. QED
  BY <1>1, OthersTry

(* or going on to another point.                                           *)
LEMMA GoesOthersTry ==
  ASSUME TypeOK, NEW r \in Requests, ~At("record", r),
         NEW pc, pc # "record", Goes(r, pc), NEW ip
  PROVE  Trying(ip)' = Trying(ip)
<1>. DEFINE v == [pc |-> pc, by |-> req[r].by]
<1>1. req' = [req EXCEPT ![r] = v] /\ v.pc # "record"
  BY DEF Goes
<1>. HIDE DEF v
<1>. QED
  BY <1>1, OthersTry

(* A refused token makes its request one of them ...                       *)
LEMMA StartsTrying ==
  ASSUME TypeOK, NEW r \in Requests, At("gate", r), Goes(r, "record"),
         NEW ip
  PROVE  /\ r \notin Trying(ip)
         /\ Of(r) = ip => Trying(ip)' = Trying(ip) \cup {r}
         /\ Of(r) # ip => Trying(ip)' = Trying(ip)
BY DEF TypeOK, Trying, At, Of, Goes

(* ... until the failure is counted.                                       *)
LEMMA StopsTrying ==
  ASSUME TypeOK, NEW r \in Requests, At("record", r), Answers(r, "403"),
         NEW ip
  PROVE  /\ Of(r) = ip => r \in Trying(ip) /\ Trying(ip)' = Trying(ip) \ {r}
         /\ Of(r) # ip => Trying(ip)' = Trying(ip)
BY DEF TypeOK, Trying, At, Of, Answers

(* The bound on one address, kept by what happens to its record and its    *)
(* requests.                                                               *)
Bound(ip) ==
  failTracker[ip].count + Cardinality(Trying(ip))
    <= MaxFails - 1 + Cardinality(Requests)

(* The bound survives where neither has grown.                             *)
LEMMA BoundKept ==
  ASSUME TypeOK, TypeOK', NEW ip \in Addresses, Bound(ip),
         failTracker'[ip].count <= failTracker[ip].count,
         Trying(ip)' = Trying(ip)
  PROVE  Bound(ip)'
<1>1. Trying(ip) \in SUBSET Requests
  BY DEF Trying
<1>2. Cardinality(Trying(ip)) \in Nat /\ Cardinality(Requests) \in Nat
  BY <1>1, TryingSets
<1>3. failTracker[ip].count \in Nat /\ failTracker'[ip].count \in Nat
  BY DEF TypeOK
<1>. QED
  BY <1>2, <1>3, DashboardAuthAssumption DEF Bound

(* It holds of a record that starts anew, whoever is about to count.       *)
LEMMA BoundAnew ==
  ASSUME NEW ip \in Addresses, failTracker'[ip].count = 0
  PROVE  Bound(ip)'
<1>1. Trying(ip)' \in SUBSET Requests
  BY DEF Trying
<1>2. /\ Cardinality(Trying(ip)') \in Nat /\ Cardinality(Requests) \in Nat
      /\ Cardinality(Trying(ip)') <= Cardinality(Requests)
  BY <1>1, TryingSets
<1>. QED
  BY <1>2, DashboardAuthAssumption DEF Bound

(* The gate lets a wrong token past only below the limit, so that one more *)
(* request is about to count at most: however many are, the limit is met.  *)
LEMMA GateBound ==
  ASSUME TypeOK, TypeOK', NEW r \in Requests, Gate(r), TriesBounded
  PROVE  TriesBounded'
<1>1. At("gate", r) /\ ~At("record", r) /\ Of(r) \in Addresses
  BY CallerType DEF Gate, At
<1>2. SUFFICES ASSUME NEW ip \in Addresses PROVE Bound(ip)'
  BY DEF TriesBounded, Bound
<1>3. Bound(ip)
  BY DEF TriesBounded, Bound
<1>4. CASE Expired(Of(r))
  <2>1. /\ failTracker' = [failTracker EXCEPT ![Of(r)] = NoRecord]
        /\ CheckToken(r)
    BY <1>4 DEF Gate
  <2>2. CASE ip = Of(r)
    <3>1. failTracker'[ip].count = 0
      BY <1>1, <2>1, <2>2 DEF TypeOK, NoRecord
    <3>. QED
      BY <3>1, BoundAnew
  <2>3. CASE ip # Of(r)
    <3>1. failTracker'[ip] = failTracker[ip]
      BY <1>1, <2>1, <2>3 DEF TypeOK
    <3>2. Trying(ip)' = Trying(ip)
      <4>1. CASE Goes(r, "record")
        BY <1>1, <2>3, <4>1, StartsTrying
      <4>2. CASE Answers(r, "401") \/ Goes(r, "clear")
        BY <1>1, <4>2, AnswersOthersTry, GoesOthersTry
      <4>. QED
        BY <2>1, <4>1, <4>2, CheckTokenMoves
    <3>3. failTracker[ip].count \in Nat
      BY DEF TypeOK
    <3>. QED
      BY <1>3, <3>1, <3>2, <3>3, BoundKept
  <2>. QED
    BY <2>2, <2>3
<1>5. CASE ~Expired(Of(r)) /\ Locked(Of(r))
  <2>1. Answers(r, "429") /\ failTracker' = failTracker
    BY <1>5 DEF Gate
  <2>2. Trying(ip)' = Trying(ip)
    BY <1>1, <2>1, AnswersOthersTry
  <2>3. failTracker[ip].count \in Nat
    BY DEF TypeOK
  <2>. QED
    BY <1>3, <2>1, <2>2, <2>3, BoundKept
<1>6. CASE ~Expired(Of(r)) /\ ~Locked(Of(r))
  <2>1. CheckToken(r) /\ failTracker' = failTracker
    BY <1>6 DEF Gate
  <2>2. failTracker[ip].count \in Nat
    BY DEF TypeOK
  <2>3. CASE Goes(r, "record") /\ ip = Of(r)
    <3>1. r \notin Trying(ip) /\ Trying(ip)' = Trying(ip) \cup {r}
      BY <1>1, <2>3, StartsTrying
    <3>2. Trying(ip) \in SUBSET Requests /\ Trying(ip)' \in SUBSET Requests
      BY DEF Trying
    <3>3. /\ Cardinality(Trying(ip)') \in Nat /\ Cardinality(Requests) \in Nat
          /\ Cardinality(Trying(ip)') <= Cardinality(Requests)
      BY <3>2, TryingSets
    <3>4. failTracker'[ip].count <= MaxFails - 1
      BY <1>6, <2>1, <2>2, <2>3, DashboardAuthAssumption DEF Locked
    <3>5. failTracker'[ip].count \in Nat
      BY <2>1, <2>2
    <3>. QED
      BY <3>3, <3>4, <3>5, DashboardAuthAssumption DEF Bound
  <2>4. CASE ~(Goes(r, "record") /\ ip = Of(r))
    <3>1. Trying(ip)' = Trying(ip)
      <4>1. CASE Goes(r, "record")
        BY <1>1, <2>4, <4>1, StartsTrying
      <4>2. CASE Answers(r, "401") \/ Goes(r, "clear")
        BY <1>1, <4>2, AnswersOthersTry, GoesOthersTry
      <4>. QED
        BY <2>1, <4>1, <4>2, CheckTokenMoves
    <3>. QED
      BY <1>3, <2>1, <2>2, <3>1, BoundKept
  <2>. QED
    BY <2>3, <2>4
<1>. QED
  BY <1>4, <1>5, <1>6

(* A failure that is counted was about to be.                              *)
LEMMA RecordBound ==
  ASSUME TypeOK, TypeOK', NEW r \in Requests, RecordFailure(r), TriesBounded
  PROVE  TriesBounded'
<1>1. /\ At("record", r) /\ Of(r) \in Addresses
      /\ failTracker' = [failTracker EXCEPT ![Of(r)] = Counted(@)]
      /\ Answers(r, "403")
  BY CallerType DEF RecordFailure, At
<1>2. SUFFICES ASSUME NEW ip \in Addresses PROVE Bound(ip)'
  BY DEF TriesBounded, Bound
<1>3. Bound(ip)
  BY DEF TriesBounded, Bound
<1>4. failTracker[ip].count \in Nat
  BY DEF TypeOK
<1>5. CASE ip = Of(r)
  <2>1. r \in Trying(ip) /\ Trying(ip)' = Trying(ip) \ {r}
    BY <1>1, <1>5, StopsTrying
  <2>2. Trying(ip) \in SUBSET Requests
    BY DEF Trying
  <2>3. /\ Cardinality(Trying(ip)') = Cardinality(Trying(ip)) - 1
        /\ Cardinality(Trying(ip)) \in Nat /\ Cardinality(Requests) \in Nat
        /\ Cardinality(Trying(ip)) <= Cardinality(Requests)
    BY <2>1, <2>2, TryingSets
  <2>4. \/ failTracker'[ip].count = failTracker[ip].count + 1
        \/ failTracker'[ip].count = 1
    BY <1>1, <1>5 DEF TypeOK, Counted
  <2>. QED
    BY <1>3, <1>4, <2>3, <2>4, DashboardAuthAssumption DEF Bound
<1>6. CASE ip # Of(r)
  <2>1. failTracker'[ip] = failTracker[ip] /\ Trying(ip)' = Trying(ip)
    BY <1>1, <1>6, StopsTrying DEF TypeOK
  <2>. QED
    BY <1>3, <1>4, <2>1, BoundKept
<1>. QED
  BY <1>5, <1>6

(* Clearing, the handler, arrivals and time count nothing.                 *)
LEMMA RestBound ==
  ASSUME TypeOK, TypeOK', TriesBounded,
         \/ \E r \in Requests : ClearFailures(r) \/ NextHandler(r)
         \/ \E r \in Requests, c \in Callers : Arrive(r, c)
         \/ Tick \/ UNCHANGED vars
  PROVE  TriesBounded'
<1>1. SUFFICES ASSUME NEW ip \in Addresses PROVE Bound(ip)'
  BY DEF TriesBounded, Bound
<1>2. Bound(ip) /\ failTracker[ip].count \in Nat
  BY DEF TriesBounded, Bound, TypeOK
<1>3. ASSUME NEW r \in Requests, ClearFailures(r)
      PROVE  Bound(ip)'
  <2>1. /\ ~At("record", r) /\ Of(r) \in Addresses
        /\ failTracker' = [failTracker EXCEPT ![Of(r)] = Cleared(@)]
        /\ Goes(r, "next")
    BY <1>3, CallerType DEF ClearFailures, At
  <2>2. Trying(ip)' = Trying(ip)
    BY <2>1, GoesOthersTry
  <2>3. failTracker'[ip].count = 0 \/ failTracker'[ip] = failTracker[ip]
    BY <2>1 DEF TypeOK, Cleared, NoRecord
  <2>. QED
    BY <1>2, <2>2, <2>3, BoundKept
<1>4. ASSUME NEW r \in Requests, NextHandler(r)
      PROVE  Bound(ip)'
  <2>1. ~At("record", r) /\ failTracker' = failTracker
    BY <1>4 DEF NextHandler, At
  <2>2. \E status : Answers(r, status)
    BY <1>4 DEF NextHandler
  <2>3. Trying(ip)' = Trying(ip)
    BY <2>1, <2>2, AnswersOthersTry
  <2>. QED
    BY <1>2, <2>1, <2>3, BoundKept
<1>5. ASSUME NEW r \in Requests, NEW c \in Callers, Arrive(r, c)
      PROVE  Bound(ip)'
  <2>1. ~At("record", r) /\ failTracker' = failTracker
    BY <1>5 DEF Arrive, At
  <2>. DEFINE v == [pc |-> IF TokenSet /\ c.path # "asset"
                           THEN "gate" ELSE "next",
                    by |-> c]
  <2>2. req' = [req EXCEPT ![r] = v] /\ v.pc # "record"
    BY <1>5 DEF Arrive
  <2>. HIDE DEF v
  <2>3. Trying(ip)' = Trying(ip)
    BY <2>1, <2>2, OthersTry
  <2>. QED
    BY <1>2, <2>1, <2>3, BoundKept
<1>6. CASE Tick
  <2>1. failTracker'[ip].count = failTracker[ip].count
    BY <1>6 DEF Tick, Aged, TypeOK
  <2>2. Trying(ip)' = Trying(ip)
    BY <1>6 DEF Tick, Trying, At, Of
  <2>. QED
    BY <1>2, <2>1, <2>2, BoundKept
<1>7. CASE UNCHANGED vars
  <2>1. Trying(ip)' = Trying(ip) /\ failTracker' = failTracker
    BY <1>7 DEF vars, Trying, At, Of
  <2>. QED
    BY <1>2, <2>1, BoundKept
<1>. QED
  BY <1>3, <1>4, <1>5, <1>6, <1>7

(* For any number of concurrent requests, the failures of an address, and  *)
(* those about to be counted, exceed the limit by less than the requests   *)
(* in flight.                                                              *)
THEOREM TriesAreBounded == Spec => []TriesBounded
<1>1. Init => IInv
  <2>1. ASSUME Init, NEW ip \in Addresses
        PROVE  Bound(ip)
    <3>1. Trying(ip) = {} /\ failTracker[ip].count = 0
      BY <2>1 DEF Init, Trying, At, Idle, NoRecord
    <3>2. Cardinality(Trying(ip)) = 0 /\ Cardinality(Requests) \in Nat \ {0}
      BY <3>1, FS_EmptySet, TryingSets
    <3>. QED
      BY <3>1, <3>2, DashboardAuthAssumption DEF Bound
  <2>2. Init => TypeOK
    BY DashboardAuthAssumption DEF Init, TypeOK, NoRecord, Idle, Old
  <2>. QED
    BY <2>1, <2>2 DEF IInv, TriesBounded, Bound
<1>2. IInv /\ [Next]_vars => IInv'
  <2>. SUFFICES ASSUME IInv, [Next]_vars PROVE IInv'
    OBVIOUS
  <2>1. TypeOK'
    BY TypeStep DEF IInv
  <2>2. TriesBounded'
    BY <2>1, GateBound, RecordBound, RestBound DEF IInv, Next, Serve
  <2>. QED
    BY <2>1, <2>2 DEF IInv
<1>3. IInv => TriesBounded
  BY DEF IInv
<1>. QED
  BY <1>1, <1>2, <1>3, PTL DEF Spec

-----------------------------------------------------------------------------
(* The step property LockoutKept, at one address.                          *)
Kept(ip) ==
  LockedNow(ip) /\ ~LockedNow(ip)'
    => \/ failTracker[ip].age = FailWindow
       \/ \E r \in Requests : At("clear", r) /\ Of(r) = ip

(* Only time and the clearing of a record end a lockout in force: the gate *)
(* removes what has expired, and a counted failure prolongs it.            *)
LEMMA KeptStep ==
  ASSUME TypeOK, [Next]_vars, NEW ip \in Addresses
  PROVE  Kept(ip)
<1>. SUFFICES ASSUME LockedNow(ip), ~LockedNow(ip)'
              PROVE  \/ failTracker[ip].age = FailWindow
                     \/ \E r \in Requests : At("clear", r) /\ Of(r) = ip
  BY DEF Kept
<1>1. /\ failTracker[ip] \in [count : Nat, age : 0..Old]
      /\ failTracker[ip].count >= MaxFails /\ failTracker[ip].age # Old
      /\ MaxFails \in Nat \ {0} /\ FailWindow \in Nat
  BY DashboardAuthAssumption DEF LockedNow, Locked, Expired, TypeOK
<1>2. failTracker'[ip] # failTracker[ip]
  BY DEF LockedNow, Locked, Expired
<1>3. ASSUME NEW r \in Requests, Gate(r)
      PROVE  FALSE
  <2>1. \/ Expired(Of(r))
           /\ failTracker' = [failTracker EXCEPT ![Of(r)] = NoRecord]
        \/ failTracker' = failTracker
    BY <1>3 DEF Gate
  <2>2. Expired(ip)
    BY <1>2, <2>1 DEF TypeOK
  <2>. QED
    BY <2>2 DEF LockedNow
<1>4. ASSUME NEW r \in Requests, RecordFailure(r)
      PROVE  FALSE
  <2>1. failTracker' = [failTracker EXCEPT ![Of(r)] = Counted(@)]
    BY <1>4 DEF RecordFailure
  <2>2. failTracker'[ip] = Counted(failTracker[ip])
    BY <1>2, <2>1 DEF TypeOK
  <2>3. /\ failTracker'[ip].count = failTracker[ip].count + 1
        /\ failTracker'[ip].age = 0
    BY <1>1, <2>2 DEF Counted
  <2>. QED
    BY <1>1, <2>3 DEF LockedNow, Locked, Expired, Old
<1>5. ASSUME NEW r \in Requests, ClearFailures(r)
      PROVE  At("clear", r) /\ Of(r) = ip
  <2>1. /\ At("clear", r)
        /\ failTracker' = [failTracker EXCEPT ![Of(r)] = Cleared(@)]
    BY <1>5 DEF ClearFailures
  <2>. QED
    BY <1>2, <2>1 DEF TypeOK
<1>6. CASE Tick
  <2>1. failTracker'[ip] = Aged(failTracker[ip])
    BY <1>6 DEF Tick
  <2>2. /\ failTracker'[ip].count = failTracker[ip].count
        /\ failTracker'[ip].age = failTracker[ip].age + 1
    BY <1>1, <2>1 DEF Aged
  <2>3. failTracker'[ip].age = Old
    BY <1>1, <2>2 DEF LockedNow, Locked, Expired
  <2>. QED
    BY <1>1, <2>2, <2>3 DEF Old
<1>7. \A r \in Requests : ~NextHandler(r) /\ \A c \in Callers : ~Arrive(r, c)
  BY <1>2 DEF NextHandler, Arrive
<1>8. ~UNCHANGED vars
  BY <1>2 DEF vars
<1>. QED
  BY <1>3, <1>4, <1>5, <1>6, <1>7, <1>8 DEF Next, Serve

(* For any callers and any interleaving, a lockout in force ends with the  *)
(* window, or by a right token that had passed the check.                  *)
THEOREM LockoutIsKept == Spec => LockoutKept
<1>1. TypeOK /\ [Next]_vars
        => [\A ip \in Addresses :
              LockedNow(ip) /\ ~LockedNow(ip)'
                => \/ failTracker[ip].age = FailWindow
                   \/ \E r \in Requests : At("clear", r) /\ Of(r) = ip]_vars
  BY KeptStep DEF Kept
<1>. QED
  BY <1>1, TypeCorrect, PTL DEF Spec, LockoutKept
=============================================================================
