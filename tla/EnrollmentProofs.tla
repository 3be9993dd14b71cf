-------------------------- MODULE EnrollmentProofs --------------------------
(***************************************************************************)
(* Proofs about Enrollment, for any tokens, goroutines and limits: types,  *)
(* Accounting, BoundedOvershoot, and that the handlers implement           *)
(* EnrollmentQuota.                                                        *)
(***************************************************************************)
EXTENDS Enrollment, FiniteSetTheorems, TLAPS

InFlight(t) == Counting(t) \cup Creating(t)

(* A token nobody has created yet has no past and no request.              *)
NoPast ==
  \A t \in Tokens :
    row[t] = "none" => /\ maxUses[t] = 0 /\ used[t] = 0 /\ late[t] = 0
                       /\ ~expired[t]
                       /\ InFlight(t) = {}

(* Only the requests that had passed the check when the token was closed   *)
(* create nodes on it afterwards.                                          *)
LateBound ==
  \A t \in Tokens :
    IF Live(t) THEN late[t] = 0
    ELSE late[t] + Cardinality(Creating(t)) <= Cardinality(Handlers)

IInv == TypeOK /\ NoPast /\ Accounting /\ BoundedOvershoot /\ LateBound
-----------------------------------------------------------------------------
(* Sets of goroutines are finite, and no larger than Handlers.             *)
LEMMA HandlerSets ==
  ASSUME NEW S \in SUBSET Handlers
  PROVE  /\ IsFiniteSet(S)
         /\ Cardinality(S) \in Nat
         /\ Cardinality(Handlers) \in Nat \ {0}
         /\ Cardinality(S) <= Cardinality(Handlers)
<1>1. IsFiniteSet(Handlers) /\ Handlers # {}
  BY EnrollmentAssumption
<1>2. /\ IsFiniteSet(S)
      /\ Cardinality(S) <= Cardinality(Handlers)
  BY <1>1, FS_Subset
<1>3. Cardinality(S) \in Nat /\ Cardinality(Handlers) \in Nat
  BY <1>1, <1>2, FS_CardinalityType
<1>4. Cardinality(Handlers) # 0
  BY <1>1, FS_EmptySet
<1>. QED
  BY <1>2, <1>3, <1>4

(* The counting requests of a token are a finite number.                   *)
LEMMA CountingType ==
  ASSUME NEW t
  PROVE  Cardinality(Counting(t)) \in Nat
<1>1. Counting(t) \in SUBSET Handlers
  BY DEF Counting
<1>. QED
  BY <1>1, HandlerSets

(* Every step of the handlers, administrators and the clock keeps types.   *)
LEMMA TypeStep ==
  ASSUME TypeOK, [Next]_vars
  PROVE  TypeOK'
<1>. USE DEF TypeOK, Points, Idle
<1>1. ASSUME NEW t \in Tokens, NEW uses \in Requested, CreateToken(t, uses)
      PROVE  TypeOK'
  <2>1. Normalized(uses) \in Nat \ {0}
    BY EnrollmentAssumption DEF Normalized
  <2>. QED
    BY <1>1, <2>1 DEF CreateToken, countVars
<1>2. ASSUME NEW t \in Tokens, DeleteToken(t)
      PROVE  TypeOK'
  BY <1>2 DEF DeleteToken, countVars
<1>3. ASSUME NEW t \in Tokens, TokenExpires(t)
      PROVE  TypeOK'
  BY <1>3 DEF TokenExpires, countVars
<1>4. ASSUME NEW t \in Tokens, NEW h \in Handlers, TokenAccepted(h, t)
      PROVE  TypeOK'
  BY <1>4 DEF TokenAccepted, tokenVars, countVars
<1>5. ASSUME NEW h \in Handlers, NodeCreated(h)
      PROVE  TypeOK'
  BY <1>5 DEF NodeCreated, At, tokenVars
<1>6. ASSUME NEW h \in Handlers, UseCounted(h)
      PROVE  TypeOK'
  <2>1. PICK t \in Tokens : /\ At(h, "count", t)
                            /\ IncrementTokenUsage(t)
                            /\ job' = [job EXCEPT ![h].pc = "respond"]
                            /\ UNCHANGED <<row, maxUses, expired, created, late>>
    BY <1>6 DEF UseCounted
  <2>2. job' \in [Handlers -> {Idle} \cup [pc : Points, token : Tokens]]
    BY <2>1 DEF At
  <2>3. used' \in [Tokens -> Nat] /\ lost' \in [Tokens -> Nat]
    BY <2>1 DEF IncrementTokenUsage
  <2>. QED
    BY <2>1, <2>2, <2>3
<1>7. ASSUME NEW h \in Handlers, Responded(h)
      PROVE  TypeOK'
  BY <1>7 DEF Responded, tokenVars, countVars
<1>8. ASSUME NEW h \in Handlers, ClientGone(h)
      PROVE  TypeOK'
  BY <1>8 DEF ClientGone, tokenVars
<1>9. CASE Restart
  <2>1. \A t \in Tokens : Cardinality(Counting(t)) \in Nat
    BY CountingType
  <2>. QED
    BY <1>9, <2>1 DEF Restart, tokenVars
<1>10. CASE UNCHANGED vars
  BY <1>10 DEF vars, tokenVars, countVars
<1>. QED
  BY <1>1, <1>2, <1>3, <1>4, <1>5, <1>6, <1>7, <1>8, <1>9, <1>10 DEF Next

(* Types, at every step of Enrollment.                                     *)
THEOREM TypeCorrect == Spec => []TypeOK
<1>1. Init => TypeOK
  BY DEF Init, TypeOK, Idle
<1>. QED
  BY <1>1, TypeStep, PTL DEF Spec

-----------------------------------------------------------------------------
(* The three sets of requests on a token are sets of goroutines.           *)
LEMMA InFlightSets ==
  ASSUME NEW t
  PROVE  /\ Counting(t) \in SUBSET Handlers
         /\ Creating(t) \in SUBSET Handlers
         /\ InFlight(t) \in SUBSET Handlers
         /\ Cardinality(Counting(t)) \in Nat
         /\ Cardinality(Creating(t)) \in Nat
         /\ Cardinality(InFlight(t)) \in Nat
         /\ Cardinality(InFlight(t)) <= Cardinality(Handlers)
         /\ Cardinality(Handlers) \in Nat \ {0}
<1>1. /\ Counting(t) \in SUBSET Handlers
      /\ Creating(t) \in SUBSET Handlers
      /\ InFlight(t) \in SUBSET Handlers
  BY DEF Counting, Creating, InFlight
<1>. QED
  BY <1>1, HandlerSets

(* Adding a goroutine to a set of them, and taking one away.               *)
LEMMA OneMore ==
  ASSUME NEW S \in SUBSET Handlers, NEW h \in Handlers, h \notin S
  PROVE  Cardinality(S \cup {h}) = Cardinality(S) + 1
BY HandlerSets, FS_AddElement

(* ... and taking a member away from it.                                   *)
LEMMA OneLess ==
  ASSUME NEW S \in SUBSET Handlers, NEW h \in S
  PROVE  Cardinality(S \ {h}) = Cardinality(S) - 1
BY HandlerSets, FS_RemoveElement

(* An idle goroutine that takes up a token joins those about to create.    *)
LEMMA AcceptedMoves ==
  ASSUME TypeOK, NEW t \in Tokens, NEW h \in Handlers, TokenAccepted(h, t)
  PROVE  /\ h \notin InFlight(t)
         /\ Creating(t)' = Creating(t) \cup {h}
         /\ InFlight(t)' = InFlight(t) \cup {h}
         /\ \A s \in Tokens \ {t} : Creating(s)' = Creating(s)
         /\ \A s \in Tokens \ {t} : InFlight(s)' = InFlight(s)
         /\ \A s \in Tokens : Counting(s)' = Counting(s)
<1>1. /\ job[h].pc = "idle"
      /\ job' = [job EXCEPT ![h] = [pc |-> "create", token |-> t]]
      /\ job \in [Handlers -> {Idle} \cup [pc : Points, token : Tokens]]
  BY DEF TokenAccepted, Idle, TypeOK
<1>2. /\ h \notin InFlight(t)
      /\ Creating(t)' = Creating(t) \cup {h}
      /\ \A s \in Tokens \ {t} : Creating(s)' = Creating(s)
      /\ \A s \in Tokens : Counting(s)' = Counting(s)
  BY <1>1 DEF InFlight, Counting, Creating, At
<1>. QED
  BY <1>2 DEF InFlight

(* A goroutine that has created its node goes on to count it.              *)
LEMMA CreatedMoves ==
  ASSUME TypeOK, NEW t \in Tokens, NEW h \in Handlers,
         At(h, "create", t), job' = [job EXCEPT ![h].pc = "count"]
  PROVE  /\ h \in Creating(t) /\ h \notin Counting(t)
         /\ Creating(t)' = Creating(t) \ {h}
         /\ Counting(t)' = Counting(t) \cup {h}
         /\ \A s \in Tokens : InFlight(s)' = InFlight(s)
         /\ \A s \in Tokens \ {t} : Creating(s)' = Creating(s)
         /\ \A s \in Tokens \ {t} : Counting(s)' = Counting(s)
<1>1. job[h] \in [pc : Points, token : Tokens]
  BY DEF TypeOK, At, Idle
<1>2. /\ h \in Creating(t) /\ h \notin Counting(t)
      /\ Creating(t)' = Creating(t) \ {h}
      /\ Counting(t)' = Counting(t) \cup {h}
      /\ \A s \in Tokens \ {t} : Creating(s)' = Creating(s)
      /\ \A s \in Tokens \ {t} : Counting(s)' = Counting(s)
  BY <1>1 DEF TypeOK, Counting, Creating, At
<1>. QED
  BY <1>2 DEF InFlight

(* A goroutine that leaves "count", for whatever reason.                   *)
LEMMA CountedMoves ==
  ASSUME TypeOK, NEW t \in Tokens, NEW h \in Handlers, At(h, "count", t),
         \/ job' = [job EXCEPT ![h].pc = "respond"]
         \/ job' = [job EXCEPT ![h] = Idle]
  PROVE  /\ h \in Counting(t) /\ h \in InFlight(t)
         /\ Counting(t)' = Counting(t) \ {h}
         /\ InFlight(t)' = InFlight(t) \ {h}
         /\ \A s \in Tokens : Creating(s)' = Creating(s)
         /\ \A s \in Tokens \ {t} : Counting(s)' = Counting(s)
         /\ \A s \in Tokens \ {t} : InFlight(s)' = InFlight(s)
<1>1. job[h] \in [pc : Points, token : Tokens]
  BY DEF TypeOK, At, Idle
<1>2. /\ h \in Counting(t) /\ h \notin Creating(t)
      /\ Counting(t)' = Counting(t) \ {h}
      /\ \A s \in Tokens : Creating(s)' = Creating(s)
      /\ \A s \in Tokens \ {t} : Counting(s)' = Counting(s)
  BY <1>1 DEF TypeOK, Counting, Creating, At, Idle
<1>. QED
  BY <1>2 DEF InFlight

(* A goroutine that is given up elsewhere leaves no more than "create".    *)
LEMMA AbandonedMoves ==
  ASSUME TypeOK, NEW h \in Handlers, job[h].pc # "count",
         job' = [job EXCEPT ![h] = Idle]
  PROVE  \A s \in Tokens : /\ Counting(s)' = Counting(s)
                           /\ Creating(s)' = Creating(s) \ {h}
                           /\ InFlight(s)' = InFlight(s) \ {h}
<1>1. \A s \in Tokens : /\ Counting(s)' = Counting(s)
                        /\ Creating(s)' = Creating(s) \ {h}
                        /\ h \notin Counting(s)
  BY DEF TypeOK, Counting, Creating, At, Idle
<1>. QED
  BY <1>1 DEF InFlight

(* A subset of the requests is no more of them.                            *)
LEMMA NoMore ==
  ASSUME NEW S \in SUBSET Handlers, NEW T \in SUBSET S
  PROVE  Cardinality(T) <= Cardinality(S)
BY HandlerSets, FS_Subset

-----------------------------------------------------------------------------
(* The initial state satisfies the inductive invariant.                    *)
LEMMA InitInv == Init => IInv
<1>. SUFFICES ASSUME Init PROVE IInv
  OBVIOUS
<1>1. \A t : InFlight(t) = {} /\ Counting(t) = {} /\ Creating(t) = {}
  BY DEF Init, InFlight, Counting, Creating, At, Idle
<1>2. TypeOK
  BY DEF Init, TypeOK, Idle
<1>3. NoPast
  BY <1>1 DEF NoPast, Init
<1>4. Accounting
  BY <1>1, FS_EmptySet DEF Accounting, Init
<1>5. BoundedOvershoot
  BY DEF BoundedOvershoot, Init
<1>6. LateBound
  <2>1. Cardinality(Handlers) \in Nat
    BY InFlightSets
  <2>. QED
    BY <1>1, <2>1, FS_EmptySet DEF LateBound, Live, Init
<1>. QED
  BY <1>2, <1>3, <1>4, <1>5, <1>6 DEF IInv

(* The invariant survives the acceptance of a token: the token was live,   *)
(* and had a use left, in the one read that decides.                       *)
LEMMA AcceptedInv ==
  ASSUME IInv, NEW t \in Tokens, NEW h \in Handlers, TokenAccepted(h, t)
  PROVE  NoPast' /\ Accounting' /\ BoundedOvershoot' /\ LateBound'
<1>. USE DEF IInv, TypeOK
<1>1. /\ Live(t) /\ used[t] < maxUses[t]
      /\ UNCHANGED <<row, maxUses, used, expired, created, lost, late>>
  BY DEF TokenAccepted, Usable, Live, tokenVars, countVars
<1>2. /\ h \notin InFlight(t)
      /\ InFlight(t)' = InFlight(t) \cup {h}
      /\ \A s \in Tokens \ {t} : Creating(s)' = Creating(s)
      /\ \A s \in Tokens \ {t} : InFlight(s)' = InFlight(s)
      /\ \A s \in Tokens : Counting(s)' = Counting(s)
  BY AcceptedMoves
<1>3. NoPast'
  BY <1>1, <1>2 DEF NoPast, Live
<1>4. Accounting'
  BY <1>1, <1>2 DEF Accounting
<1>5. BoundedOvershoot'
  <2>1. /\ Cardinality(InFlight(t)') \in Nat
        /\ Cardinality(InFlight(t)') <= Cardinality(Handlers)
        /\ Cardinality(Handlers) \in Nat
    <3>1. InFlight(t)' \in SUBSET Handlers
      BY <1>2, InFlightSets
    <3>. QED
      BY <3>1, HandlerSets
  <2>2. used'[t] + Cardinality(InFlight(t)')
          <= maxUses'[t] + Cardinality(Handlers) - 1
    BY <1>1, <2>1
  <2>. QED
    BY <1>1, <1>2, <2>2 DEF BoundedOvershoot, InFlight
<1>6. LateBound'
  BY <1>1, <1>2 DEF LateBound, Live
<1>. QED
  BY <1>3, <1>4, <1>5, <1>6

(* CreateNode moves its request from those about to create to those about  *)
(* to count, whatever has become of the token.                             *)
LEMMA CreatedInv ==
  ASSUME IInv, NEW h \in Handlers, NodeCreated(h)
  PROVE  NoPast' /\ Accounting' /\ BoundedOvershoot' /\ LateBound'
<1>. USE DEF IInv, TypeOK
<1>0. PICK t \in Tokens :
        /\ At(h, "create", t)
        /\ created' = [created EXCEPT ![t] = @ + 1]
        /\ late' = [late EXCEPT ![t] = IF Live(t) THEN @ ELSE @ + 1]
        /\ job' = [job EXCEPT ![h].pc = "count"]
        /\ UNCHANGED <<tokenVars, lost>>
  BY DEF NodeCreated
<1>1. UNCHANGED <<row, maxUses, used, expired, lost>>
  BY <1>0 DEF tokenVars
<1>2. /\ h \in Creating(t) /\ h \notin Counting(t)
      /\ Creating(t)' = Creating(t) \ {h}
      /\ Counting(t)' = Counting(t) \cup {h}
      /\ \A s \in Tokens : InFlight(s)' = InFlight(s)
      /\ \A s \in Tokens \ {t} : Creating(s)' = Creating(s)
      /\ \A s \in Tokens \ {t} : Counting(s)' = Counting(s)
  BY <1>0, CreatedMoves
<1>3. NoPast'
  BY <1>0, <1>1, <1>2 DEF NoPast, InFlight
<1>4. Accounting'
  <2>1. Cardinality(Counting(t)') = Cardinality(Counting(t)) + 1
    BY <1>2, OneMore, InFlightSets
  <2>2. Cardinality(Counting(t)) \in Nat
    BY InFlightSets
  <2>3. created'[t] = used'[t] + lost'[t] + Cardinality(Counting(t)')
    BY <1>0, <1>1, <2>1, <2>2 DEF Accounting
  <2>4. ASSUME NEW s \in Tokens, s # t
        PROVE  created'[s] = used'[s] + lost'[s] + Cardinality(Counting(s)')
    BY <1>0, <1>1, <1>2, <2>4 DEF Accounting
  <2>. QED
    BY <2>3, <2>4 DEF Accounting
<1>5. BoundedOvershoot'
  BY <1>1, <1>2 DEF BoundedOvershoot, InFlight
<1>6. LateBound'
  <2>1. Cardinality(Creating(t)') = Cardinality(Creating(t)) - 1
    BY <1>2, OneLess, InFlightSets
  <2>2. \A s \in Tokens : Live(s)' <=> Live(s)
    BY <1>1 DEF Live
  <2>3. ASSUME NEW s \in Tokens, s # t
        PROVE  /\ late'[s] = late[s]
               /\ Cardinality(Creating(s)') = Cardinality(Creating(s))
    BY <1>0, <1>2, <2>3
  <2>4. late'[t] = IF Live(t) THEN late[t] ELSE late[t] + 1
    BY <1>0
  <2>5. /\ Cardinality(Creating(t)) \in Nat
        /\ late[t] \in Nat
    BY InFlightSets
  <2>6. IF Live(t)' THEN late'[t] = 0
        ELSE late'[t] + Cardinality(Creating(t)') <= Cardinality(Handlers)
    BY <2>1, <2>2, <2>4, <2>5 DEF LateBound
  <2>. QED
    BY <2>2, <2>3, <2>6 DEF LateBound
<1>. QED
  BY <1>3, <1>4, <1>5, <1>6

(* A request that leaves "count" is either counted or lost.                *)
LEMMA CountedInv ==
  ASSUME IInv, NEW t \in Tokens, NEW h \in Handlers, At(h, "count", t),
         \/ job' = [job EXCEPT ![h].pc = "respond"] /\ IncrementTokenUsage(t)
         \/ /\ job' = [job EXCEPT ![h] = Idle]
            /\ used' = used /\ lost' = [lost EXCEPT ![t] = @ + 1],
         UNCHANGED <<row, maxUses, expired, created, late>>
  PROVE  NoPast' /\ Accounting' /\ BoundedOvershoot' /\ LateBound'
<1>. USE DEF IInv, TypeOK
<1>1. \/ /\ used' = [used EXCEPT ![t] = @ + 1] /\ lost' = lost
      \/ /\ used' = used /\ lost' = [lost EXCEPT ![t] = @ + 1]
  BY DEF IncrementTokenUsage
<1>2. /\ h \in Counting(t) /\ h \in InFlight(t)
      /\ Counting(t)' = Counting(t) \ {h}
      /\ InFlight(t)' = InFlight(t) \ {h}
      /\ \A s \in Tokens : Creating(s)' = Creating(s)
      /\ \A s \in Tokens \ {t} : Counting(s)' = Counting(s)
      /\ \A s \in Tokens \ {t} : InFlight(s)' = InFlight(s)
  BY CountedMoves
<1>3. NoPast'
  BY <1>1, <1>2 DEF NoPast
<1>4. Accounting'
  <2>1. Cardinality(Counting(t)') = Cardinality(Counting(t)) - 1
    BY <1>2, OneLess, InFlightSets
  <2>2. Cardinality(Counting(t)) \in Nat
    BY InFlightSets
  <2>3. created'[t] = used'[t] + lost'[t] + Cardinality(Counting(t)')
    BY <1>1, <2>1, <2>2 DEF Accounting
  <2>4. ASSUME NEW s \in Tokens, s # t
        PROVE  created'[s] = used'[s] + lost'[s] + Cardinality(Counting(s)')
    BY <1>1, <1>2, <2>4 DEF Accounting
  <2>. QED
    BY <2>3, <2>4 DEF Accounting
<1>5. BoundedOvershoot'
  <2>1. Cardinality(InFlight(t)') = Cardinality(InFlight(t)) - 1
    BY <1>2, OneLess, InFlightSets
  <2>2. row[t] # "none" =>
          used'[t] + Cardinality(InFlight(t)')
            <= maxUses[t] + Cardinality(Handlers) - 1
    BY <1>1, <2>1, InFlightSets DEF BoundedOvershoot, InFlight
  <2>. QED
    BY <1>1, <1>2, <2>2 DEF BoundedOvershoot, InFlight
<1>6. LateBound'
  <2>1. \A s \in Tokens : Live(s)' <=> Live(s)
    BY DEF Live
  <2>. QED
    BY <1>2, <2>1 DEF LateBound
<1>. QED
  BY <1>3, <1>4, <1>5, <1>6

(* Requests that stop elsewhere, one by one or all at a restart, only make *)
(* the sets smaller.                                                       *)
LEMMA SmallerInv ==
  ASSUME IInv,
         \A s \in Tokens : Creating(s)' \subseteq Creating(s),
         \A s \in Tokens : InFlight(s)' \subseteq InFlight(s),
         UNCHANGED <<row, maxUses, used, expired, late>>
  PROVE  NoPast' /\ BoundedOvershoot' /\ LateBound'
<1>. USE DEF IInv, TypeOK
<1>1. \A s \in Tokens :
        /\ Cardinality(InFlight(s)') \in Nat
        /\ Cardinality(InFlight(s)') <= Cardinality(InFlight(s))
        /\ Cardinality(Creating(s)') \in Nat
        /\ Cardinality(Creating(s)') <= Cardinality(Creating(s))
  <2>. SUFFICES ASSUME NEW s \in Tokens
                PROVE  /\ Cardinality(InFlight(s)') \in Nat
                       /\ Cardinality(InFlight(s)') <= Cardinality(InFlight(s))
                       /\ Cardinality(Creating(s)') \in Nat
                       /\ Cardinality(Creating(s)') <= Cardinality(Creating(s))
    OBVIOUS
  <2>1. /\ InFlight(s)' \in SUBSET InFlight(s)
        /\ Creating(s)' \in SUBSET Creating(s)
    OBVIOUS
  <2>2. /\ InFlight(s) \in SUBSET Handlers
        /\ Creating(s) \in SUBSET Handlers
    BY InFlightSets
  <2>3. /\ InFlight(s)' \in SUBSET Handlers
        /\ Creating(s)' \in SUBSET Handlers
    BY <2>1, <2>2
  <2>. QED
    BY <2>1, <2>2, <2>3, NoMore, HandlerSets
<1>2. NoPast'
  BY DEF NoPast
<1>3. BoundedOvershoot'
  <2>1. ASSUME NEW s \in Tokens, row'[s] # "none"
        PROVE  used'[s] + Cardinality(InFlight(s)')
                 <= maxUses'[s] + Cardinality(Handlers) - 1
    <3>1. used[s] + Cardinality(InFlight(s))
            <= maxUses[s] + Cardinality(Handlers) - 1
      BY <2>1 DEF BoundedOvershoot, InFlight
    <3>2. /\ used[s] \in Nat /\ maxUses[s] \in Nat
          /\ Cardinality(InFlight(s)) \in Nat
          /\ Cardinality(Handlers) \in Nat
      BY InFlightSets
    <3>. QED
      BY <1>1, <3>1, <3>2
  <2>. QED
    BY <2>1 DEF BoundedOvershoot, InFlight
<1>4. LateBound'
  <2>1. ASSUME NEW s \in Tokens
        PROVE  IF Live(s)' THEN late'[s] = 0
               ELSE late'[s] + Cardinality(Creating(s)')
                      <= Cardinality(Handlers)
    <3>1. Live(s)' <=> Live(s)
      BY DEF Live
    <3>2. /\ late[s] \in Nat
          /\ Cardinality(Creating(s)) \in Nat
          /\ Cardinality(Handlers) \in Nat
      BY InFlightSets
    <3>. QED
      BY <1>1, <3>1, <3>2 DEF LateBound
  <2>. QED
    BY <2>1 DEF LateBound
<1>. QED
  BY <1>2, <1>3, <1>4

(* Token rows change while the requests stay where they are.  Closing a    *)
(* token starts its late count with every request already let through.     *)
LEMMA TokenInv ==
  ASSUME IInv, NEW t \in Tokens,
         \/ \E uses \in Requested : CreateToken(t, uses)
         \/ DeleteToken(t)
         \/ TokenExpires(t)
  PROVE  NoPast' /\ Accounting' /\ BoundedOvershoot' /\ LateBound'
<1>. USE DEF IInv, TypeOK
<1>1. UNCHANGED <<job, used, created, lost, late>>
  BY DEF CreateToken, DeleteToken, TokenExpires, countVars
<1>2. \A s \in Tokens : /\ Counting(s)' = Counting(s)
                        /\ Creating(s)' = Creating(s)
                        /\ InFlight(s)' = InFlight(s)
  BY <1>1 DEF Counting, Creating, InFlight, At
<1>3. \A s \in Tokens \ {t} : /\ row'[s] = row[s]
                              /\ maxUses'[s] = maxUses[s]
                              /\ expired'[s] = expired[s]
  BY DEF CreateToken, DeleteToken, TokenExpires
<1>4. /\ row'[t] # "none"
      /\ row[t] = "none" => /\ maxUses'[t] \in Nat \ {0}
                            /\ expired'[t] = expired[t]
                            /\ row'[t] = "stored"
      /\ row[t] # "none" => maxUses'[t] = maxUses[t] /\ ~Live(t)'
  <2>1. ASSUME NEW uses \in Requested, CreateToken(t, uses)
        PROVE  /\ row[t] = "none" /\ row'[t] = "stored"
               /\ maxUses'[t] \in Nat \ {0} /\ expired' = expired
    <3>1. Normalized(uses) \in Nat \ {0}
      BY EnrollmentAssumption DEF Normalized
    <3>. QED
      BY <2>1, <3>1 DEF CreateToken
  <2>2. ASSUME DeleteToken(t) \/ TokenExpires(t)
        PROVE  /\ row[t] = "stored" /\ row'[t] # "none"
               /\ maxUses' = maxUses /\ ~Live(t)'
    BY <2>2 DEF DeleteToken, TokenExpires, Live
  <2>. QED
    BY <2>1, <2>2
<1>5. NoPast'
  BY <1>1, <1>2, <1>3, <1>4 DEF NoPast
<1>6. Accounting'
  BY <1>1, <1>2 DEF Accounting
<1>7. BoundedOvershoot'
  <2>1. ASSUME NEW s \in Tokens, row'[s] # "none"
        PROVE  used'[s] + Cardinality(InFlight(s)')
                 <= maxUses'[s] + Cardinality(Handlers) - 1
    <3>1. CASE row[s] # "none"
      BY <1>1, <1>2, <1>3, <1>4, <3>1 DEF BoundedOvershoot, InFlight
    <3>2. CASE row[s] = "none"
      <4>1. s = t /\ used'[s] = 0 /\ maxUses'[s] \in Nat \ {0}
        BY <1>1, <1>3, <1>4, <2>1, <3>2 DEF NoPast
      <4>. QED
        BY <1>2, <4>1, InFlightSets
    <3>. QED
      BY <3>1, <3>2
  <2>. QED
    BY <2>1 DEF BoundedOvershoot, InFlight
<1>8. LateBound'
  <2>1. ASSUME NEW s \in Tokens
        PROVE  IF Live(s)' THEN late'[s] = 0
               ELSE late'[s] + Cardinality(Creating(s)')
                      <= Cardinality(Handlers)
    <3>1. /\ late[s] \in Nat
          /\ Cardinality(Creating(s)) \in Nat
          /\ Cardinality(Creating(s)) <= Cardinality(Handlers)
          /\ Cardinality(Handlers) \in Nat
      BY InFlightSets, HandlerSets
    <3>2. CASE s # t
      <4>1. Live(s)' <=> Live(s)
        BY <1>3, <3>2 DEF Live
      <4>. QED
        BY <1>1, <1>2, <4>1 DEF LateBound
    <3>3. CASE s = t /\ row[t] = "none"
      BY <1>1, <1>2, <1>4, <3>1, <3>3 DEF NoPast, Live
    <3>4. CASE s = t /\ row[t] # "none"
      <4>1. ~Live(t)'
        BY <1>4, <3>4
      <4>2. late[t] = 0 \/ late[t] + Cardinality(Creating(t))
                             <= Cardinality(Handlers)
        BY DEF LateBound
      <4>. QED
        BY <1>1, <1>2, <3>1, <3>4, <4>1, <4>2
    <3>. QED
      BY <3>2, <3>3, <3>4
  <2>. QED
    BY <2>1 DEF LateBound
<1>. QED
  BY <1>5, <1>6, <1>7, <1>8

(* A request given up by its client, and all of them by a restart.         *)
LEMMA GoneInv ==
  ASSUME IInv, NEW h \in Handlers, ClientGone(h)
  PROVE  NoPast' /\ Accounting' /\ BoundedOvershoot' /\ LateBound'
<1>. USE DEF IInv
<1>1. CASE job[h].pc = "count"
  <2>1. PICK t \in Tokens : At(h, "count", t)
    BY <1>1 DEF TypeOK, At, Idle
  <2>2. /\ job' = [job EXCEPT ![h] = Idle] /\ used' = used
        /\ lost' = [lost EXCEPT ![t] = @ + 1]
        /\ UNCHANGED <<row, maxUses, expired, created, late>>
    BY <2>1 DEF ClientGone, At, tokenVars, TypeOK
  <2>. QED
    BY <2>1, <2>2, CountedInv
<1>2. CASE job[h].pc # "count"
  <2>1. /\ job' = [job EXCEPT ![h] = Idle] /\ lost' = lost
        /\ UNCHANGED <<row, maxUses, used, expired, created, late>>
    BY <1>2 DEF ClientGone, At, tokenVars, TypeOK
  <2>2. \A s \in Tokens : /\ Counting(s)' = Counting(s)
                          /\ Creating(s)' = Creating(s) \ {h}
                          /\ InFlight(s)' = InFlight(s) \ {h}
    BY <1>2, <2>1, AbandonedMoves
  <2>3. Accounting'
    BY <2>1, <2>2 DEF Accounting
  <2>4. /\ \A s \in Tokens : Creating(s)' \subseteq Creating(s)
        /\ \A s \in Tokens : InFlight(s)' \subseteq InFlight(s)
    BY <2>2
  <2>. QED
    BY <2>1, <2>3, <2>4, SmallerInv
<1>. QED
  BY <1>1, <1>2

(* A restart abandons every request.                                       *)
LEMMA RestartInv ==
  ASSUME IInv, Restart
  PROVE  NoPast' /\ Accounting' /\ BoundedOvershoot' /\ LateBound'
<1>. USE DEF IInv
<1>1. \A s \in Tokens : Creating(s)' = {} /\ Counting(s)' = {}
  BY DEF Restart, Creating, Counting, At, Idle
<1>2. \A s \in Tokens : InFlight(s)' = {}
  BY <1>1 DEF InFlight
<1>3. Accounting'
  <2>1. ASSUME NEW s \in Tokens
        PROVE  created'[s] = used'[s] + lost'[s] + Cardinality(Counting(s)')
    <3>1. /\ created'[s] = created[s] /\ used'[s] = used[s]
          /\ lost'[s] = lost[s] + Cardinality(Counting(s))
      BY DEF Restart, tokenVars
    <3>2. Cardinality(Counting(s)') = 0
      BY <1>1, FS_EmptySet
    <3>3. /\ created[s] = used[s] + lost[s] + Cardinality(Counting(s))
          /\ used[s] \in Nat /\ lost[s] \in Nat
          /\ Cardinality(Counting(s)) \in Nat
      BY InFlightSets DEF Accounting, TypeOK
    <3>. QED
      BY <3>1, <3>2, <3>3
  <2>. QED
    BY <2>1 DEF Accounting
<1>4. UNCHANGED <<row, maxUses, used, expired, late>>
  BY DEF Restart, tokenVars
<1>. QED
  BY <1>1, <1>2, <1>3, <1>4, SmallerInv

(* Every step keeps the inductive invariant.                               *)
LEMMA InvStep ==
  ASSUME IInv, [Next]_vars
  PROVE  IInv'
<1>1. TypeOK'
  BY TypeStep DEF IInv
<1>2. NoPast' /\ Accounting' /\ BoundedOvershoot' /\ LateBound'
  <2>1. ASSUME NEW t \in Tokens,
               \/ \E uses \in Requested : CreateToken(t, uses)
               \/ DeleteToken(t)
               \/ TokenExpires(t)
        PROVE  NoPast' /\ Accounting' /\ BoundedOvershoot' /\ LateBound'
    BY <2>1, TokenInv
  <2>2. ASSUME NEW t \in Tokens, NEW h \in Handlers, TokenAccepted(h, t)
        PROVE  NoPast' /\ Accounting' /\ BoundedOvershoot' /\ LateBound'
    BY <2>2, AcceptedInv
  <2>3. ASSUME NEW h \in Handlers, NodeCreated(h)
        PROVE  NoPast' /\ Accounting' /\ BoundedOvershoot' /\ LateBound'
    BY <2>3, CreatedInv
  <2>4. ASSUME NEW h \in Handlers, UseCounted(h)
        PROVE  NoPast' /\ Accounting' /\ BoundedOvershoot' /\ LateBound'
    BY <2>4, CountedInv DEF UseCounted
  <2>5. ASSUME NEW h \in Handlers, Responded(h)
        PROVE  NoPast' /\ Accounting' /\ BoundedOvershoot' /\ LateBound'
    <3>1. /\ job[h].pc # "count" /\ job' = [job EXCEPT ![h] = Idle]
          /\ UNCHANGED <<row, maxUses, used, expired, created, lost, late>>
      BY <2>5 DEF Responded, At, tokenVars, countVars
    <3>2. \A s \in Tokens : /\ Counting(s)' = Counting(s)
                            /\ Creating(s)' = Creating(s) \ {h}
                            /\ InFlight(s)' = InFlight(s) \ {h}
      BY <3>1, AbandonedMoves DEF IInv
    <3>3. Accounting'
      BY <3>1, <3>2 DEF IInv, Accounting
    <3>4. /\ \A s \in Tokens : Creating(s)' \subseteq Creating(s)
          /\ \A s \in Tokens : InFlight(s)' \subseteq InFlight(s)
      BY <3>2
    <3>. QED
      BY <3>1, <3>3, <3>4, SmallerInv
  <2>6. ASSUME NEW h \in Handlers, ClientGone(h)
        PROVE  NoPast' /\ Accounting' /\ BoundedOvershoot' /\ LateBound'
    BY <2>6, GoneInv
  <2>7. CASE Restart
    BY <2>7, RestartInv
  <2>8. CASE UNCHANGED vars
    <3>1. \A s \in Tokens : /\ Counting(s)' = Counting(s)
                            /\ Creating(s)' = Creating(s)
                            /\ InFlight(s)' = InFlight(s)
      BY <2>8 DEF vars, Counting, Creating, InFlight, At
    <3>2. Accounting'
      BY <2>8, <3>1 DEF IInv, Accounting, vars, tokenVars, countVars
    <3>. QED
      BY <2>8, <3>1, <3>2, SmallerInv DEF vars, tokenVars, countVars
  <2>. QED
    BY <2>1, <2>2, <2>3, <2>4, <2>5, <2>6, <2>7, <2>8 DEF Next
<1>. QED
  BY <1>1, <1>2 DEF IInv

(* The inductive invariant holds at every step.                            *)
THEOREM Invariant == Spec => []IInv
BY InitInv, InvStep, PTL DEF Spec

(* No use of a token is counted twice, none disappears (Enroll).           *)
THEOREM UsesAccounted == Spec => []Accounting
<1>1. IInv => Accounting
  BY DEF IInv
<1>. QED
  BY <1>1, Invariant, PTL

(* The check-then-create of Enroll overshoots a token's limit by no more   *)
(* than the other requests in flight.                                      *)
THEOREM OvershootBounded == Spec => []BoundedOvershoot
<1>1. IInv => BoundedOvershoot
  BY DEF IInv
<1>. QED
  BY <1>1, Invariant, PTL

-----------------------------------------------------------------------------
(* Enrollment implements EnrollmentQuota.                                  *)
(* Uses that are lost are excused: no more at a time than goroutines, and  *)
(* never more than the nodes created.                                      *)
LEMMA ExcuseStep ==
  ASSUME IInv, IInv',
         UNCHANGED <<row, maxUses, expired, created, late>>,
         \A s \in Tokens :
           lost'[s] \in lost[s] .. lost[s] + Cardinality(Handlers)
  PROVE  Quota!Excuse
<1>1. lost' \in [Tokens -> Nat]
  BY DEF IInv, TypeOK
<1>2. \A s \in Tokens :
        /\ lost'[s] \in lost[s] .. lost[s] + (Cardinality(Handlers) - 1) + 1
        /\ lost'[s] <= created[s]
  <2>1. ASSUME NEW s \in Tokens
        PROVE  /\ lost'[s] \in lost[s] .. lost[s] + (Cardinality(Handlers) - 1) + 1
               /\ lost'[s] <= created[s]
    <3>1. /\ Cardinality(Counting(s)') \in Nat
          /\ Cardinality(Handlers) \in Nat
      <4>1. Counting(s)' \in SUBSET Handlers
        BY DEF Counting
      <4>. QED
        BY <4>1, HandlerSets
    <3>2. /\ created'[s] = used'[s] + lost'[s] + Cardinality(Counting(s)')
          /\ used'[s] \in Nat /\ lost'[s] \in Nat /\ lost[s] \in Nat
      BY DEF IInv, Accounting, TypeOK
    <3>. QED
      BY <3>1, <3>2
  <2>. QED
    BY <2>1
<1>3. {t \in Tokens : Live(t)}' = {t \in Tokens : Live(t)}
  BY DEF Live
<1>. QED
  BY <1>1, <1>2, <1>3 DEF Quota!Excuse

(* CreateNode is granted: its request was counted in the overshoot, and in *)
(* the late bound, from the moment its token was accepted.                 *)
LEMMA GrantStep ==
  ASSUME IInv, NEW h \in Handlers, NodeCreated(h)
  PROVE  \E t \in Tokens : Quota!Grant(t)
<1>0. PICK t \in Tokens :
        /\ At(h, "create", t)
        /\ created' = [created EXCEPT ![t] = @ + 1]
        /\ late' = [late EXCEPT ![t] = IF Live(t) THEN @ ELSE @ + 1]
        /\ job' = [job EXCEPT ![h].pc = "count"]
        /\ UNCHANGED <<tokenVars, lost>>
  BY DEF NodeCreated
<1>1. UNCHANGED <<row, maxUses, used, expired, lost>>
  BY <1>0 DEF tokenVars
<1>2. h \in Creating(t) /\ h \notin Counting(t)
  BY <1>0, CreatedMoves DEF IInv
<1>3. /\ Cardinality(Counting(t)) \in Nat
      /\ Cardinality(Creating(t)) \in Nat \ {0}
      /\ Cardinality(InFlight(t)) \in Nat
      /\ Cardinality(Handlers) \in Nat \ {0}
      /\ Cardinality(Counting(t)) + 1 <= Cardinality(InFlight(t))
  <2>1. Cardinality(Counting(t) \cup {h}) = Cardinality(Counting(t)) + 1
    BY <1>2, OneMore, InFlightSets
  <2>2. Counting(t) \cup {h} \in SUBSET InFlight(t)
    BY <1>2 DEF InFlight
  <2>3. Cardinality(Counting(t) \cup {h}) <= Cardinality(InFlight(t))
    BY <2>2, NoMore, InFlightSets
  <2>4. Cardinality(Creating(t)) # 0
    BY <1>2, InFlightSets, HandlerSets, FS_EmptySet
  <2>. QED
    BY <2>1, <2>3, <2>4, InFlightSets
<1>4. row[t] # "none"
  BY <1>2 DEF IInv, NoPast, InFlight
<1>5. created[t] - lost[t] < maxUses[t] + (Cardinality(Handlers) - 1)
  <2>1. created[t] = used[t] + lost[t] + Cardinality(Counting(t))
    BY DEF IInv, Accounting
  <2>2. used[t] + Cardinality(InFlight(t))
          <= maxUses[t] + Cardinality(Handlers) - 1
    BY <1>4 DEF IInv, BoundedOvershoot, InFlight
  <2>3. used[t] \in Nat /\ lost[t] \in Nat /\ maxUses[t] \in Nat
    BY DEF IInv, TypeOK
  <2>. QED
    BY <1>3, <2>1, <2>2, <2>3
<1>6. ~Live(t) => late[t] <= Cardinality(Handlers) - 1
  <2>1. late[t] \in Nat
    BY DEF IInv, TypeOK
  <2>. QED
    BY <1>3, <2>1 DEF IInv, LateBound
<1>7. {s \in Tokens : Live(s)}' = {s \in Tokens : Live(s)}
  BY <1>1 DEF Live
<1>8. Quota!Grant(t)
  BY <1>0, <1>1, <1>5, <1>6, <1>7 DEF Quota!Grant
<1>. QED
  BY <1>8

(* Every step of the handlers is a step of the quota, or none.             *)
LEMMA QuotaStep ==
  ASSUME IInv, IInv', [Next]_vars
  PROVE  [Quota!QuotaNext]_(Quota!quotaVars)
<1>. USE DEF Quota!QuotaNext, Quota!quotaVars
<1>1. ASSUME NEW t \in Tokens, NEW uses \in Requested, CreateToken(t, uses)
      PROVE  Quota!Issue(t)
  <2>1. maxUses[t] = 0 /\ ~expired[t]
    BY <1>1 DEF CreateToken, IInv, NoPast
  <2>2. /\ maxUses' = [maxUses EXCEPT ![t] = maxUses'[t]]
        /\ maxUses'[t] > 0
    <3>1. Normalized(uses) > 0
      BY EnrollmentAssumption DEF Normalized
    <3>. QED
      BY <1>1, <3>1 DEF CreateToken, IInv, TypeOK
  <2>3. {s \in Tokens : Live(s)}' = {s \in Tokens : Live(s)} \cup {t}
    BY <1>1, <2>1 DEF CreateToken, Live, IInv, TypeOK
  <2>. QED
    BY <1>1, <2>1, <2>2, <2>3 DEF Quota!Issue, CreateToken, countVars
<1>2. ASSUME NEW t \in Tokens, DeleteToken(t) \/ TokenExpires(t)
      PROVE  Quota!Close(t)
  <2>1. {s \in Tokens : Live(s)}' = {s \in Tokens : Live(s)} \ {t}
    BY <1>2 DEF DeleteToken, TokenExpires, Live, IInv, TypeOK
  <2>. QED
    BY <1>2, <2>1 DEF Quota!Close, DeleteToken, TokenExpires, countVars
<1>3. ASSUME UNCHANGED <<row, maxUses, expired, created, lost, late>>
      PROVE  UNCHANGED Quota!quotaVars
  BY <1>3 DEF Live
<1>4. ASSUME NEW t \in Tokens, NEW h \in Handlers, TokenAccepted(h, t)
      PROVE  UNCHANGED Quota!quotaVars
  BY <1>3, <1>4 DEF TokenAccepted, tokenVars, countVars
<1>5. ASSUME NEW h \in Handlers, NodeCreated(h)
      PROVE  Quota!QuotaNext
  BY <1>5, GrantStep
<1>6. Cardinality(Handlers) \in Nat \ {0}
  BY InFlightSets
<1>7. ASSUME NEW h \in Handlers, UseCounted(h)
      PROVE  Quota!Excuse
  <2>1. PICK t \in Tokens : /\ IncrementTokenUsage(t)
                            /\ UNCHANGED <<row, maxUses, expired, created, late>>
    BY <1>7 DEF UseCounted
  <2>2. \A s \in Tokens :
          lost'[s] \in lost[s] .. lost[s] + Cardinality(Handlers)
    BY <1>6, <2>1 DEF IncrementTokenUsage, IInv, TypeOK
  <2>. QED
    BY <2>1, <2>2, ExcuseStep
<1>8. ASSUME NEW h \in Handlers, Responded(h)
      PROVE  UNCHANGED Quota!quotaVars
  BY <1>3, <1>8 DEF Responded, tokenVars, countVars
<1>9. ASSUME NEW h \in Handlers, ClientGone(h)
      PROVE  Quota!Excuse
  <2>1. UNCHANGED <<row, maxUses, expired, created, late>>
    BY <1>9 DEF ClientGone, tokenVars
  <2>2. \A s \in Tokens :
          lost'[s] \in lost[s] .. lost[s] + Cardinality(Handlers)
    BY <1>6, <1>9 DEF ClientGone, IInv, TypeOK
  <2>. QED
    BY <2>1, <2>2, ExcuseStep
<1>10. ASSUME Restart
       PROVE  Quota!Excuse
  <2>1. UNCHANGED <<row, maxUses, expired, created, late>>
    BY <1>10 DEF Restart, tokenVars
  <2>2. ASSUME NEW s \in Tokens
        PROVE  lost'[s] \in lost[s] .. lost[s] + Cardinality(Handlers)
    <3>1. /\ Cardinality(Counting(s)) \in Nat
          /\ Cardinality(Counting(s)) <= Cardinality(Handlers)
      BY InFlightSets, HandlerSets
    <3>2. /\ lost'[s] = lost[s] + Cardinality(Counting(s))
          /\ lost[s] \in Nat
      BY <1>10 DEF Restart, IInv, TypeOK
    <3>. QED
      BY <1>6, <3>1, <3>2
  <2>. QED
    BY <2>1, <2>2, ExcuseStep
<1>11. ASSUME UNCHANGED vars
       PROVE  UNCHANGED Quota!quotaVars
  BY <1>3, <1>11 DEF vars, tokenVars, countVars
<1>. QED
  BY <1>1, <1>2, <1>4, <1>5, <1>7, <1>8, <1>9, <1>10, <1>11 DEF Next

(* The empty token table is an empty quota.                                *)
LEMMA QuotaStart == Init => Quota!QuotaInit
BY DEF Init, Quota!QuotaInit, Live

(* However requests, closings, hang-ups and restarts interleave, the       *)
(* tokens keep the promise of EnrollmentQuota.                             *)
THEOREM ImplementsQuota == Spec => KeepsQuota
<1>. QED
  BY QuotaStart, QuotaStep, Invariant, PTL DEF Spec, KeepsQuota, Quota!QuotaSpec

=============================================================================
