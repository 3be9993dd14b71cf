----------------------------- MODULE Enrollment -----------------------------
(***************************************************************************)
(* Enrollment tokens: Enrollment (pkg/fleet/enrollment.go), the token      *)
(* statements of SQLiteStore (pkg/fleet/sqlite.go) and HandleEnroll        *)
(* (internal/dashboard/fleet_handler.go).                                  *)
(*                                                                         *)
(* Enroll reads the token, decides, creates the node and counts the use in *)
(* three separate statements on the request's context, with nothing that   *)
(* holds other requests off in between.                                    *)
(***************************************************************************)
EXTENDS Integers, FiniteSets

CONSTANTS
  Tokens,     \* token ids
  Handlers,   \* goroutines serving POST /api/v1/fleet/enroll
  Requested,  \* the max_uses administrators ask for
  NodeCap     \* bound of the exploration: nodes ever created on one token

ASSUME EnrollmentAssumption ==
  /\ IsFiniteSet(Handlers)
  /\ Handlers # {}
  /\ Requested \subseteq Int
  /\ NodeCap \in Nat

VARIABLES
  row,       \* the token's row: "none", "stored", "deleted"
  maxUses,   \* column max_uses
  used,      \* column used_count
  expired,   \* now is after column expires_at
  job,       \* job[h]: where goroutine h is in Enroll, and on which token
  \* history variables: read by properties only
  created,   \* created[t]: nodes created on t
  lost,      \* lost[t]: uses of t that were never counted
  late       \* late[t]: nodes created after t was deleted or had expired

tokenVars == <<row, maxUses, used, expired>>
countVars == <<created, lost, late>>
vars == <<tokenVars, job, countVars>>

Idle == [pc |-> "idle"]
Points == {"create", "count", "respond"}

TypeOK ==
  /\ row \in [Tokens -> {"none", "stored", "deleted"}]
  /\ maxUses \in [Tokens -> Nat]
  /\ \A t \in Tokens : row[t] # "none" => maxUses[t] > 0
  /\ used \in [Tokens -> Nat]
  /\ expired \in [Tokens -> BOOLEAN]
  /\ job \in [Handlers -> {Idle} \cup [pc : Points, token : Tokens]]
  /\ created \in [Tokens -> Nat]
  /\ lost \in [Tokens -> Nat]
  /\ late \in [Tokens -> Nat]

Init ==
  /\ row = [t \in Tokens |-> "none"]
  /\ maxUses = [t \in Tokens |-> 0]
  /\ used = [t \in Tokens |-> 0]
  /\ expired = [t \in Tokens |-> FALSE]
  /\ job = [h \in Handlers |-> Idle]
  /\ created = [t \in Tokens |-> 0]
  /\ lost = [t \in Tokens |-> 0]
  /\ late = [t \in Tokens |-> 0]

-----------------------------------------------------------------------------
At(h, pc, t) == job[h].pc = pc /\ job[h].token = t
Counting(t) == {h \in Handlers : At(h, "count", t)}
Creating(t) == {h \in Handlers : At(h, "create", t)}
Live(t) == row[t] = "stored" /\ ~expired[t]

(* Slip: an unset limit is stored as it came.                              *)
NotNormalized(uses) == uses

(* CreateToken: an unset or negative limit becomes one use.                *)
Normalized(uses) == IF uses <= 0 THEN 1 ELSE uses

CreateToken(t, uses) ==
  /\ row[t] = "none"
  /\ row' = [row EXCEPT ![t] = "stored"]
  /\ maxUses' = [maxUses EXCEPT ![t] = Normalized(uses)]
  /\ UNCHANGED <<used, expired, job, countVars>>

DeleteToken(t) ==
  /\ row[t] = "stored"
  /\ row' = [row EXCEPT ![t] = "deleted"]
  /\ UNCHANGED <<maxUses, used, expired, job, countVars>>

(* The clock passes expires_at.                                            *)
TokenExpires(t) ==
  /\ row[t] = "stored"
  /\ ~expired[t]
  /\ expired' = [expired EXCEPT ![t] = TRUE]
  /\ UNCHANGED <<row, maxUses, used, job, countVars>>

-----------------------------------------------------------------------------
(* Slips in the checks: one use too many, and an expiry nobody looks at.   *)
UsableOnceMore(t) ==
  /\ row[t] = "stored"
  /\ ~expired[t]
  /\ maxUses[t] > 0 => used[t] <= maxUses[t]

UsableForEver(t) ==
  /\ row[t] = "stored"
  /\ maxUses[t] > 0 => used[t] < maxUses[t]

(* GetToken and the checks Enroll makes on the copy it got.                *)
Usable(t) ==
  /\ row[t] = "stored"
  /\ ~expired[t]
  /\ maxUses[t] > 0 => used[t] < maxUses[t]

(* A request whose token fails the checks is answered 403 and is gone.     *)
TokenAccepted(h, t) ==
  /\ job[h] = Idle
  /\ Usable(t)
  /\ created[t] + Cardinality(Creating(t)) < NodeCap
  /\ job' = [job EXCEPT ![h] = [pc |-> "create", token |-> t]]
  /\ UNCHANGED <<tokenVars, countVars>>

(* CreateNode does not look at the token again.                            *)
NodeCreated(h) ==
  \E t \in Tokens :
    /\ At(h, "create", t)
    /\ created' = [created EXCEPT ![t] = @ + 1]
    /\ late' = [late EXCEPT ![t] = IF Live(t) THEN @ ELSE @ + 1]
    /\ job' = [job EXCEPT ![h].pc = "count"]
    /\ UNCHANGED <<tokenVars, lost>>

(* Slip: the count is written from a value that is not this row's.         *)
SetTokenUsage(t) ==
  /\ used' = IF row[t] = "stored" THEN [used EXCEPT ![t] = 1] ELSE used
  /\ lost' = IF row[t] = "stored" THEN lost ELSE [lost EXCEPT ![t] = @ + 1]

(* used_count + 1 on a row that is still there; without one no error.      *)
IncrementTokenUsage(t) ==
  /\ used' = IF row[t] = "stored" THEN [used EXCEPT ![t] = @ + 1] ELSE used
  /\ lost' = IF row[t] = "stored" THEN lost ELSE [lost EXCEPT ![t] = @ + 1]

UseCounted(h) ==
  \E t \in Tokens :
    /\ At(h, "count", t)
    /\ IncrementTokenUsage(t)
    /\ job' = [job EXCEPT ![h].pc = "respond"]
    /\ UNCHANGED <<row, maxUses, expired, created, late>>

(* HandleEnroll answers with the node's id and API key.                    *)
Responded(h) ==
  \E t \in Tokens :
    /\ At(h, "respond", t)
    /\ job' = [job EXCEPT ![h] = Idle]
    /\ UNCHANGED <<tokenVars, countVars>>

(* The request's context is cancelled: before CreateNode nothing happens;  *)
(* after it the node stays, and the error of the count is discarded.       *)
ClientGone(h) ==
  /\ job[h] # Idle
  /\ job' = [job EXCEPT ![h] = Idle]
  /\ lost' = [t \in Tokens |-> IF At(h, "count", t) THEN lost[t] + 1
                               ELSE lost[t]]
  /\ UNCHANGED <<tokenVars, created, late>>

(* The controller dies; the database keeps what was written.               *)
Restart ==
  /\ job' = [h \in Handlers |-> Idle]
  /\ lost' = [t \in Tokens |-> lost[t] + Cardinality(Counting(t))]
  /\ UNCHANGED <<tokenVars, created, late>>

Next ==
  \/ \E t \in Tokens :
       \/ \E uses \in Requested : CreateToken(t, uses)
       \/ DeleteToken(t)
       \/ TokenExpires(t)
       \/ \E h \in Handlers : TokenAccepted(h, t)
  \/ \E h \in Handlers :
       NodeCreated(h) \/ UseCounted(h) \/ Responded(h) \/ ClientGone(h)
  \/ Restart

Spec == Init /\ [][Next]_vars
-----------------------------------------------------------------------------
(* Properties.                                                             *)

(* Every node created on a token is counted, is about to be, or belongs to *)
(* a request that was cut short after CreateNode: however requests,        *)
(* deletions and restarts interleave, no use is counted twice and none     *)
(* disappears without its request being abandoned or its token deleted.    *)
Accounting ==
  \A t \in Tokens :
    created[t] = used[t] + lost[t] + Cardinality(Counting(t))

(* How far the unguarded check-then-create of Enroll can overshoot: a      *)
(* token counts at most max_uses plus, for each other goroutine, one use.  *)
BoundedOvershoot ==
  \A t \in Tokens :
    row[t] # "none" => used[t] + Cardinality(Counting(t) \cup Creating(t))
                          <= maxUses[t] + Cardinality(Handlers) - 1

(* The handlers keep the promise of EnrollmentQuota, with the requests in  *)
(* flight as its slack: also after DeleteToken and expiry, when only the   *)
(* requests that had already passed the check still create their node.     *)
Quota == INSTANCE EnrollmentQuota WITH
  Slack <- Cardinality(Handlers) - 1,
  quota <- maxUses,
  open <- {t \in Tokens : Live(t)},
  granted <- created,
  excused <- lost,
  overtime <- late

KeepsQuota == Quota!QuotaSpec
=============================================================================
