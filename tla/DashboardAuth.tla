--------------------------- MODULE DashboardAuth ---------------------------
(***************************************************************************)
(* The bearer-token middleware in front of the dashboard's API             *)
(* (internal/dashboard/auth.go) and its lockout.                           *)
(*                                                                         *)
(* A request takes the tracker's lock three times at most - to look for a  *)
(* lockout, then to record a failure or to clear the record - and holds    *)
(* nothing in between.  An action is the code from one lock section to the *)
(* next.  Behind the middleware the fleet handlers read the same header    *)
(* for a node's own key.                                                   *)
(***************************************************************************)
EXTENDS Integers, FiniteSets

CONSTANTS
  Requests,    \* goroutines of net/http
  Addresses,   \* what extractIP makes of a request
  Callers,     \* who calls: [ip, sends, path]
  TokenSet,    \* a dashboard token is configured
  MaxFails,    \* 5 in the code
  FailWindow   \* 5 minutes in the code; here in ticks

Caller == [ip : Addresses,
           sends : {"nothing", "token", "node_key", "junk"},
           path : {"asset", "api", "fleet"}]

ASSUME DashboardAuthAssumption ==
  /\ IsFiniteSet(Requests) /\ Requests # {}
  /\ Callers \subseteq Caller
  /\ TokenSet \in BOOLEAN
  /\ MaxFails \in Nat \ {0}
  /\ FailWindow \in Nat

VARIABLES
  failTracker,  \* failTracker[ip]: failures counted, ticks since the last
  req           \* req[r]: program counter and caller; answer once it is done

vars == <<failTracker, req>>

(* Ages saturate one past the window: nothing tells older ones apart.      *)
Old == FailWindow + 1
NoRecord == [count |-> 0, age |-> 0]
Idle == [pc |-> "idle"]
Busy == [pc : {"gate", "record", "clear", "next"}, by : Callers]
Done == [pc : {"done"}, by : Callers, answer : {"ok", "401", "403", "429"}]

TypeOK ==
  /\ failTracker \in [Addresses -> [count : Nat, age : 0..Old]]
  /\ req \in [Requests -> {Idle} \cup Busy \cup Done]

Init ==
  /\ failTracker = [ip \in Addresses |-> NoRecord]
  /\ req = [r \in Requests |-> Idle]

-----------------------------------------------------------------------------
At(pc, r) == req[r].pc = pc
Of(r) == req[r].by.ip

Goes(r, pc) == req' = [req EXCEPT ![r] = [pc |-> pc, by |-> req[r].by]]
Answers(r, status) ==
  req' = [req EXCEPT ![r] = [pc |-> "done", by |-> req[r].by,
                             answer |-> status]]

Expired(ip) == failTracker[ip].age = Old

(* ServeHTTP up to the first lock: open mode and assets pass straight on.  *)
Arrive(r, c) ==
  /\ req[r].pc \in {"idle", "done"}
  /\ req' = [req EXCEPT ![r] =
               [pc |-> IF TokenSet /\ c.path # "asset" THEN "gate" ELSE "next",
                by |-> c]]
  /\ UNCHANGED failTracker

(* What the token check comes to; it reads no shared state.                *)
CheckToken(r) ==
  CASE req[r].by.sends = "nothing" -> Answers(r, "401")
    [] req[r].by.sends = "token" -> Goes(r, "clear")
    [] OTHER -> Goes(r, "record")

(* Slip: the limit is off by one.                                          *)
LockedLate(ip) == failTracker[ip].count > MaxFails

Locked(ip) == failTracker[ip].count >= MaxFails

(* Slip: a refused try counts as one more failure.                         *)
GateCountsRefusals(r) ==
  /\ At("gate", r)
  /\ IF Locked(Of(r)) /\ ~Expired(Of(r))
     THEN /\ Answers(r, "429")
          /\ failTracker' = [failTracker EXCEPT ![Of(r)].age = 0]
     ELSE /\ CheckToken(r)
          /\ failTracker' = IF Expired(Of(r))
                            THEN [failTracker EXCEPT ![Of(r)] = NoRecord]
                            ELSE failTracker

(* isLockedOut, then the token check.                                      *)
Gate(r) ==
  /\ At("gate", r)
  /\ \/ /\ Expired(Of(r))
        /\ failTracker' = [failTracker EXCEPT ![Of(r)] = NoRecord]
        /\ CheckToken(r)
     \/ /\ ~Expired(Of(r)) /\ Locked(Of(r))
        /\ Answers(r, "429")
        /\ UNCHANGED failTracker
     \/ /\ ~Expired(Of(r)) /\ ~Locked(Of(r))
        /\ CheckToken(r)
        /\ UNCHANGED failTracker

(* Slip: a record starts again after a full count.                         *)
CountedWrapping(f) ==
  [count |-> IF f.age = Old \/ f.count >= MaxFails THEN 1 ELSE f.count + 1,
   age |-> 0]

Counted(f) ==
  [count |-> IF f.age = Old THEN 1 ELSE f.count + 1, age |-> 0]

(* recordFailure, the audit event, 403.                                    *)
RecordFailure(r) ==
  /\ At("record", r)
  /\ failTracker' = [failTracker EXCEPT ![Of(r)] = Counted(@)]
  /\ Answers(r, "403")

(* Slip: a success takes one failure back.                                 *)
Forgiven(f) == [f EXCEPT !.count = @ - 1]

Cleared(f) == NoRecord

(* clearFailures, the audit event.                                         *)
ClearFailures(r) ==
  /\ At("clear", r)
  /\ failTracker' = [failTracker EXCEPT ![Of(r)] = Cleared(@)]
  /\ Goes(r, "next")

(* The handler.  Of the fleet's, those for nodes: authenticateNode.        *)
NextHandler(r) ==
  /\ At("next", r)
  /\ \/ req[r].by.path # "fleet" /\ Answers(r, "ok")
     \/ /\ req[r].by.path = "fleet"
        /\ Answers(r, CASE req[r].by.sends = "nothing" -> "401"
                        [] req[r].by.sends = "node_key" -> "ok"
                        [] OTHER -> "403")
  /\ UNCHANGED failTracker

Aged(f) == IF f.count = 0 \/ f.age = Old THEN f ELSE [f EXCEPT !.age = @ + 1]

Tick ==
  /\ failTracker' = [ip \in Addresses |-> Aged(failTracker[ip])]
  /\ UNCHANGED req

Serve(r) == Gate(r) \/ RecordFailure(r) \/ ClearFailures(r) \/ NextHandler(r)

Next ==
  \/ \E r \in Requests, c \in Callers : Arrive(r, c)
  \/ \E r \in Requests : Serve(r)
  \/ Tick

Spec == Init /\ [][Next]_vars

(* The scheduler runs every goroutine that can run, and time passes.       *)
FairSpec ==
  Spec /\ WF_vars(Tick) /\ \A r \in Requests : WF_vars(Serve(r))

-----------------------------------------------------------------------------
Trying(ip) == {r \in Requests : At("record", r) /\ Of(r) = ip}

(* auth.go:79 checks, auth.go:99 counts, and nothing is held in between:  *)
(* wrong tokens get past the limit only in requests that were under way.   *)
(* Whatever the interleaving, the failures counted for an address and      *)
(* those about to be stay below the limit plus the requests in flight.     *)
TriesBounded ==
  \A ip \in Addresses :
    failTracker[ip].count + Cardinality(Trying(ip))
      <= MaxFails - 1 + Cardinality(Requests)

LockedNow(ip) == Locked(ip) /\ ~Expired(ip)

(* A lockout in force ends only when the window has passed since the last  *)
(* failure, or by a right token that had passed the check before           *)
(* (auth.go:109 clears the record whatever happened since).                *)
LockoutKept ==
  [][\A ip \in Addresses :
       LockedNow(ip) /\ ~LockedNow(ip)'
         => \/ failTracker[ip].age = FailWindow
            \/ \E r \in Requests : At("clear", r) /\ Of(r) = ip]_vars

(* Refused tries do not prolong a lockout: it ends although the locked-out *)
(* client, a node that reports every minute for one, goes on trying.       *)
LockoutEnds ==
  \A ip \in Addresses : LockedNow(ip) ~> ~LockedNow(ip)
=============================================================================
