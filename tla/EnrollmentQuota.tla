--------------------------- MODULE EnrollmentQuota ---------------------------
(***************************************************************************)
(* What enrollment tokens promise, without the handlers that keep it.      *)
(*                                                                         *)
(* A token is issued for a number of nodes.  It admits that many, and      *)
(* Slack more; a node whose enrollment was abandoned half-way does not     *)
(* count.  Once the token is closed (deleted or expired) it admits at most *)
(* Slack + 1 nodes more.                                                   *)
(***************************************************************************)
EXTENDS Integers

CONSTANTS
  Tokens,
  Slack    \* how far requests in flight may overshoot

VARIABLES
  quota,     \* quota[t]: nodes t was issued for; 0: not issued
  open,      \* tokens neither deleted nor expired
  granted,   \* granted[t]: nodes admitted on t
  excused,   \* excused[t]: of those, nodes whose use was never counted
  overtime   \* overtime[t]: nodes admitted after t was closed

quotaVars == <<quota, open, granted, excused, overtime>>

QuotaInit ==
  /\ quota = [t \in Tokens |-> 0]
  /\ open = {}
  /\ granted = [t \in Tokens |-> 0]
  /\ excused = [t \in Tokens |-> 0]
  /\ overtime = [t \in Tokens |-> 0]

Issue(t) ==
  /\ quota[t] = 0
  /\ quota'[t] > 0
  /\ quota' = [quota EXCEPT ![t] = quota'[t]]
  /\ open' = open \cup {t}
  /\ UNCHANGED <<granted, excused, overtime>>

Close(t) ==
  /\ open' = open \ {t}
  /\ UNCHANGED <<quota, granted, excused, overtime>>

Grant(t) ==
  /\ granted[t] - excused[t] < quota[t] + Slack
  /\ t \notin open => overtime[t] <= Slack
  /\ granted' = [granted EXCEPT ![t] = @ + 1]
  /\ overtime' = [overtime EXCEPT ![t] = IF t \in open THEN @ ELSE @ + 1]
  /\ UNCHANGED <<quota, open, excused>>

(* Requests that had created their node are abandoned: one by its client,  *)
(* or all of them by a restart.                                            *)
Excuse ==
  /\ excused' \in [Tokens -> Nat]
  /\ \A t \in Tokens : /\ excused'[t] \in excused[t] .. excused[t] + Slack + 1
                       /\ excused'[t] <= granted[t]
  /\ UNCHANGED <<quota, open, granted, overtime>>

QuotaNext ==
  \/ \E t \in Tokens : Issue(t) \/ Close(t) \/ Grant(t)
  \/ Excuse

QuotaSpec == QuotaInit /\ [][QuotaNext]_quotaVars
=============================================================================
