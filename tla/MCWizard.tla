------------------------------ MODULE MCWizard ------------------------------
(* Instances of Wizard for TLC: at most one account, all old tunnels in    *)
(* it; an API token other than k1 has no account.                          *)
EXTENDS Wizard
CONSTANTS a1, k1
OneAccount == [k \in Keys |-> IF k = k1 THEN {a1} ELSE {}]
AllInOne == [t \in OldTunnels |-> a1]
=============================================================================
