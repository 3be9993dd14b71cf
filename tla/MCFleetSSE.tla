----------------------------- MODULE MCFleetSSE -----------------------------
(* Instances of FleetSSE for TLC.                                          *)
EXTENDS FleetSSE
OSFail == [name |-> "OS FIPS mode", status |-> "fail"]
MCItems == {OSFail}
EmptyReport == {{}}
NoPolicies == {}
=============================================================================
