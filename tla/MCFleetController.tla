-------------------------- MODULE MCFleetController --------------------------
(* Instances of FleetController for TLC.                                   *)
EXTENDS FleetController

Item(name, st) == [name |-> name, status |-> st]

(* Items named as evaluateNodeCompliance looks for them.                   *)
OSPass == Item("OS FIPS mode", "pass")
OSFail == Item("OS FIPS mode", "fail")
DiskWarn == Item("Disk encryption", "warning")

MCItems == {OSPass, OSFail, DiskWarn}
TwoItemReports == {{OSPass, DiskWarn}, {OSFail, DiskWarn}}
OneItemReports == {{OSPass}, {OSFail}}

Policy(m, o, d) == [mode |-> m, osFIPS |-> o, diskEnc |-> d]
EnforceFIPS == Policy("enforce", TRUE, FALSE)
AllPolicies == {EnforceFIPS, Policy("audit", FALSE, TRUE),
                Policy("disabled", TRUE, TRUE)}
NoPolicies == {}
=============================================================================
