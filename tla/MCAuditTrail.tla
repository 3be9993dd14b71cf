---------------------------- MODULE MCAuditTrail ----------------------------
(* Instances of AuditTrail for TLC.                                        *)
EXTENDS AuditTrail
MCKinds == {"auth_attempt", "alert_sent"}
MCAlerting == {"auth_attempt"}
MCFilter == [h \in Hooks |-> {"auth_attempt"}]
=============================================================================
