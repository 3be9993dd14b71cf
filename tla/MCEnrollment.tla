---------------------------- MODULE MCEnrollment ----------------------------
(* Instances of Enrollment for TLC.                                        *)
EXTENDS Enrollment
MCRequested == {0, 2}
=============================================================================
