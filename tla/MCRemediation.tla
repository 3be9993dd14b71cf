--------------------------- MODULE MCRemediation ---------------------------
(* Instances of Remediation for TLC.                                       *)
EXTENDS Remediation
MCBody ==
  [fix |-> [actions |-> <<"enable_os_fips", "connect_warp">>, dry |-> FALSE],
   try |-> [actions |-> <<"install_warp", "enable_disk_encryption",
                          "enroll_mdm">>,
            dry |-> TRUE]]
MCRequests == {"fix", "try"}
BareMachine == {[fips |-> "off", warp |-> "absent", disk |-> FALSE,
                 mdm |-> FALSE]}
=============================================================================
