--------------------------- MODULE MCTunnelSetup ---------------------------
(* Instances of TunnelSetup for TLC.                                       *)
EXTENDS TunnelSetup, TLC
Symmetric == Permutations(Hosts)
=============================================================================
