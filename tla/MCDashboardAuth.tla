-------------------------- MODULE MCDashboardAuth --------------------------
(* Instances of DashboardAuth for TLC.                                     *)
EXTENDS DashboardAuth
CONSTANT proxy   \* the one address that everybody behind a proxy shares
From(sends, path) == [ip |-> proxy, sends |-> sends, path |-> path]
(* An administrator of the fleet, somebody who guesses and a page load.    *)
MCCallers == {From("token", "fleet"), From("junk", "api"),
              From("nothing", "asset")}
=============================================================================
