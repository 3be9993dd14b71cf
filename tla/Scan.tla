-------------------------------- MODULE Scan --------------------------------
(***************************************************************************)
(* The compliance report of a dashboard (cmd/dashboard/main.go:207): each  *)
(* section is computed once, one after the other, before the process       *)
(* listens, and is served from then on.  The host, the zone and the        *)
(* gateway change whenever they like; devices report to the process once   *)
(* it is up, and what they reported is gone when it stops.                 *)
(*                                                                         *)
(* The items of a section are taken to look at one and the same moment.    *)
(***************************************************************************)
EXTENDS EdgeChecks

CONSTANTS
  Hosts,      \* the hosts and zones to begin with
  ChangeCap   \* bound: changes of the world, devices and connections

VARIABLES
  env,      \* the facts the checks look at
  phase,    \* of the dashboard: "off", "scanning", "up"
  report,   \* the sections computed, as records of verdicts
  posture,  \* what devices reported to this process
  log,      \* the gateway's inspected connections
  changes

vars == <<env, phase, report, posture, log, changes>>

Facts == [f \in DOMAIN HostFacts \cup DOMAIN EdgeFacts |->
            IF f \in DOMAIN HostFacts THEN HostFacts[f] ELSE EdgeFacts[f]]

(* A host and zone as the checks see them.                                 *)
IsWorld(e) == DOMAIN e = DOMAIN Facts /\ \A f \in DOMAIN Facts : e[f] \in Facts[f]

ASSUME ScanAssumption == (\A h \in Hosts : IsWorld(h)) /\ ChangeCap \in Nat

(* Compiled in, or read from flags and environment when a process starts.  *)
Fixed == {"build", "fips140", "banned", "kats", "trimpath", "auth", "webhooks", "mode",
          "tokenPath", "checksum", "target", "edge", "tunnelIds",
          "gateway"}

NoReport == <<>>
NoPosture == [d \in {} |-> [osFips |-> FALSE, mdm |-> FALSE]]

Init ==
  /\ env \in Hosts
  /\ phase = "off" /\ report = NoReport /\ posture = NoPosture
  /\ log = <<>> /\ changes = 0

-----------------------------------------------------------------------------
(* The sections main adds, in order.                                       *)
Sections(e) ==
  <<"tunnel", "local", "build", "security">>
    \o (IF e.edge THEN <<"edge">> ELSE <<>>)
    \o <<"client">>
    \o (IF e.gateway THEN <<"gateway">> ELSE <<>>)

(* The dashboard's own inspector is installed on no server: its log is     *)
(* empty.                                                                  *)
SectionOf(s, e, p, l) ==
  CASE s = "tunnel" -> RunTunnelChecks(e)
    [] s = "local" -> RunLocalServiceChecks(e)
    [] s = "build" -> RunBuildSupplyChainChecks(e)
    [] s = "security" -> RunSecurityOpsChecks(e)
    [] s = "edge" -> RunEdgeChecks(e)
    [] s = "client" -> RunClientPostureChecks(p, <<>>)
    [] s = "gateway" -> RunGatewayClientChecks(e, l)

(* Slip: the dial of the local service has no limit either.                *)
HangsOnDial(s, e) ==
  \/ s = "tunnel" /\ e.metrics = "hanging"
  \/ s = "local" /\ e.service = "refused"

(* Every wait of a check has a limit, but for the metrics endpoint's that  *)
(* accepts a connection and does not answer.                               *)
Hangs(s, e) == s = "tunnel" /\ e.metrics = "hanging"

Start ==
  /\ phase = "off"
  /\ phase' = "scanning" /\ report' = NoReport /\ posture' = NoPosture
  /\ UNCHANGED <<env, log, changes>>

NextSection == Sections(env)[Len(report) + 1]

Check ==
  /\ phase = "scanning"
  /\ Len(report) < Len(Sections(env))
  /\ ~Hangs(NextSection, env)
  /\ report' = Append(report, SectionOf(NextSection, env, posture, log))
  /\ UNCHANGED <<env, phase, posture, log, changes>>

Listen ==
  /\ phase = "scanning"
  /\ Len(report) = Len(Sections(env))
  /\ phase' = "up"
  /\ UNCHANGED <<env, report, posture, log, changes>>

Stop ==
  /\ phase # "off"
  /\ phase' = "off"
  /\ UNCHANGED <<env, report, posture, log, changes>>

Change(f) ==
  /\ changes < ChangeCap
  /\ f \in Fixed => phase = "off"
  /\ \E v \in Facts[f] \ {env[f]} : env' = [env EXCEPT ![f] = v]
  /\ changes' = changes + 1
  /\ UNCHANGED <<phase, report, posture, log>>

(* HandlePostureReport.                                                    *)
Report(d) ==
  /\ phase = "up" /\ changes < ChangeCap
  /\ \E p \in Postures :
       posture' = [x \in DOMAIN posture \cup {d} |-> IF x = d THEN p ELSE posture[x]]
  /\ changes' = changes + 1
  /\ UNCHANGED <<env, phase, report, log>>

(* A client connects to the gateway.                                       *)
Connect ==
  /\ changes < ChangeCap /\ env.gateway
  /\ \E h \in Hellos : log' = Logged(log, h)
  /\ changes' = changes + 1
  /\ UNCHANGED <<env, phase, report, posture>>

Next ==
  \/ Start \/ Check \/ Listen \/ Stop
  \/ \E f \in DOMAIN Facts : Change(f)
  \/ \E d \in Devices : Report(d)
  \/ Connect

(* A goroutine that can go on does.                                        *)
FairSpec == Init /\ [][Next]_vars /\ WF_vars(Check) /\ WF_vars(Listen)

-----------------------------------------------------------------------------
VerdictsOf(section) == {section[i] : i \in DOMAIN section}

(* checker.go: the worst verdict of the report, and how many there are.    *)
OverallStatus(r) ==
  LET all == UNION {VerdictsOf(r[i]) : i \in DOMAIN r} IN
  CASE "fail" \in all -> "fail"
    [] all \cap {"fail", "warning"} = {"warning"} -> "warning"
    [] all \cap {"fail", "warning", "unknown"} = {"unknown"} -> "unknown"
    [] OTHER -> "pass"

Items(r) == UNION {{<<n, i>> : i \in DOMAIN r[n]} : n \in DOMAIN r}

Summary(r) == [v \in Verdicts |-> Cardinality({x \in Items(r) : r[x[1]][x[2]] = v})]

TypeOK ==
  /\ IsWorld(env)
  /\ phase \in {"off", "scanning", "up"}
  /\ phase # "off" => Len(report) <= Len(Sections(env))
  /\ \A i \in DOMAIN report : VerdictsOf(report[i]) \subseteq Verdicts
  /\ DOMAIN posture \subseteq Devices
  /\ \A d \in DOMAIN posture : posture[d] \in Postures
  /\ log \in Seq(Hellos) /\ Len(log) <= MaxLog
  /\ changes \in 0..ChangeCap

(* live.go:238, :606, selftest.go:88 and migration.go:25 each find out for *)
(* themselves whether a crypto module is active: in one report they never  *)
(* disagree, and a process without a module fails as a whole.              *)
BackendAgrees ==
  Len(report) >= 3 =>
    LET tunnel == report[1]  build == report[3] IN
    /\ (tunnel.t1 = "fail") = (tunnel.t12 = "fail")
    /\ tunnel.t6 = "fail" => tunnel.t1 = "fail" /\ tunnel.t3 = "fail"
    /\ tunnel.t1 = "fail" =>
         /\ tunnel.t3 = "fail" /\ build.b7 = "fail"
         /\ OverallStatus(report) = "fail" /\ Summary(report)["fail"] >= 4

-----------------------------------------------------------------------------
(* What mending a fact makes of it.                                        *)
Best ==
  [build |-> "boring 140-3", fips140 |-> TRUE, banned |-> FALSE, kats |-> TRUE,
   trimpath |-> "yes", osFips |-> "on", metrics |-> "serving", daemon |-> "with token",
   loginCert |-> "later", binary |-> "as built", listed |-> TRUE, upstream |-> TRUE,
   service |-> "good", sbom |-> TRUE, signature |-> TRUE, auditFile |-> "tight",
   syslog |-> TRUE, auth |-> TRUE, webhooks |-> TRUE, fileMode |-> "tight",
   tokenFile |-> "fresh", certs |-> {"later"}, nodeKey |-> "fresh",
   cloudflared |-> "as released", mode |-> "enforce", apps |-> TRUE,
   ciphers |-> "approved", minTLS |-> "1.3", packs |-> "later", hsts |-> TRUE,
   tunnel |-> "healthy", keyless |-> "active", regional |-> TRUE]

(* What was not there, or could not be seen, is not mended: it comes with  *)
(* verdicts of its own.  So it is with the log of a gateway that is down,  *)
(* which is why Best says nothing of proxyUp.                              *)
Unseen == {"none", "absent", "unknown", "unreadable"}

Mended(f, old, new) ==
  /\ f \in DOMAIN Best /\ new[f] = Best[f]
  /\ f \in {"loginCert", "tokenFile", "nodeKey", "binary", "cloudflared"} => old[f] \notin Unseen

Rank == [pass |-> 0, unknown |-> 1, warning |-> 2, fail |-> 3]

(* checker.go:47, where a fail is worse than a warning, and that worse     *)
(* than an unknown: an administrator who mends one thing sees no item of   *)
(* the next report get worse, whatever else is wrong - the items read      *)
(* several facts each, and several items read the same.                    *)
MendingHelps ==
  [][\A f \in DOMAIN Best :
       env'[f] # env[f] /\ Mended(f, env, env') =>
         \A n \in DOMAIN Sections(env) :
           LET before == SectionOf(Sections(env)[n], env, posture, log)
               after == SectionOf(Sections(env)[n], env', posture, log)
           IN \A i \in DOMAIN before : Rank[after[i]] <= Rank[before[i]]]_env

(* main.go:224: a dashboard that was started listens in the end, whatever  *)
(* is out of order around it - unless the metrics endpoint of its own      *)
(* daemon accepts a connection and stays silent.                           *)
ComesUp ==
  phase = "scanning" ~> phase # "scanning" \/ (env.metrics = "hanging" /\ report = NoReport)
=============================================================================
