------------------------------- MODULE MCScan -------------------------------
(* Instances of Scan for TLC: a host on which all is well, a host on which *)
(* nothing is, and one on which nothing was set up.                        *)
EXTENDS Scan

Sound ==
  [f \in DOMAIN Facts |->
     CASE f \in DOMAIN Best -> Best[f]
       [] f = "daysLeft" -> 200
       [] f = "manifest" -> "complete"
       [] f = "config" -> "present"
       [] f = "target" -> "remote"
       [] f = "secretsDir" -> {"tight"}
       [] f = "tokenPath" -> "not given"
       [] f \in {"checksum", "edge", "tunnelIds", "gateway", "proxyUp"} -> TRUE
       [] f = "failing" -> {}]

Broken ==
  [Sound EXCEPT !.build = "plain", !.fips140 = FALSE, !.banned = TRUE, !.daysLeft = 10,
     !.osFips = "off", !.metrics = "refused", !.daemon = "other", !.loginCert = "expired",
     !.binary = "altered", !.service = "weak suite", !.auditFile = "world",
     !.fileMode = "world", !.tokenPath = "pem", !.tokenFile = "old", !.certs = {"expired", "unparsable"},
     !.nodeKey = "old", !.cloudflared = "altered", !.minTLS = "1.0", !.packs = "expired",
     !.tunnel = "down", !.hsts = FALSE, !.proxyUp = FALSE]

Bare ==
  [Sound EXCEPT !.daemon = "absent", !.metrics = "refused", !.loginCert = "none",
     !.manifest = "unreadable", !.config = "missing", !.target = "none", !.auditFile = "off",
     !.tokenFile = "none", !.certs = {}, !.nodeKey = "none", !.cloudflared = "absent",
     !.secretsDir = {}, !.edge = FALSE, !.gateway = FALSE, !.build = "boring 140-2",
     !.daysLeft = 10]

AllHosts == {Sound, Broken, Bare}
=============================================================================
