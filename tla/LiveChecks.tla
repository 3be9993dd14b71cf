----------------------------- MODULE LiveChecks -----------------------------
(***************************************************************************)
(* The checks of the dashboard's own host: which crypto module it runs     *)
(* (pkg/fipsbackend), its self-tests (internal/selftest) and the four      *)
(* sections of internal/compliance/live.go, each as a function of the      *)
(* host e they look at.  A file, a certificate, an age or a service is the *)
(* class of it that a check tells apart; wording, severities and NIST      *)
(* references are left out.                                                *)
(***************************************************************************)
EXTENDS Integers

Expiry == {"expired", "ending", "later"}   \* ending: within 30 days
FileModes == {"tight", "group", "world"}   \* world: any bit for others

(* What the host's checks look at, and the classes of each.                *)
HostFacts ==
  [build      |-> {"boring 140-3", "boring 140-2", "plain"},
   fips140    |-> BOOLEAN,              \* GODEBUG has fips140=on or =only
   banned     |-> BOOLEAN,              \* Go lists a suite not approved
   kats       |-> BOOLEAN,              \* the known answers come out
   daysLeft   |-> {200, 120, 60, 10, -1},   \* until FIPS 140-2 ends
   trimpath   |-> {"no build info", "no", "yes"},
   osFips     |-> {"on", "off", "unreadable"},
   metrics    |-> {"serving", "refused", "hanging"},
   daemon     |-> {"absent", "with token", "other"},
   loginCert  |-> {"none", "unparsable"} \cup Expiry,
   binary     |-> {"unknown", "unreadable", "as built", "altered"},
   manifest   |-> {"unreadable", "no hash", "complete"},
   listed     |-> BOOLEAN,              \* the manifest lists certificates
   upstream   |-> BOOLEAN,              \* and the upstream version
   config     |-> {"not given", "missing", "present"},
   target     |-> {"none", "loopback", "remote"},
   service    |-> {"refused", "plain", "weak suite", "expired", "good"},
   sbom       |-> BOOLEAN,
   signature  |-> BOOLEAN,
   auditFile  |-> {"off", "gone"} \cup FileModes,
   syslog     |-> BOOLEAN,
   auth       |-> BOOLEAN,
   webhooks   |-> BOOLEAN,
   fileMode   |-> FileModes,            \* of the files in default places
   secretsDir |-> SUBSET FileModes,     \* of those in --secrets-paths
   tokenPath  |-> {"not given", "token", "pem"},
   tokenFile  |-> {"none", "fresh", "old"},     \* old: over a year
   certs      |-> SUBSET (Expiry \cup {"unparsable"}),  \* --cert-paths
   nodeKey    |-> {"none", "fresh", "ageing", "old"},   \* 90 and 180 days
   cloudflared |-> {"absent", "unreadable", "as released", "altered"},
   checksum   |-> BOOLEAN,              \* --upstream-checksum is given
   mode       |-> {"enforce", "audit", "disabled", "other"}]

Verdicts == {"pass", "warning", "fail", "unknown"}

PassIf(b, otherwise) == IF b THEN "pass" ELSE otherwise

OfExpiry == [expired |-> "fail", ending |-> "warning", later |-> "pass"]

-----------------------------------------------------------------------------
(* Slip: the Go module is looked for first.                                *)
DetectNativeFirst(e) ==
  CASE e.fips140 -> "go-native"
    [] ~e.fips140 /\ e.build # "plain" -> "boringcrypto"
    [] OTHER -> "none"

(* pkg/fipsbackend.  The system's crypto library is never found active.    *)
Detect(e) ==
  CASE e.build # "plain" -> "boringcrypto"
    [] e.build = "plain" /\ e.fips140 -> "go-native"
    [] OTHER -> "none"

FIPSStandard(e) ==
  CASE Detect(e) = "go-native" -> "140-3 (pending)"
    [] e.build = "boring 140-3" -> "140-3"
    [] e.build = "boring 140-2" -> "140-2"
    [] OTHER -> "n/a"

Validated(e) == Detect(e) = "boringcrypto"

SunsetUrgency(days) ==
  CASE days <= 30 -> "critical"
    [] days \in 31..90 -> "high"
    [] days \in 91..180 -> "medium"
    [] OTHER -> "low"

(* Slip: a process without a module has nothing to migrate from.           *)
MigrationOfModules(e) ==
  CASE FIPSStandard(e) = "140-2" -> SunsetUrgency(e.daysLeft)
    [] FIPSStandard(e) = "140-3 (pending)" -> IF e.daysLeft < 0 THEN "medium" ELSE "low"
    [] OTHER -> "none"

GetMigrationStatus(e) ==
  CASE Detect(e) = "none" -> "critical"
    [] FIPSStandard(e) = "140-2" -> SunsetUrgency(e.daysLeft)
    [] FIPSStandard(e) = "140-3" -> "none"
    [] OTHER -> IF e.daysLeft < 0 THEN "medium" ELSE "low"

-----------------------------------------------------------------------------
(* internal/selftest: the critical checks that can fail.  The rest of      *)
(* RunAllChecks warns or passes.                                           *)
CipherSuitesFail(e) == e.banned /\ Detect(e) = "none"

CriticalFailures(e) ==
  {t \in {"backend", "cipher suites", "known answers"} :
     \/ t = "backend" /\ Detect(e) = "none"
     \/ t = "cipher suites" /\ CipherSuitesFail(e)
     \/ t = "known answers" /\ ~e.kats}

-----------------------------------------------------------------------------
(* live.go, the tunnel section: t-1 to t-12.                               *)
checkBoringCryptoActive(e) == PassIf(Detect(e) # "none", "fail")
checkOSFIPSMode(e) == PassIf(e.osFips = "on", "warning")
checkFIPSSelfTest(e) == PassIf(CriticalFailures(e) = {}, "fail")

(* That the endpoint answers, with whatever, or that the daemon runs.      *)
checkTunnelProtocol(e) ==
  PassIf(e.metrics = "serving" \/ e.daemon # "absent", "unknown")
checkTunnelRedundancy(e) == checkTunnelProtocol(e)

(* The checks of a configuration compiled in: TLS 1.2, P-256 and P-384.    *)
checkTLSVersion(e) == "pass"
checkKeyExchange(e) == "pass"

checkCipherSuites(e) == PassIf(~e.banned \/ Detect(e) # "none", "fail")

(* That the certificate exists is enough.                                  *)
checkCertificateValidity(e) ==
  PassIf(e.loginCert # "none" \/ e.daemon # "absent", "unknown")

checkBinaryIntegrity(e) ==
  CASE \/ e.binary \in {"unknown", "unreadable"}
       \/ e.manifest = "unreadable" -> "unknown"
    [] e.manifest = "no hash" /\ e.binary \in {"as built", "altered"} -> "warning"
    [] OTHER -> PassIf(e.binary = "as built", "fail")

checkConfigDrift(e) == PassIf(e.config = "present", "unknown")

checkFIPSBackend(e) ==
  IF Detect(e) = "none" THEN "fail" ELSE PassIf(Validated(e), "warning")

RunTunnelChecks(e) ==
  [t1 |-> checkBoringCryptoActive(e), t2 |-> checkOSFIPSMode(e),
   t3 |-> checkFIPSSelfTest(e), t4 |-> checkTunnelProtocol(e),
   t5 |-> checkTLSVersion(e), t6 |-> checkCipherSuites(e),
   t7 |-> checkKeyExchange(e), t8 |-> checkCertificateValidity(e),
   t9 |-> checkTunnelRedundancy(e), t10 |-> checkBinaryIntegrity(e),
   t11 |-> checkConfigDrift(e), t12 |-> checkFIPSBackend(e)]

-----------------------------------------------------------------------------
(* The local service section: l-1 to l-4.  Only the first target counts.   *)
Shakes(e) == e.service \notin {"refused", "plain"}   \* the TLS handshake

(* The verdict v on the service, unless there is none or it is the host's. *)
OfTarget(e, v) ==
  CASE e.target = "none" -> "unknown"
    [] e.target = "loopback" -> "pass"
    [] e.target = "remote" -> v

checkLocalTLSEnabled(e) == OfTarget(e, PassIf(Shakes(e), "fail"))
checkLocalCipherSuite(e) ==
  OfTarget(e, IF Shakes(e) THEN PassIf(e.service # "weak suite", "fail") ELSE "unknown")
checkLocalCertificateValid(e) ==
  OfTarget(e, IF Shakes(e) THEN PassIf(e.service # "expired", "fail") ELSE "unknown")
checkServiceReachable(e) ==
  IF e.target = "none" THEN "unknown" ELSE PassIf(e.service # "refused", "fail")

RunLocalServiceChecks(e) ==
  [l1 |-> checkLocalTLSEnabled(e), l2 |-> checkLocalCipherSuite(e),
   l3 |-> checkLocalCertificateValid(e), l4 |-> checkServiceReachable(e)]

-----------------------------------------------------------------------------
(* The build section: b-1 to b-7.                                          *)
checkBuildManifestPresent(e) == PassIf(e.manifest # "unreadable", "fail")
checkSBOMPresent(e) == PassIf(e.sbom, "warning")
checkReproducibleBuild(e) ==
  IF e.trimpath = "no build info" THEN "unknown" ELSE PassIf(e.trimpath = "yes", "warning")
checkSignatureValid(e) ==
  IF e.binary = "unknown" THEN "unknown" ELSE PassIf(e.signature, "warning")
checkFIPSCertsListed(e) == PassIf(e.manifest # "unreadable" /\ e.listed, "fail")
checkUpstreamVersion(e) == PassIf(e.manifest # "unreadable" /\ e.upstream, "warning")
checkFIPSModuleSunset(e) ==
  LET u == GetMigrationStatus(e) IN
  CASE u \in {"none", "low"} -> "pass"
    [] u \in {"medium", "high"} -> "warning"
    [] u = "critical" -> "fail"

RunBuildSupplyChainChecks(e) ==
  [b1 |-> checkBuildManifestPresent(e), b2 |-> checkSBOMPresent(e),
   b3 |-> checkReproducibleBuild(e), b4 |-> checkSignatureValid(e),
   b5 |-> checkFIPSCertsListed(e), b6 |-> checkUpstreamVersion(e),
   b7 |-> checkFIPSModuleSunset(e)]

-----------------------------------------------------------------------------
(* The security operations section: so-1 to so-13.                         *)

(* Where there is a logger, its first event is that the dashboard started. *)
checkAuditLogActive(e) == PassIf(e.auditFile # "off", "fail")
checkDashboardAuth(e) == PassIf(e.auth, "warning")
checkFailedAuthMonitoring(e) == PassIf(e.auth /\ e.auditFile # "off", "warning")
checkAlertingConfigured(e) == PassIf(e.webhooks, "warning")

(* collectSecretFiles, as the modes of the files it finds.                 *)
SecretModes(e) ==
  e.secretsDir
    \cup (IF \/ e.tokenFile # "none" \/ e.nodeKey # "none" \/ e.loginCert # "none"
             \/ e.config = "present"
          THEN {e.fileMode} ELSE {})

checkSecretsAtRest(e) ==
  CASE "world" \in SecretModes(e) -> "fail"
    [] SecretModes(e) \cap {"group", "world"} = {"group"} -> "warning"
    [] OTHER -> "pass"

(* The path given, or else the first default path there is a file at.      *)
TokenPath(e) ==
  CASE e.tokenPath # "not given" -> e.tokenPath
    [] e.tokenPath = "not given" /\ e.tokenFile # "none" -> "token"
    [] OTHER -> IF e.loginCert # "none" THEN "pem" ELSE "none"

checkPEMExpiry(e) ==
  IF e.loginCert \in Expiry THEN OfExpiry[e.loginCert] ELSE "unknown"

checkTunnelTokenExpiry(e) ==
  CASE TokenPath(e) = "none" -> PassIf(e.daemon = "with token", "unknown")
    [] TokenPath(e) = "pem" -> checkPEMExpiry(e)
    [] TokenPath(e) = "token" ->
         IF e.tokenFile = "none" THEN "unknown" ELSE PassIf(e.tokenFile = "fresh", "warning")

(* The soonest of the certificates that could be parsed.                   *)
checkTLSCertExpiry(e) ==
  CASE "expired" \in e.certs -> "fail"
    [] e.certs \cap {"expired", "ending"} = {"ending"} -> "warning"
    [] OTHER -> PassIf("later" \in e.certs, "unknown")

checkFleetTokenAge(e) ==
  [none |-> "unknown", fresh |-> "pass", ageing |-> "warning", old |-> "fail"][e.nodeKey]

checkUpstreamIntegrity(e) ==
  CASE e.cloudflared = "absent" -> "unknown"
    [] e.cloudflared # "absent" /\ ~e.checksum -> "warning"
    [] e.cloudflared = "unreadable" /\ e.checksum -> "unknown"
    [] OTHER -> PassIf(e.cloudflared = "as released", "fail")

checkLogForwarding(e) ==
  IF e.auditFile = "off" THEN "fail" ELSE PassIf(e.syslog, "warning")
checkAuditLogIntegrity(e) ==
  IF e.auditFile = "world" THEN "fail" ELSE PassIf(e.auditFile = "tight", "warning")

(* The time of the scan is set where this section starts.                  *)
checkComplianceScanRecent(e) == "pass"
checkSecurityPolicyEnforced(e) ==
  IF e.mode = "other" THEN "unknown" ELSE PassIf(e.mode = "enforce", "warning")

RunSecurityOpsChecks(e) ==
  [so1 |-> checkAuditLogActive(e), so2 |-> checkDashboardAuth(e),
   so3 |-> checkFailedAuthMonitoring(e), so4 |-> checkAlertingConfigured(e),
   so5 |-> checkSecretsAtRest(e), so6 |-> checkTunnelTokenExpiry(e),
   so7 |-> checkTLSCertExpiry(e), so8 |-> checkFleetTokenAge(e),
   so9 |-> checkUpstreamIntegrity(e), so10 |-> checkLogForwarding(e),
   so11 |-> checkAuditLogIntegrity(e), so12 |-> checkComplianceScanRecent(e),
   so13 |-> checkSecurityPolicyEnforced(e)]
=============================================================================
