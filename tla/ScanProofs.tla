----------------------------- MODULE ScanProofs -----------------------------
(***************************************************************************)
(* Proofs about Scan, for every host, zone and gateway, and any number of  *)
(* changes: a report's sections agree about the crypto module, and mending *)
(* makes no item of a report worse.                                        *)
(***************************************************************************)
EXTENDS Scan, FiniteSetTheorems, SequenceTheorems, TLAPS

(* The facts of a world, one by one.                                       *)
LEMMA FactsAre ==
  /\ DOMAIN HostFacts \cap DOMAIN EdgeFacts = {}
  /\ DOMAIN Facts = DOMAIN HostFacts \cup DOMAIN EdgeFacts
  /\ \A f \in DOMAIN HostFacts : Facts[f] = HostFacts[f]
  /\ \A f \in DOMAIN EdgeFacts : Facts[f] = EdgeFacts[f]
<1>1. DOMAIN HostFacts \cap DOMAIN EdgeFacts = {}
  BY DEF HostFacts, EdgeFacts
<1>. QED
  BY <1>1 DEF Facts

(* What the tunnel section looks at ...                                    *)
LEMMA TunnelFacts ==
  ASSUME NEW e, IsWorld(e)
  PROVE  /\ e.build \in {"boring 140-3", "boring 140-2", "plain"}
         /\ e.fips140 \in BOOLEAN /\ e.banned \in BOOLEAN /\ e.kats \in BOOLEAN
         /\ e.daysLeft \in {200, 120, 60, 10, -1}
         /\ e.osFips \in {"on", "off", "unreadable"}
         /\ e.metrics \in {"serving", "refused", "hanging"}
         /\ e.daemon \in {"absent", "with token", "other"}
         /\ e.loginCert \in {"none", "unparsable"} \cup Expiry
         /\ e.binary \in {"unknown", "unreadable", "as built", "altered"}
         /\ e.manifest \in {"unreadable", "no hash", "complete"}
         /\ e.config \in {"not given", "missing", "present"}
<1>1. \A f \in DOMAIN HostFacts : e[f] \in HostFacts[f]
  BY FactsAre DEF IsWorld
<1>2. /\ e.build \in {"boring 140-3", "boring 140-2", "plain"}
      /\ e.fips140 \in BOOLEAN
      /\ e.banned \in BOOLEAN
      /\ e.kats \in BOOLEAN
  BY <1>1 DEF HostFacts
<1>3. /\ e.daysLeft \in {200, 120, 60, 10, -1}
      /\ e.osFips \in {"on", "off", "unreadable"}
      /\ e.metrics \in {"serving", "refused", "hanging"}
      /\ e.daemon \in {"absent", "with token", "other"}
  BY <1>1 DEF HostFacts
<1>4. /\ e.loginCert \in {"none", "unparsable"} \cup Expiry
      /\ e.binary \in {"unknown", "unreadable", "as built", "altered"}
      /\ e.manifest \in {"unreadable", "no hash", "complete"}
      /\ e.config \in {"not given", "missing", "present"}
  BY <1>1 DEF HostFacts
<1>. QED
  BY <1>2, <1>3, <1>4

(* ... the other sections on the host ...                                  *)
LEMMA OtherHostFacts ==
  ASSUME NEW e, IsWorld(e)
  PROVE  /\ e.trimpath \in {"no build info", "no", "yes"}
         /\ e.listed \in BOOLEAN /\ e.upstream \in BOOLEAN
         /\ e.target \in {"none", "loopback", "remote"}
         /\ e.service \in {"refused", "plain", "weak suite", "expired", "good"}
         /\ e.sbom \in BOOLEAN /\ e.signature \in BOOLEAN
         /\ e.auditFile \in {"off", "gone"} \cup FileModes
         /\ e.syslog \in BOOLEAN /\ e.auth \in BOOLEAN /\ e.webhooks \in BOOLEAN
         /\ e.fileMode \in FileModes /\ e.secretsDir \in SUBSET FileModes
         /\ e.tokenPath \in {"not given", "token", "pem"}
         /\ e.tokenFile \in {"none", "fresh", "old"}
         /\ e.certs \in SUBSET (Expiry \cup {"unparsable"})
         /\ e.nodeKey \in {"none", "fresh", "ageing", "old"}
         /\ e.cloudflared \in {"absent", "unreadable", "as released", "altered"}
         /\ e.checksum \in BOOLEAN
         /\ e.mode \in {"enforce", "audit", "disabled", "other"}
<1>1. \A f \in DOMAIN HostFacts : e[f] \in HostFacts[f]
  BY FactsAre DEF IsWorld
<1>2. /\ e.trimpath \in {"no build info", "no", "yes"}
      /\ e.listed \in BOOLEAN
      /\ e.upstream \in BOOLEAN
      /\ e.target \in {"none", "loopback", "remote"}
  BY <1>1 DEF HostFacts
<1>3. /\ e.service \in {"refused", "plain", "weak suite", "expired", "good"}
      /\ e.sbom \in BOOLEAN
      /\ e.signature \in BOOLEAN
      /\ e.auditFile \in {"off", "gone"} \cup FileModes
  BY <1>1 DEF HostFacts
<1>4. /\ e.syslog \in BOOLEAN
      /\ e.auth \in BOOLEAN
      /\ e.webhooks \in BOOLEAN
      /\ e.fileMode \in FileModes
  BY <1>1 DEF HostFacts
<1>5. /\ e.secretsDir \in SUBSET FileModes
      /\ e.tokenPath \in {"not given", "token", "pem"}
      /\ e.tokenFile \in {"none", "fresh", "old"}
      /\ e.certs \in SUBSET (Expiry \cup {"unparsable"})
  BY <1>1 DEF HostFacts
<1>6. /\ e.nodeKey \in {"none", "fresh", "ageing", "old"}
      /\ e.cloudflared \in {"absent", "unreadable", "as released", "altered"}
      /\ e.checksum \in BOOLEAN
      /\ e.mode \in {"enforce", "audit", "disabled", "other"}
  BY <1>1 DEF HostFacts
<1>. QED
  BY <1>2, <1>3, <1>4, <1>5, <1>6

(* ... and the rest.                                                       *)
LEMMA ZoneFacts ==
  ASSUME NEW e, IsWorld(e)
  PROVE  /\ e.edge \in BOOLEAN /\ e.failing \in SUBSET Calls
         /\ e.apps \in BOOLEAN /\ e.ciphers \in {"none", "approved", "mixed"}
         /\ e.minTLS \in {"1.0", "1.1", "1.2", "1.3", "other"}
         /\ e.packs \in {"none", "inactive", "no expiry", "unparsable"} \cup Expiry
         /\ e.hsts \in BOOLEAN /\ e.tunnelIds \in BOOLEAN
         /\ e.tunnel \in {"healthy", "degraded", "down"}
         /\ e.keyless \in {"none", "inactive", "active"}
         /\ e.regional \in BOOLEAN /\ e.gateway \in BOOLEAN /\ e.proxyUp \in BOOLEAN
<1>1. \A f \in DOMAIN EdgeFacts : e[f] \in EdgeFacts[f]
  BY FactsAre DEF IsWorld
<1>. QED
  BY <1>1 DEF EdgeFacts
-----------------------------------------------------------------------------
(* Verdicts of each section.                                               *)
LEMMA TunnelVerdicts ==
  ASSUME NEW e, IsWorld(e)
  PROVE  \A i \in DOMAIN RunTunnelChecks(e) : RunTunnelChecks(e)[i] \in Verdicts
<1>1. /\ checkBoringCryptoActive(e) \in Verdicts /\ checkOSFIPSMode(e) \in Verdicts
      /\ checkFIPSSelfTest(e) \in Verdicts /\ checkTunnelProtocol(e) \in Verdicts
      /\ checkTLSVersion(e) \in Verdicts /\ checkCipherSuites(e) \in Verdicts
      /\ checkKeyExchange(e) \in Verdicts /\ checkCertificateValidity(e) \in Verdicts
      /\ checkTunnelRedundancy(e) \in Verdicts /\ checkConfigDrift(e) \in Verdicts
  BY DEF Verdicts, PassIf, checkBoringCryptoActive, checkOSFIPSMode, checkFIPSSelfTest,
     checkTunnelProtocol, checkTLSVersion, checkCipherSuites, checkKeyExchange,
     checkCertificateValidity, checkTunnelRedundancy, checkConfigDrift
<1>2. checkBinaryIntegrity(e) \in Verdicts
  BY TunnelFacts DEF Verdicts, PassIf, checkBinaryIntegrity
<1>3. checkFIPSBackend(e) \in Verdicts
  BY DEF Verdicts, PassIf, checkFIPSBackend
<1>. QED
  BY <1>1, <1>2, <1>3 DEF RunTunnelChecks

LEMMA LocalVerdicts ==
  ASSUME NEW e, IsWorld(e)
  PROVE  \A i \in DOMAIN RunLocalServiceChecks(e) : RunLocalServiceChecks(e)[i] \in Verdicts
<1>1. \A v \in Verdicts : OfTarget(e, v) \in Verdicts
  BY OtherHostFacts DEF OfTarget, Verdicts
<1>2. /\ PassIf(Shakes(e), "fail") \in Verdicts
      /\ IF Shakes(e) THEN PassIf(e.service # "weak suite", "fail") \in Verdicts ELSE "unknown" \in Verdicts
      /\ IF Shakes(e) THEN PassIf(e.service # "expired", "fail") \in Verdicts ELSE "unknown" \in Verdicts
  BY DEF PassIf, Verdicts
<1>3. checkServiceReachable(e) \in Verdicts
  BY DEF PassIf, Verdicts, checkServiceReachable
<1>4. /\ checkLocalTLSEnabled(e) \in Verdicts /\ checkLocalCipherSuite(e) \in Verdicts
      /\ checkLocalCertificateValid(e) \in Verdicts
  BY <1>1, <1>2 DEF checkLocalTLSEnabled, checkLocalCipherSuite, checkLocalCertificateValid
<1>. QED
  BY <1>3, <1>4 DEF RunLocalServiceChecks

LEMMA Urgencies ==
  ASSUME NEW e, IsWorld(e)
  PROVE  GetMigrationStatus(e) \in {"none", "low", "medium", "high", "critical"}
BY TunnelFacts DEF GetMigrationStatus, SunsetUrgency, FIPSStandard, Detect

LEMMA BuildVerdicts ==
  ASSUME NEW e, IsWorld(e)
  PROVE  \A i \in DOMAIN RunBuildSupplyChainChecks(e) : RunBuildSupplyChainChecks(e)[i] \in Verdicts
<1>1. /\ checkBuildManifestPresent(e) \in Verdicts /\ checkSBOMPresent(e) \in Verdicts
      /\ checkReproducibleBuild(e) \in Verdicts /\ checkSignatureValid(e) \in Verdicts
      /\ checkFIPSCertsListed(e) \in Verdicts /\ checkUpstreamVersion(e) \in Verdicts
  BY DEF Verdicts, PassIf, checkBuildManifestPresent, checkSBOMPresent, checkReproducibleBuild,
     checkSignatureValid, checkFIPSCertsListed, checkUpstreamVersion
<1>2. checkFIPSModuleSunset(e) \in Verdicts
  BY Urgencies DEF Verdicts, checkFIPSModuleSunset
<1>. QED
  BY <1>1, <1>2 DEF RunBuildSupplyChainChecks

(* What the tables of verdicts say.                                        *)
LEMMA ExpiryVerdicts ==
  OfExpiry["expired"] = "fail" /\ OfExpiry["ending"] = "warning" /\ OfExpiry["later"] = "pass"
BY DEF OfExpiry

LEMMA AgeVerdicts ==
  LET r == [none |-> "unknown", fresh |-> "pass", ageing |-> "warning", old |-> "fail"]
  IN r["none"] = "unknown" /\ r["fresh"] = "pass" /\ r["ageing"] = "warning" /\ r["old"] = "fail"
OBVIOUS

LEMMA HealthVerdicts ==
  LET r == [healthy |-> "pass", degraded |-> "warning", down |-> "fail"]
  IN r["healthy"] = "pass" /\ r["degraded"] = "warning" /\ r["down"] = "fail"
OBVIOUS

LEMMA SecurityVerdicts ==
  ASSUME NEW e, IsWorld(e)
  PROVE  \A i \in DOMAIN RunSecurityOpsChecks(e) : RunSecurityOpsChecks(e)[i] \in Verdicts
<1>1. /\ checkAuditLogActive(e) \in Verdicts /\ checkDashboardAuth(e) \in Verdicts
      /\ checkFailedAuthMonitoring(e) \in Verdicts /\ checkAlertingConfigured(e) \in Verdicts
      /\ checkLogForwarding(e) \in Verdicts /\ checkAuditLogIntegrity(e) \in Verdicts
      /\ checkComplianceScanRecent(e) \in Verdicts /\ checkSecurityPolicyEnforced(e) \in Verdicts
  BY DEF Verdicts, PassIf, checkAuditLogActive, checkDashboardAuth, checkFailedAuthMonitoring,
     checkAlertingConfigured, checkLogForwarding, checkAuditLogIntegrity, checkComplianceScanRecent,
     checkSecurityPolicyEnforced
<1>2. checkSecretsAtRest(e) \in Verdicts
  BY DEF Verdicts, checkSecretsAtRest
<1>3. checkTunnelTokenExpiry(e) \in Verdicts
  <2>1. TokenPath(e) \in {"none", "pem", "token"}
    BY OtherHostFacts DEF TokenPath
  <2>2. checkPEMExpiry(e) \in Verdicts
    BY DEF checkPEMExpiry, OfExpiry, Expiry, Verdicts
  <2>. QED
    BY <2>1, <2>2 DEF checkTunnelTokenExpiry, PassIf, Verdicts
<1>4. checkTLSCertExpiry(e) \in Verdicts
  BY DEF Verdicts, PassIf, checkTLSCertExpiry
<1>5. checkFleetTokenAge(e) \in Verdicts
  BY OtherHostFacts, AgeVerdicts DEF Verdicts, checkFleetTokenAge
<1>6. checkUpstreamIntegrity(e) \in Verdicts
  BY DEF Verdicts, PassIf, checkUpstreamIntegrity
<1>. QED
  BY <1>1, <1>2, <1>3, <1>4, <1>5, <1>6 DEF RunSecurityOpsChecks

LEMMA EdgeVerdicts ==
  ASSUME NEW e, IsWorld(e)
  PROVE  \A i \in DOMAIN RunEdgeChecks(e) : RunEdgeChecks(e)[i] \in Verdicts
<1>1. \A v \in Verdicts, c \in Calls : Answered(e, c, v) \in Verdicts
  BY DEF Answered, Verdicts
<1>2. "pass" \in Verdicts /\ "fail" \in Verdicts /\ "warning" \in Verdicts /\ "unknown" \in Verdicts
  BY DEF Verdicts
<1>3. \A b, v : v \in Verdicts => PassIf(b, v) \in Verdicts
  BY DEF PassIf, Verdicts
<1>4. /\ checkAccessPolicy(e) \in Verdicts /\ checkIdentityProvider(e) \in Verdicts
      /\ checkAuthMethod(e) \in Verdicts /\ checkMFAEnforced(e) \in Verdicts
      /\ checkCipherRestriction(e) \in Verdicts /\ checkHSTS(e) \in Verdicts
      /\ checkKeylessSSL(e) \in Verdicts /\ checkRegionalServices(e) \in Verdicts
  BY <1>1, <1>2, <1>3 DEF Calls, checkAccessPolicy, checkIdentityProvider, checkAuthMethod,
     checkMFAEnforced, checkCipherRestriction, checkHSTS, checkKeylessSSL, checkRegionalServices
<1>5. checkMinTLSVersion(e) \in Verdicts
  BY <1>1, <1>2, ZoneFacts DEF Calls, checkMinTLSVersion
<1>6. checkEdgeCertificate(e) \in Verdicts
  <2>. DEFINE v == CASE e.packs = "none" -> "fail"
                     [] e.packs \in {"inactive", "unparsable"} -> "warning"
                     [] e.packs = "no expiry" -> "pass"
                     [] e.packs \in Expiry -> OfExpiry[e.packs]
  <2>1. e.packs \in {"none", "inactive", "no expiry", "unparsable", "expired", "ending", "later"}
    BY ZoneFacts DEF Expiry
  <2>2. v \in Verdicts
    BY <1>2, <2>1, ExpiryVerdicts DEF Expiry
  <2>3. checkEdgeCertificate(e) = Answered(e, "GetCertificatePacks", v)
    BY DEF checkEdgeCertificate
  <2>. HIDE DEF v
  <2>. QED
    BY <1>1, <2>2, <2>3 DEF Calls
<1>7. checkTunnelHealth(e) \in Verdicts
  <2>. DEFINE v == [healthy |-> "pass", degraded |-> "warning", down |-> "fail"][e.tunnel]
  <2>1. v \in Verdicts
    BY <1>2, ZoneFacts, HealthVerdicts
  <2>2. checkTunnelHealth(e) = IF ~e.tunnelIds THEN "unknown" ELSE Answered(e, "GetTunnel", v)
    BY DEF checkTunnelHealth
  <2>. HIDE DEF v
  <2>. QED
    BY <1>1, <1>2, <2>1, <2>2 DEF Calls
<1>. QED
  BY <1>4, <1>5, <1>6, <1>7 DEF RunEdgeChecks

LEMMA ClientVerdicts ==
  ASSUME NEW p, NEW l
  PROVE  \A i \in DOMAIN RunClientPostureChecks(p, l) : RunClientPostureChecks(p, l)[i] \in Verdicts
<1>1. \A b : PassIf(b, "warning") \in Verdicts
  BY DEF PassIf, Verdicts
<1>2. "pass" \in Verdicts /\ "warning" \in Verdicts
  BY DEF Verdicts
<1>3. /\ checkClientOSFIPS(p) \in Verdicts /\ checkClientOSType(p) \in Verdicts
      /\ checkDevicePosture(p) \in Verdicts /\ checkMDMEnrolled(p) \in Verdicts
      /\ checkClientCertificate \in Verdicts /\ checkBrowserTLS(l) \in Verdicts
      /\ checkNegotiatedCipher(l) \in Verdicts
  BY <1>1, <1>2 DEF checkClientOSFIPS, checkClientOSType, checkDevicePosture,
     checkMDMEnrolled, checkClientCertificate, checkBrowserTLS, checkNegotiatedCipher
<1>. QED
  BY <1>2, <1>3 DEF RunClientPostureChecks

LEMMA GatewayVerdicts ==
  ASSUME NEW e, NEW l
  PROVE  \A i \in DOMAIN RunGatewayClientChecks(e, l) : RunGatewayClientChecks(e, l)[i] \in Verdicts
<1>1. OfStats(l) \in Verdicts /\ "unknown" \in Verdicts /\ "pass" \in Verdicts
  BY DEF OfStats, PassIf, Verdicts
<1>. QED
  BY <1>1 DEF RunGatewayClientChecks
-----------------------------------------------------------------------------
(* One fact or several were mended, and the rest is as it was.             *)
Better(old, new) ==
  /\ IsWorld(old) /\ IsWorld(new)
  /\ \A f \in DOMAIN Facts : new[f] = old[f] \/ Mended(f, old, new)

(* Classes that the tunnel and build sections tell apart.                  *)
LEMMA MendedTunnel ==
  ASSUME NEW old, NEW new, Better(old, new)
  PROVE  /\ (new.build = old.build \/ new.build = "boring 140-3")
         /\ new.daysLeft = old.daysLeft
         /\ (new.trimpath = old.trimpath \/ new.trimpath = "yes")
         /\ (new.osFips = old.osFips \/ new.osFips = "on")
         /\ (new.metrics = old.metrics \/ new.metrics = "serving")
         /\ (new.daemon = old.daemon \/ new.daemon = "with token")
         /\ (new.binary = old.binary \/ (new.binary = "as built" /\ old.binary \notin Unseen))
         /\ (new.loginCert = old.loginCert \/ (new.loginCert = "later" /\ old.loginCert \notin Unseen))
         /\ new.manifest = old.manifest
         /\ new.config = old.config
<1>1. \A f \in DOMAIN HostFacts : new[f] = old[f] \/ Mended(f, old, new)
  BY FactsAre DEF Better
<1>2. /\ (new.build = old.build \/ new.build = "boring 140-3")
      /\ new.daysLeft = old.daysLeft
      /\ (new.trimpath = old.trimpath \/ new.trimpath = "yes")
  BY <1>1 DEF HostFacts, Mended, Best
<1>3. /\ (new.osFips = old.osFips \/ new.osFips = "on")
      /\ (new.metrics = old.metrics \/ new.metrics = "serving")
      /\ (new.daemon = old.daemon \/ new.daemon = "with token")
  BY <1>1 DEF HostFacts, Mended, Best
<1>4. /\ (new.binary = old.binary \/ (new.binary = "as built" /\ old.binary \notin Unseen))
      /\ (new.loginCert = old.loginCert \/ (new.loginCert = "later" /\ old.loginCert \notin Unseen))
  BY <1>1 DEF HostFacts, Mended, Best
<1>5. /\ new.manifest = old.manifest
      /\ new.config = old.config
  BY <1>1 DEF HostFacts, Mended, Best
<1>. QED
  BY <1>2, <1>3, <1>4, <1>5

(* Classes that the local and security sections tell apart.                *)
LEMMA MendedService ==
  ASSUME NEW old, NEW new, Better(old, new)
  PROVE  /\ (new.service = old.service \/ new.service = "good")
         /\ new.target = old.target
         /\ (new.auditFile = old.auditFile \/ new.auditFile = "tight")
         /\ (new.fileMode = old.fileMode \/ new.fileMode = "tight")
         /\ (new.mode = old.mode \/ new.mode = "enforce")
         /\ (new.tokenFile = old.tokenFile \/ (new.tokenFile = "fresh" /\ old.tokenFile \notin Unseen))
         /\ (new.nodeKey = old.nodeKey \/ (new.nodeKey = "fresh" /\ old.nodeKey \notin Unseen))
         /\ (new.cloudflared = old.cloudflared \/ (new.cloudflared = "as released" /\ old.cloudflared \notin Unseen))
         /\ new.tokenPath = old.tokenPath
<1>1. \A f \in DOMAIN HostFacts : new[f] = old[f] \/ Mended(f, old, new)
  BY FactsAre DEF Better
<1>2. /\ (new.service = old.service \/ new.service = "good")
      /\ new.target = old.target
      /\ (new.auditFile = old.auditFile \/ new.auditFile = "tight")
  BY <1>1 DEF HostFacts, Mended, Best
<1>3. /\ (new.fileMode = old.fileMode \/ new.fileMode = "tight")
      /\ (new.mode = old.mode \/ new.mode = "enforce")
  BY <1>1 DEF HostFacts, Mended, Best
<1>4. /\ (new.tokenFile = old.tokenFile \/ (new.tokenFile = "fresh" /\ old.tokenFile \notin Unseen))
      /\ (new.nodeKey = old.nodeKey \/ (new.nodeKey = "fresh" /\ old.nodeKey \notin Unseen))
      /\ (new.cloudflared = old.cloudflared \/ (new.cloudflared = "as released" /\ old.cloudflared \notin Unseen))
  BY <1>1 DEF HostFacts, Mended, Best
<1>5. /\ new.tokenPath = old.tokenPath
  BY <1>1 DEF HostFacts, Mended, Best
<1>. QED
  BY <1>2, <1>3, <1>4, <1>5

(* Sets of certificates and files.                                         *)
LEMMA MendedFiles ==
  ASSUME NEW old, NEW new, Better(old, new)
  PROVE  /\ (new.certs = old.certs \/ new.certs = {"later"})
         /\ new.secretsDir = old.secretsDir
<1>1. \A f \in DOMAIN HostFacts : new[f] = old[f] \/ Mended(f, old, new)
  BY FactsAre DEF Better
<1>2. /\ (new.certs = old.certs \/ new.certs = {"later"})
      /\ new.secretsDir = old.secretsDir
  BY <1>1 DEF HostFacts, Mended, Best
<1>. QED
  BY <1>2

(* Classes that the others tell apart.                                     *)
LEMMA MendedZone ==
  ASSUME NEW old, NEW new, Better(old, new)
  PROVE  /\ (new.ciphers = old.ciphers \/ new.ciphers = "approved")
         /\ (new.minTLS = old.minTLS \/ new.minTLS = "1.3")
         /\ (new.packs = old.packs \/ new.packs = "later")
         /\ (new.tunnel = old.tunnel \/ new.tunnel = "healthy")
         /\ (new.keyless = old.keyless \/ new.keyless = "active")
         /\ new.failing = old.failing
<1>1. \A f \in DOMAIN EdgeFacts : new[f] = old[f] \/ Mended(f, old, new)
  BY FactsAre DEF Better
<1>2. /\ (new.ciphers = old.ciphers \/ new.ciphers = "approved")
      /\ (new.minTLS = old.minTLS \/ new.minTLS = "1.3")
      /\ (new.packs = old.packs \/ new.packs = "later")
  BY <1>1 DEF EdgeFacts, Mended, Best
<1>3. /\ (new.tunnel = old.tunnel \/ new.tunnel = "healthy")
      /\ (new.keyless = old.keyless \/ new.keyless = "active")
  BY <1>1 DEF EdgeFacts, Mended, Best
<1>4. /\ new.failing = old.failing
  BY <1>1 DEF EdgeFacts, Mended, Best
<1>. QED
  BY <1>2, <1>3, <1>4

(* What is or is not the case on the host.                                 *)
LEMMA MendedFlags ==
  ASSUME NEW old, NEW new, Better(old, new)
  PROVE  /\ (old.fips140 => new.fips140)
         /\ (new.banned => old.banned)
         /\ (old.kats => new.kats)
         /\ (old.listed => new.listed)
         /\ (old.upstream => new.upstream)
         /\ (old.sbom => new.sbom)
         /\ (old.signature => new.signature)
         /\ (old.syslog => new.syslog)
         /\ (old.auth => new.auth)
         /\ (old.webhooks => new.webhooks)
         /\ new.checksum = old.checksum
<1>1. \A f \in DOMAIN HostFacts : new[f] = old[f] \/ Mended(f, old, new)
  BY FactsAre DEF Better
<1>2. /\ (old.fips140 => new.fips140)
      /\ (new.banned => old.banned)
      /\ (old.kats => new.kats)
  BY <1>1 DEF HostFacts, Mended, Best
<1>3. /\ (old.listed => new.listed)
      /\ (old.upstream => new.upstream)
      /\ (old.sbom => new.sbom)
      /\ (old.signature => new.signature)
  BY <1>1 DEF HostFacts, Mended, Best
<1>4. /\ (old.syslog => new.syslog)
      /\ (old.auth => new.auth)
      /\ (old.webhooks => new.webhooks)
      /\ new.checksum = old.checksum
  BY <1>1 DEF HostFacts, Mended, Best
<1>. QED
  BY <1>2, <1>3, <1>4

(* What is or is not the case in the zone.                                 *)
LEMMA MendedSettings ==
  ASSUME NEW old, NEW new, Better(old, new)
  PROVE  /\ (old.apps => new.apps)
         /\ (old.hsts => new.hsts)
         /\ (old.regional => new.regional)
         /\ new.tunnelIds = old.tunnelIds
         /\ new.edge = old.edge
         /\ new.gateway = old.gateway
         /\ new.proxyUp = old.proxyUp
<1>1. \A f \in DOMAIN EdgeFacts : new[f] = old[f] \/ Mended(f, old, new)
  BY FactsAre DEF Better
<1>2. /\ (old.apps => new.apps)
      /\ (old.hsts => new.hsts)
      /\ (old.regional => new.regional)
  BY <1>1 DEF EdgeFacts, Mended, Best
<1>3. /\ new.tunnelIds = old.tunnelIds
      /\ new.edge = old.edge
      /\ new.gateway = old.gateway
      /\ new.proxyUp = old.proxyUp
  BY <1>1 DEF EdgeFacts, Mended, Best
<1>. QED
  BY <1>2, <1>3
-----------------------------------------------------------------------------
(* Mending helps, section by section.                                      *)
NoWorse(v, u) == Rank[v] <= Rank[u]

(* A pass is the best and a fail is the worst of verdicts.                 *)
LEMMA Ranks ==
  /\ \A v \in Verdicts : NoWorse("pass", v) /\ NoWorse(v, v) /\ NoWorse(v, "fail")
  /\ NoWorse("unknown", "warning")
  /\ "pass" \in Verdicts /\ "fail" \in Verdicts /\ "warning" \in Verdicts /\ "unknown" \in Verdicts
<1>1. Rank["pass"] = 0 /\ Rank["unknown"] = 1 /\ Rank["warning"] = 2 /\ Rank["fail"] = 3
  BY DEF Rank
<1>. QED
  BY <1>1 DEF NoWorse, Verdicts

(* A module, once there, is there; the one mended to needs no migration.   *)
LEMMA ModuleHelped ==
  ASSUME NEW old, NEW new, Better(old, new)
  PROVE  /\ Detect(new) = "none" => Detect(old) = "none"
         /\ Detect(old) # "none" /\ Validated(old) => Validated(new)
<1>1. new.build = old.build \/ new.build = "boring 140-3"
  BY MendedTunnel
<1>2. old.fips140 => new.fips140
  BY MendedFlags
<1>. QED
  BY <1>1, <1>2 DEF Detect, Validated

LEMMA TunnelHelped ==
  ASSUME NEW old, NEW new, Better(old, new)
  PROVE  \A i \in DOMAIN RunTunnelChecks(old) :
           NoWorse(RunTunnelChecks(new)[i], RunTunnelChecks(old)[i])
<1>. DEFINE H(v, u) == NoWorse(v, u)
<1>1. H(checkBoringCryptoActive(new), checkBoringCryptoActive(old))
  BY ModuleHelped, Ranks DEF checkBoringCryptoActive, PassIf
<1>2. H(checkOSFIPSMode(new), checkOSFIPSMode(old))
  BY MendedTunnel, Ranks DEF checkOSFIPSMode, PassIf
<1>3. H(checkFIPSSelfTest(new), checkFIPSSelfTest(old))
  <2>1. CriticalFailures(new) \subseteq CriticalFailures(old)
    <3>1. (old.kats => new.kats) /\ (new.banned => old.banned)
      BY MendedFlags
    <3>. QED
      BY <3>1, ModuleHelped DEF CriticalFailures, CipherSuitesFail
  <2>. QED
    BY <2>1, Ranks DEF checkFIPSSelfTest, PassIf
<1>4. /\ H(checkTunnelProtocol(new), checkTunnelProtocol(old))
      /\ H(checkTunnelRedundancy(new), checkTunnelRedundancy(old))
  BY MendedTunnel, Ranks DEF checkTunnelProtocol, checkTunnelRedundancy, PassIf
<1>5. /\ H(checkTLSVersion(new), checkTLSVersion(old))
      /\ H(checkKeyExchange(new), checkKeyExchange(old))
  BY Ranks DEF checkTLSVersion, checkKeyExchange
<1>6. H(checkCipherSuites(new), checkCipherSuites(old))
  <2>1. new.banned => old.banned
    BY MendedFlags
  <2>. QED
    BY <2>1, ModuleHelped, Ranks DEF checkCipherSuites, PassIf
<1>7. H(checkCertificateValidity(new), checkCertificateValidity(old))
  BY MendedTunnel, Ranks DEF checkCertificateValidity, PassIf, Unseen
<1>8. H(checkBinaryIntegrity(new), checkBinaryIntegrity(old))
  <2>1. new.binary = old.binary \/ (new.binary = "as built" /\ old.binary \notin Unseen)
    BY MendedTunnel
  <2>3. new.manifest = old.manifest
    BY MendedTunnel
  <2>2. /\ old.binary \in {"unknown", "unreadable", "as built", "altered"}
        /\ old.manifest \in {"unreadable", "no hash", "complete"}
    BY TunnelFacts DEF Better
  <2>. QED
    BY <2>1, <2>2, <2>3, Ranks DEF checkBinaryIntegrity, PassIf, Unseen
<1>9. H(checkConfigDrift(new), checkConfigDrift(old))
  BY MendedTunnel, Ranks DEF checkConfigDrift, PassIf
<1>10. H(checkFIPSBackend(new), checkFIPSBackend(old))
  BY ModuleHelped, Ranks DEF checkFIPSBackend, PassIf
<1>. QED
  BY <1>1, <1>2, <1>3, <1>4, <1>5, <1>6, <1>7, <1>8, <1>9, <1>10 DEF RunTunnelChecks

LEMMA LocalHelped ==
  ASSUME NEW old, NEW new, Better(old, new)
  PROVE  \A i \in DOMAIN RunLocalServiceChecks(old) :
           NoWorse(RunLocalServiceChecks(new)[i], RunLocalServiceChecks(old)[i])
<1>. DEFINE H(v, u) == NoWorse(v, u)
<1>0. new.target = old.target
  BY MendedService
<1>1. new.service = old.service \/ new.service = "good"
  BY MendedService
<1>2. \A v, u : v \in Verdicts /\ u \in Verdicts /\ H(v, u) => H(OfTarget(new, v), OfTarget(old, u))
  BY <1>0, OtherHostFacts, Ranks DEF OfTarget, Better
<1>3. H(checkLocalTLSEnabled(new), checkLocalTLSEnabled(old))
  BY <1>1, <1>2, Ranks DEF checkLocalTLSEnabled, PassIf, Shakes
<1>4. H(checkLocalCipherSuite(new), checkLocalCipherSuite(old))
  BY <1>1, <1>2, Ranks DEF checkLocalCipherSuite, PassIf, Shakes
<1>5. H(checkLocalCertificateValid(new), checkLocalCertificateValid(old))
  BY <1>1, <1>2, Ranks DEF checkLocalCertificateValid, PassIf, Shakes
<1>6. H(checkServiceReachable(new), checkServiceReachable(old))
  BY <1>0, <1>1, Ranks DEF checkServiceReachable, PassIf
<1>. QED
  BY <1>3, <1>4, <1>5, <1>6 DEF RunLocalServiceChecks

LEMMA BuildHelped ==
  ASSUME NEW old, NEW new, Better(old, new)
  PROVE  \A i \in DOMAIN RunBuildSupplyChainChecks(old) :
           NoWorse(RunBuildSupplyChainChecks(new)[i], RunBuildSupplyChainChecks(old)[i])
<1>. DEFINE H(v, u) == NoWorse(v, u)
<1>1. H(checkBuildManifestPresent(new), checkBuildManifestPresent(old))
  BY MendedTunnel, Ranks DEF checkBuildManifestPresent, PassIf
<1>2. /\ H(checkSBOMPresent(new), checkSBOMPresent(old))
      /\ H(checkFIPSCertsListed(new), checkFIPSCertsListed(old))
      /\ H(checkUpstreamVersion(new), checkUpstreamVersion(old))
  <2>1. new.manifest = old.manifest
    BY MendedTunnel
  <2>2. (old.sbom => new.sbom) /\ (old.listed => new.listed) /\ (old.upstream => new.upstream)
    BY MendedFlags
  <2>. QED
    BY <2>1, <2>2, Ranks DEF checkSBOMPresent, checkFIPSCertsListed, checkUpstreamVersion, PassIf
<1>3. H(checkReproducibleBuild(new), checkReproducibleBuild(old))
  BY MendedTunnel, Ranks DEF checkReproducibleBuild, PassIf
<1>4. H(checkSignatureValid(new), checkSignatureValid(old))
  <2>1. old.signature => new.signature
    BY MendedFlags
  <2>2. new.binary = old.binary \/ (new.binary = "as built" /\ old.binary \notin Unseen)
    BY MendedTunnel
  <2>. QED
    BY <2>1, <2>2, Ranks DEF checkSignatureValid, PassIf, Unseen
<1>5. H(checkFIPSModuleSunset(new), checkFIPSModuleSunset(old))
  <2>1. new.build = old.build \/ new.build = "boring 140-3"
    BY MendedTunnel
  <2>6. new.daysLeft = old.daysLeft
    BY MendedTunnel
  <2>7. old.fips140 => new.fips140
    BY MendedFlags
  <2>2. CASE GetMigrationStatus(new) = GetMigrationStatus(old)
    <3>1. checkFIPSModuleSunset(old) \in Verdicts
      BY Urgencies DEF Better, Verdicts, checkFIPSModuleSunset
    <3>. QED
      BY <2>2, <3>1, Ranks DEF checkFIPSModuleSunset
  <2>3. CASE new.build = "boring 140-3"
    <3>1. GetMigrationStatus(new) = "none"
      BY <2>3 DEF GetMigrationStatus, Detect, FIPSStandard
    <3>2. checkFIPSModuleSunset(new) = "pass"
      BY <3>1 DEF checkFIPSModuleSunset
    <3>3. checkFIPSModuleSunset(old) \in Verdicts
      BY Urgencies DEF Better, Verdicts, checkFIPSModuleSunset
    <3>. QED
      BY <3>2, <3>3, Ranks
  <2>4. CASE GetMigrationStatus(old) = "critical"
    <3>1. checkFIPSModuleSunset(old) = "fail"
      BY <2>4 DEF checkFIPSModuleSunset
    <3>2. checkFIPSModuleSunset(new) \in Verdicts
      BY Urgencies DEF Better, Verdicts, checkFIPSModuleSunset
    <3>. QED
      BY <3>1, <3>2, Ranks
  <2>5. \/ GetMigrationStatus(new) = GetMigrationStatus(old)
        \/ new.build = "boring 140-3" \/ GetMigrationStatus(old) = "critical"
    BY <2>1, <2>6, <2>7, TunnelFacts DEF Better, GetMigrationStatus, Detect, FIPSStandard
  <2>. QED
    BY <2>2, <2>3, <2>4, <2>5
<1>. QED
  BY <1>1, <1>2, <1>3, <1>4, <1>5 DEF RunBuildSupplyChainChecks

LEMMA SecurityHelped ==
  ASSUME NEW old, NEW new, Better(old, new)
  PROVE  \A i \in DOMAIN RunSecurityOpsChecks(old) :
           NoWorse(RunSecurityOpsChecks(new)[i], RunSecurityOpsChecks(old)[i])
<1>. DEFINE H(v, u) == NoWorse(v, u)
<1>1. /\ old.syslog => new.syslog
      /\ old.auth => new.auth
      /\ old.webhooks => new.webhooks
  BY MendedFlags
<1>2. new.auditFile = old.auditFile \/ new.auditFile = "tight"
  BY MendedService
<1>3. new.loginCert = old.loginCert \/ (new.loginCert = "later" /\ old.loginCert \notin Unseen)
  BY MendedTunnel
<1>4. new.tokenFile = old.tokenFile \/ (new.tokenFile = "fresh" /\ old.tokenFile \notin Unseen)
  BY MendedService
<1>5. new.nodeKey = old.nodeKey \/ (new.nodeKey = "fresh" /\ old.nodeKey \notin Unseen)
  BY MendedService
<1>6. H(checkAuditLogActive(new), checkAuditLogActive(old))
  BY <1>2, Ranks DEF checkAuditLogActive, PassIf
<1>7. H(checkDashboardAuth(new), checkDashboardAuth(old))
  BY <1>1, Ranks DEF checkDashboardAuth, PassIf
<1>8. H(checkFailedAuthMonitoring(new), checkFailedAuthMonitoring(old))
  BY <1>1, <1>2, Ranks DEF checkFailedAuthMonitoring, PassIf
<1>9. H(checkAlertingConfigured(new), checkAlertingConfigured(old))
  BY <1>1, Ranks DEF checkAlertingConfigured, PassIf
<1>10. H(checkSecretsAtRest(new), checkSecretsAtRest(old))
  <2>. DEFINE found(e) == \/ e.tokenFile # "none" \/ e.nodeKey # "none" \/ e.loginCert # "none"
                          \/ e.config = "present"
  <2>1. found(new) <=> found(old)
    <3>1. new.config = old.config
      BY MendedTunnel
    <3>. QED
      BY <1>3, <1>4, <1>5, <3>1 DEF Unseen
  <2>2. new.secretsDir = old.secretsDir
    BY MendedFiles
  <2>3. new.fileMode = old.fileMode \/ new.fileMode = "tight"
    BY MendedService
  <2>4. /\ SecretModes(new) = new.secretsDir \cup (IF found(new) THEN {new.fileMode} ELSE {})
        /\ SecretModes(old) = old.secretsDir \cup (IF found(old) THEN {old.fileMode} ELSE {})
    BY DEF SecretModes
  <2>. HIDE DEF found
  <2>5. \/ SecretModes(new) = SecretModes(old)
        \/ SecretModes(new) \subseteq SecretModes(old) \cup {"tight"}
    BY <2>1, <2>2, <2>3, <2>4
  <2>6. checkSecretsAtRest(new) = checkSecretsAtRest(old) \/ checkSecretsAtRest(new) = "pass"
        \/ checkSecretsAtRest(old) = "fail"
    BY <2>5 DEF checkSecretsAtRest
  <2>7. checkSecretsAtRest(new) \in Verdicts /\ checkSecretsAtRest(old) \in Verdicts
    BY DEF checkSecretsAtRest, Verdicts
  <2>. QED
    BY <2>6, <2>7, Ranks
<1>11. H(checkTunnelTokenExpiry(new), checkTunnelTokenExpiry(old))
  <2>1. new.tokenPath = old.tokenPath /\ old.tokenPath \in {"not given", "token", "pem"}
    BY MendedService, OtherHostFacts DEF Better
  <2>2. TokenPath(new) = TokenPath(old)
    BY <1>3, <1>4, <2>1 DEF TokenPath, Unseen
  <2>3. TokenPath(old) \in {"none", "pem", "token"}
    BY <2>1 DEF TokenPath
  <2>4. CASE TokenPath(old) = "none"
    <3>1. new.daemon = old.daemon \/ new.daemon = "with token"
      BY MendedTunnel
    <3>. QED
      BY <2>2, <2>4, <3>1, Ranks DEF checkTunnelTokenExpiry, PassIf
  <2>5. CASE TokenPath(old) = "pem"
    <3>1. checkPEMExpiry(new) = checkPEMExpiry(old) \/ checkPEMExpiry(new) = "pass"
      BY <1>3, ExpiryVerdicts DEF checkPEMExpiry, Expiry
    <3>2. checkPEMExpiry(old) \in Verdicts
      BY ExpiryVerdicts DEF checkPEMExpiry, Expiry, Verdicts
    <3>. QED
      BY <2>2, <2>5, <3>1, <3>2, Ranks DEF checkTunnelTokenExpiry
  <2>6. CASE TokenPath(old) = "token"
    BY <1>4, <2>2, <2>6, Ranks DEF checkTunnelTokenExpiry, PassIf, Unseen
  <2>. QED
    BY <2>3, <2>4, <2>5, <2>6
<1>12. H(checkTLSCertExpiry(new), checkTLSCertExpiry(old))
  <2>1. new.certs = old.certs \/ new.certs = {"later"}
    BY MendedFiles
  <2>2. checkTLSCertExpiry(new) = checkTLSCertExpiry(old) \/ checkTLSCertExpiry(new) = "pass"
    <3>1. CASE new.certs = {"later"}
      BY <3>1 DEF checkTLSCertExpiry, PassIf
    <3>2. CASE new.certs = old.certs
      BY <3>2 DEF checkTLSCertExpiry
    <3>. QED
      BY <2>1, <3>1, <3>2
  <2>3. checkTLSCertExpiry(old) \in Verdicts
    BY DEF checkTLSCertExpiry, PassIf, Verdicts
  <2>. QED
    BY <2>2, <2>3, Ranks
<1>13. H(checkFleetTokenAge(new), checkFleetTokenAge(old))
  <2>1. old.nodeKey \in {"none", "fresh", "ageing", "old"}
    BY OtherHostFacts DEF Better
  <2>2. checkFleetTokenAge(new) = checkFleetTokenAge(old) \/ checkFleetTokenAge(new) = "pass"
    BY <1>5, AgeVerdicts DEF checkFleetTokenAge
  <2>3. checkFleetTokenAge(old) \in Verdicts
    BY <2>1, AgeVerdicts DEF checkFleetTokenAge, Verdicts
  <2>. QED
    BY <2>2, <2>3, Ranks
<1>14. H(checkUpstreamIntegrity(new), checkUpstreamIntegrity(old))
  <2>1. /\ new.cloudflared = old.cloudflared
           \/ (new.cloudflared = "as released" /\ old.cloudflared \notin Unseen)
    BY MendedService
  <2>2. new.checksum = old.checksum
    BY MendedFlags
  <2>3. checkUpstreamIntegrity(new) = checkUpstreamIntegrity(old)
        \/ checkUpstreamIntegrity(new) = "pass"
    BY <2>1, <2>2 DEF checkUpstreamIntegrity, PassIf, Unseen
  <2>4. checkUpstreamIntegrity(old) \in Verdicts
    BY DEF checkUpstreamIntegrity, PassIf, Verdicts
  <2>. QED
    BY <2>3, <2>4, Ranks
<1>15. H(checkLogForwarding(new), checkLogForwarding(old))
  BY <1>1, <1>2, Ranks DEF checkLogForwarding, PassIf
<1>16. H(checkAuditLogIntegrity(new), checkAuditLogIntegrity(old))
  BY <1>2, Ranks DEF checkAuditLogIntegrity, PassIf
<1>17. H(checkComplianceScanRecent(new), checkComplianceScanRecent(old))
  BY Ranks DEF checkComplianceScanRecent
<1>18. H(checkSecurityPolicyEnforced(new), checkSecurityPolicyEnforced(old))
  <2>1. new.mode = old.mode \/ new.mode = "enforce"
    BY MendedService
  <2>. QED
    BY <2>1, Ranks DEF checkSecurityPolicyEnforced, PassIf
<1>. QED
  BY <1>6, <1>7, <1>8, <1>9, <1>10, <1>11, <1>12, <1>13, <1>14, <1>15, <1>16, <1>17, <1>18
     DEF RunSecurityOpsChecks

LEMMA EdgeHelped ==
  ASSUME NEW old, NEW new, Better(old, new)
  PROVE  \A i \in DOMAIN RunEdgeChecks(old) :
           NoWorse(RunEdgeChecks(new)[i], RunEdgeChecks(old)[i])
<1>. DEFINE H(v, u) == NoWorse(v, u)
<1>1. \A c, v, u : v \in Verdicts /\ u \in Verdicts /\ H(v, u)
                     => H(Answered(new, c, v), Answered(old, c, u))
  <2>1. new.failing = old.failing
    BY MendedZone
  <2>. QED
    BY <2>1, Ranks DEF Answered
<1>2. \A c, v, u : u \in Verdicts /\ v \in {u, "pass"} => H(Answered(new, c, v), Answered(old, c, u))
  BY <1>1, Ranks
<1>4. /\ old.apps => new.apps
      /\ old.hsts => new.hsts
      /\ old.regional => new.regional
  BY MendedSettings
<1>5. /\ H(checkAccessPolicy(new), checkAccessPolicy(old))
      /\ H(checkIdentityProvider(new), checkIdentityProvider(old))
      /\ H(checkHSTS(new), checkHSTS(old))
      /\ H(checkRegionalServices(new), checkRegionalServices(old))
  BY <1>2, <1>4, Ranks DEF checkAccessPolicy, checkIdentityProvider, checkHSTS, checkRegionalServices, PassIf
<1>6. H(checkAuthMethod(new), checkAuthMethod(old)) /\ H(checkMFAEnforced(new), checkMFAEnforced(old))
  BY Ranks DEF checkAuthMethod, checkMFAEnforced
<1>7. H(checkCipherRestriction(new), checkCipherRestriction(old))
  <2>1. new.ciphers = old.ciphers \/ new.ciphers = "approved"
    BY MendedZone
  <2>. QED
    BY <1>2, <2>1, Ranks DEF checkCipherRestriction, PassIf
<1>8. H(checkMinTLSVersion(new), checkMinTLSVersion(old))
  <2>. DEFINE V(e) == CASE e.minTLS \in {"1.2", "1.3"} -> "pass"
                        [] e.minTLS \in {"1.0", "1.1"} -> "fail"
                        [] e.minTLS = "other" -> "warning"
  <2>1. new.minTLS = old.minTLS \/ new.minTLS = "1.3"
    BY MendedZone
  <2>2. old.minTLS \in {"1.0", "1.1", "1.2", "1.3", "other"}
    BY ZoneFacts DEF Better
  <2>3. V(old) \in Verdicts /\ V(new) \in {V(old), "pass"}
    BY <2>1, <2>2, Ranks
  <2>4. \A e : checkMinTLSVersion(e) = Answered(e, "GetMinTLSVersion", V(e))
    BY DEF checkMinTLSVersion
  <2>. HIDE DEF V
  <2>. QED
    BY <1>2, <2>3, <2>4
<1>9. H(checkEdgeCertificate(new), checkEdgeCertificate(old))
  <2>. DEFINE V(e) == CASE e.packs = "none" -> "fail"
                        [] e.packs \in {"inactive", "unparsable"} -> "warning"
                        [] e.packs = "no expiry" -> "pass"
                        [] e.packs \in Expiry -> OfExpiry[e.packs]
  <2>1. new.packs = old.packs \/ new.packs = "later"
    BY MendedZone
  <2>2. old.packs \in {"none", "inactive", "no expiry", "unparsable", "expired", "ending", "later"}
    BY ZoneFacts DEF Better, Expiry
  <2>3. V(old) \in Verdicts /\ V(new) \in {V(old), "pass"}
    BY <2>1, <2>2, Ranks, ExpiryVerdicts DEF Expiry
  <2>4. \A e : checkEdgeCertificate(e) = Answered(e, "GetCertificatePacks", V(e))
    BY DEF checkEdgeCertificate
  <2>. HIDE DEF V
  <2>. QED
    BY <1>2, <2>3, <2>4
<1>10. H(checkTunnelHealth(new), checkTunnelHealth(old))
  <2>. DEFINE V(e) == [healthy |-> "pass", degraded |-> "warning", down |-> "fail"][e.tunnel]
  <2>1. new.tunnel = old.tunnel \/ new.tunnel = "healthy"
    BY MendedZone
  <2>2. old.tunnel \in {"healthy", "degraded", "down"}
    BY ZoneFacts DEF Better
  <2>3. V(old) \in Verdicts /\ V(new) \in {V(old), "pass"}
    BY <2>1, <2>2, Ranks, HealthVerdicts
  <2>4. \A e : checkTunnelHealth(e) = IF ~e.tunnelIds THEN "unknown" ELSE Answered(e, "GetTunnel", V(e))
    BY DEF checkTunnelHealth
  <2>5. new.tunnelIds = old.tunnelIds
    BY MendedSettings
  <2>. HIDE DEF V
  <2>. QED
    BY <1>2, <2>3, <2>4, <2>5, Ranks
<1>11. H(checkKeylessSSL(new), checkKeylessSSL(old))
  <2>1. new.keyless = old.keyless \/ new.keyless = "active"
    BY MendedZone
  <2>. QED
    BY <1>2, <2>1, Ranks DEF checkKeylessSSL, PassIf
<1>. QED
  BY <1>5, <1>6, <1>7, <1>8, <1>9, <1>10, <1>11 DEF RunEdgeChecks

LEMMA GatewayHelped ==
  ASSUME NEW old, NEW new, Better(old, new), NEW l
  PROVE  \A i \in DOMAIN RunGatewayClientChecks(old, l) :
           NoWorse(RunGatewayClientChecks(new, l)[i], RunGatewayClientChecks(old, l)[i])
<1>1. new.proxyUp = old.proxyUp
  BY MendedSettings
<1>2. RunGatewayClientChecks(new, l) = RunGatewayClientChecks(old, l)
  BY <1>1 DEF RunGatewayClientChecks
<1>. QED
  BY <1>2, GatewayVerdicts, Ranks
-----------------------------------------------------------------------------
(* The sections of a report, and the report itself.                        *)
Names == {"tunnel", "local", "build", "security", "edge", "client", "gateway"}

(* Sections added at the end leave the first ones.                         *)
LEMMA Extended ==
  ASSUME NEW s \in Seq(Names), NEW t \in Seq(Names),
         Len(s) \geq 4, s[1] = "tunnel", s[3] = "build"
  PROVE  /\ s \o t \in Seq(Names) /\ Len(s \o t) \geq 4
         /\ (s \o t)[1] = "tunnel" /\ (s \o t)[3] = "build"
<1>1. Len(s) \in Nat /\ Len(t) \in Nat
  OBVIOUS
<1>2. 1 \in 1..Len(s) + Len(t) /\ 3 \in 1..Len(s) + Len(t)
  BY <1>1
<1>3. s \o t \in Seq(Names) /\ Len(s \o t) = Len(s) + Len(t)
  BY ConcatProperties
<1>4. (s \o t)[1] = s[1] /\ (s \o t)[3] = s[3]
  BY <1>1, <1>2, ConcatProperties
<1>. QED
  BY <1>1, <1>3, <1>4

(* Whatever is checked, the tunnel comes first, and the build third.       *)
LEMMA SectionsAre ==
  ASSUME NEW e
  PROVE  /\ Sections(e) \in Seq(Names)
         /\ Sections(e)[1] = "tunnel" /\ Sections(e)[3] = "build"
<1>. DEFINE own == <<"tunnel", "local", "build", "security">>
            zone == IF e.edge THEN <<"edge">> ELSE <<>>
            client == <<"client">>
            gate == IF e.gateway THEN <<"gateway">> ELSE <<>>
            q == own \o zone
            r == q \o client
<1>1. own \in Seq(Names) /\ Len(own) \geq 4 /\ own[1] = "tunnel" /\ own[3] = "build"
  BY DEF Names
<1>2. <<>> \in Seq(Names)
  OBVIOUS
<1>3. <<"edge">> \in Seq(Names) /\ <<"gateway">> \in Seq(Names) /\ client \in Seq(Names)
  BY DEF Names
<1>4. zone \in Seq(Names) /\ gate \in Seq(Names)
  BY <1>2, <1>3
<1>5. Sections(e) = r \o gate
  BY DEF Sections
<1>. HIDE DEF own, zone, client, gate
<1>6. q \in Seq(Names) /\ Len(q) \geq 4 /\ q[1] = "tunnel" /\ q[3] = "build"
  BY <1>1, <1>4, Extended
<1>. HIDE DEF q
<1>7. r \in Seq(Names) /\ Len(r) \geq 4 /\ r[1] = "tunnel" /\ r[3] = "build"
  BY <1>3, <1>6, Extended
<1>. HIDE DEF r
<1>. QED
  BY <1>4, <1>5, <1>7, Extended

(* Verdicts and mending, whichever section it is.                          *)
LEMMA SectionVerdicts ==
  ASSUME NEW s \in Names, NEW e, IsWorld(e), NEW p, NEW l
  PROVE  \A i \in DOMAIN SectionOf(s, e, p, l) : SectionOf(s, e, p, l)[i] \in Verdicts
<1>1. SectionOf(s, e, p, l) \in
        {RunTunnelChecks(e), RunLocalServiceChecks(e), RunBuildSupplyChainChecks(e),
         RunSecurityOpsChecks(e), RunEdgeChecks(e), RunClientPostureChecks(p, <<>>),
         RunGatewayClientChecks(e, l)}
  BY DEF SectionOf, Names
<1>. QED
  BY <1>1, TunnelVerdicts, LocalVerdicts, BuildVerdicts, SecurityVerdicts,
     EdgeVerdicts, ClientVerdicts, GatewayVerdicts

LEMMA SectionHelped ==
  ASSUME NEW s \in Names, NEW old, NEW new, Better(old, new), NEW p, NEW l
  PROVE  \A i \in DOMAIN SectionOf(s, old, p, l) :
           NoWorse(SectionOf(s, new, p, l)[i], SectionOf(s, old, p, l)[i])
<1>1. CASE s = "tunnel"
  BY <1>1, TunnelHelped DEF SectionOf
<1>2. CASE s = "local"
  BY <1>2, LocalHelped DEF SectionOf
<1>3. CASE s = "build"
  BY <1>3, BuildHelped DEF SectionOf
<1>4. CASE s = "security"
  BY <1>4, SecurityHelped DEF SectionOf
<1>5. CASE s = "edge"
  BY <1>5, EdgeHelped DEF SectionOf
<1>6. CASE s = "client"
  <2>1. /\ SectionOf(s, old, p, l) = RunClientPostureChecks(p, <<>>)
        /\ SectionOf(s, new, p, l) = RunClientPostureChecks(p, <<>>)
    BY <1>6 DEF SectionOf
  <2>. QED
    BY <2>1, ClientVerdicts, Ranks
<1>7. CASE s = "gateway"
  BY <1>7, GatewayHelped DEF SectionOf
<1>. QED
  BY <1>1, <1>2, <1>3, <1>4, <1>5, <1>6, <1>7 DEF Names
-----------------------------------------------------------------------------
(* Worlds stay worlds.                                                     *)
LEMMA WorldStep ==
  ASSUME IsWorld(env), [Next]_vars
  PROVE  IsWorld(env')
<1>1. ASSUME NEW f \in DOMAIN Facts, Change(f)
      PROVE  IsWorld(env')
  <2>1. PICK v \in Facts[f] : env' = [env EXCEPT ![f] = v]
    BY <1>1 DEF Change
  <2>. QED
    BY <2>1 DEF IsWorld
<1>2. CASE UNCHANGED env
  BY <1>2
<1>. QED
  BY <1>1, <1>2 DEF Next, Start, Check, Listen, Stop, Report, Connect, vars

(* To begin with by assumption.                                            *)
LEMMA InitWorld == Init => IsWorld(env)
BY ScanAssumption DEF Init

(* One step changes one fact.                                              *)
LEMMA MendingStep ==
  ASSUME IsWorld(env), [Next]_vars,
         NEW f \in DOMAIN Best, env'[f] # env[f], Mended(f, env, env')
  PROVE  Better(env, env')
<1>1. PICK g \in DOMAIN Facts : \E v \in Facts[g] : env' = [env EXCEPT ![g] = v]
  BY DEF Next, Start, Check, Listen, Stop, Report, Connect, Change, vars
<1>2. PICK v \in Facts[g] : env' = [env EXCEPT ![g] = v]
  BY <1>1
<1>3. \A h \in DOMAIN Facts : h # g => env'[h] = env[h]
  BY <1>2 DEF IsWorld
<1>4. f = g
  <2>1. DOMAIN Best \subseteq DOMAIN HostFacts \cup DOMAIN EdgeFacts
    BY DEF Best, HostFacts, EdgeFacts
  <2>2. DOMAIN Best \subseteq DOMAIN Facts
    BY <2>1, FactsAre
  <2>. QED
    BY <1>3, <2>2
<1>. QED
  BY <1>3, <1>4, WorldStep DEF Better

(* checker.go:47: whatever the host, the zone and the gateway are like, an *)
(* administrator who mends one thing sees no item of the next report get   *)
(* worse.  Better allows for several mended at once, and so do the lemmas. *)
THEOREM MendingMakesNothingWorse == FairSpec => MendingHelps
<1>. DEFINE A == \A f \in DOMAIN Best :
       env'[f] # env[f] /\ Mended(f, env, env') =>
         \A n \in DOMAIN Sections(env) :
           LET before == SectionOf(Sections(env)[n], env, posture, log)
               after == SectionOf(Sections(env)[n], env', posture, log)
           IN \A i \in DOMAIN before : Rank[after[i]] <= Rank[before[i]]
<1>1. ASSUME IsWorld(env), [Next]_vars
      PROVE  A
  <2>. SUFFICES ASSUME NEW f \in DOMAIN Best, env'[f] # env[f], Mended(f, env, env'),
                       NEW n \in DOMAIN Sections(env)
       PROVE  \A i \in DOMAIN SectionOf(Sections(env)[n], env, posture, log) :
                NoWorse(SectionOf(Sections(env)[n], env', posture, log)[i],
                        SectionOf(Sections(env)[n], env, posture, log)[i])
    BY DEF NoWorse
  <2>1. Better(env, env')
    BY <1>1, MendingStep
  <2>2. Sections(env)[n] \in Names
    BY SectionsAre
  <2>. QED
    BY <2>1, <2>2, SectionHelped
<1>2. IsWorld(env) /\ [Next]_vars => [A]_env
  BY <1>1
<1>3. IsWorld(env) /\ [Next]_vars => IsWorld(env)'
  BY WorldStep
<1>. QED
  BY <1>2, <1>3, InitWorld, PTL DEF FairSpec, MendingHelps
-----------------------------------------------------------------------------
(* The items of all sections: finitely many.                               *)
ItemNames ==
  {"t1", "t2", "t3", "t4", "t5", "t6", "t7", "t8", "t9", "t10", "t11", "t12"}
    \cup {"l1", "l2", "l3", "l4"} \cup {"b1", "b2", "b3", "b4", "b5", "b6", "b7"}
    \cup {"so1", "so2", "so3", "so4", "so5", "so6", "so7", "so8", "so9", "so10", "so11",
          "so12", "so13"}
    \cup {"ce1", "ce2", "ce3", "ce4", "ce5", "ce6", "ce7", "ce8", "ce9", "ce10", "ce11"}
    \cup {"cp1", "cp2", "cp3", "cp4", "cp5", "cp6", "cp7", "cp8"}
    \cup {"gw1", "gw2", "gw3", "gw4"}

(* A finite set stays finite with four elements more.                      *)
LEMMA FourFinite ==
  ASSUME NEW S, IsFiniteSet(S), NEW a, NEW b, NEW c, NEW d
  PROVE  IsFiniteSet(S \cup {a, b, c, d})
<1>1. IsFiniteSet(S \cup {a}) /\ IsFiniteSet((S \cup {a}) \cup {b})
  BY FS_AddElement
<1>2. IsFiniteSet(((S \cup {a}) \cup {b}) \cup {c})
  BY <1>1, FS_AddElement
<1>3. IsFiniteSet((((S \cup {a}) \cup {b}) \cup {c}) \cup {d})
  BY <1>2, FS_AddElement
<1>4. S \cup {a, b, c, d} = (((S \cup {a}) \cup {b}) \cup {c}) \cup {d}
  OBVIOUS
<1>. QED
  BY <1>3, <1>4

LEMMA ItemsFinite == IsFiniteSet(ItemNames)
<1>1. \A S, a, b, c, d : IsFiniteSet(S) => IsFiniteSet(S \cup {a, b, c, d})
  BY FourFinite
<1>2. IsFiniteSet({})
  BY FS_EmptySet
<1>. DEFINE S1 == {} \cup {"t1", "t2", "t3", "t4"}
            S2 == S1 \cup {"t5", "t6", "t7", "t8"}
            S3 == S2 \cup {"t9", "t10", "t11", "t12"}
            S4 == S3 \cup {"l1", "l2", "l3", "l4"}
            S5 == S4 \cup {"b1", "b2", "b3", "b4"}
            S6 == S5 \cup {"b5", "b6", "b7", "so1"}
            S7 == S6 \cup {"so2", "so3", "so4", "so5"}
            S8 == S7 \cup {"so6", "so7", "so8", "so9"}
            S9 == S8 \cup {"so10", "so11", "so12", "so13"}
            S10 == S9 \cup {"ce1", "ce2", "ce3", "ce4"}
            S11 == S10 \cup {"ce5", "ce6", "ce7", "ce8"}
            S12 == S11 \cup {"ce9", "ce10", "ce11", "cp1"}
            S13 == S12 \cup {"cp2", "cp3", "cp4", "cp5"}
            S14 == S13 \cup {"cp6", "cp7", "cp8", "gw1"}
            S15 == S14 \cup {"gw2", "gw3", "gw4", "gw1"}
<1>3. IsFiniteSet(S4)
  <2>1. IsFiniteSet(S1)
    BY <1>1, <1>2
  <2>. HIDE DEF S1
  <2>2. IsFiniteSet(S2)
    BY <1>1, <2>1
  <2>. HIDE DEF S2
  <2>3. IsFiniteSet(S3)
    BY <1>1, <2>2
  <2>. HIDE DEF S3
  <2>. QED
    BY <1>1, <2>3
<1>. HIDE DEF S4
<1>4. IsFiniteSet(S8)
  <2>1. IsFiniteSet(S5)
    BY <1>1, <1>3
  <2>. HIDE DEF S5
  <2>2. IsFiniteSet(S6)
    BY <1>1, <2>1
  <2>. HIDE DEF S6
  <2>3. IsFiniteSet(S7)
    BY <1>1, <2>2
  <2>. HIDE DEF S7
  <2>. QED
    BY <1>1, <2>3
<1>. HIDE DEF S8
<1>5. IsFiniteSet(S12)
  <2>1. IsFiniteSet(S9)
    BY <1>1, <1>4
  <2>. HIDE DEF S9
  <2>2. IsFiniteSet(S10)
    BY <1>1, <2>1
  <2>. HIDE DEF S10
  <2>3. IsFiniteSet(S11)
    BY <1>1, <2>2
  <2>. HIDE DEF S11
  <2>. QED
    BY <1>1, <2>3
<1>. HIDE DEF S12
<1>6. IsFiniteSet(S15)
  <2>1. IsFiniteSet(S13)
    BY <1>1, <1>5
  <2>. HIDE DEF S13
  <2>2. IsFiniteSet(S14)
    BY <1>1, <2>1
  <2>. HIDE DEF S14
  <2>. QED
    BY <1>1, <2>2
<1>. HIDE DEF S15
<1>7. ItemNames \subseteq S15
  BY DEF ItemNames, S1, S2, S3, S4, S5, S6, S7, S8, S9, S10, S11, S12, S13, S14, S15
<1>. QED
  BY <1>6, <1>7, FS_Subset

(* Items, whichever section it is.                                         *)
LEMMA SectionItems ==
  ASSUME NEW s \in Names, NEW e, NEW p, NEW l
  PROVE  DOMAIN SectionOf(s, e, p, l) \subseteq ItemNames
<1>1. CASE s = "tunnel"
  BY <1>1 DEF SectionOf, RunTunnelChecks, ItemNames
<1>2. CASE s = "local"
  BY <1>2 DEF SectionOf, RunLocalServiceChecks, ItemNames
<1>3. CASE s = "build"
  BY <1>3 DEF SectionOf, RunBuildSupplyChainChecks, ItemNames
<1>4. CASE s = "security"
  BY <1>4 DEF SectionOf, RunSecurityOpsChecks, ItemNames
<1>5. CASE s = "edge"
  BY <1>5 DEF SectionOf, RunEdgeChecks, ItemNames
<1>6. CASE s = "client"
  BY <1>6 DEF SectionOf, RunClientPostureChecks, ItemNames
<1>7. CASE s = "gateway"
  BY <1>7 DEF SectionOf, RunGatewayClientChecks, ItemNames
<1>. QED
  BY <1>1, <1>2, <1>3, <1>4, <1>5, <1>6, <1>7 DEF Names
-----------------------------------------------------------------------------
(* The report is a sequence of sections, ...                               *)
Shaped ==
  /\ report \in Seq({report[i] : i \in DOMAIN report})
  /\ \A i \in DOMAIN report : DOMAIN report[i] \subseteq ItemNames
  /\ Len(report) >= 1 => {"t1", "t3", "t6", "t12"} \subseteq DOMAIN report[1]
  /\ Len(report) >= 3 => "b7" \in DOMAIN report[3]

(* ... its first tells what is still the case, while the process runs, ... *)
TunnelSeen ==
  phase # "off" /\ Len(report) >= 1 =>
    /\ report[1].t1 = checkBoringCryptoActive(env)
    /\ report[1].t3 = checkFIPSSelfTest(env)
    /\ report[1].t6 = checkCipherSuites(env)
    /\ report[1].t12 = checkFIPSBackend(env)

(* ... and its first and its third agree, even after the process stopped.  *)
Agreed ==
  Len(report) >= 3 =>
    /\ (report[1].t1 = "fail") = (report[1].t12 = "fail")
    /\ report[1].t6 = "fail" => report[1].t1 = "fail"
    /\ report[1].t1 = "fail" => report[1].t3 = "fail" /\ report[3].b7 = "fail"

IInv == TypeOK /\ Shaped /\ TunnelSeen /\ Agreed

(* A sequence that grows.                                                  *)
LEMMA Appended ==
  ASSUME NEW r, r \in Seq({r[i] : i \in DOMAIN r}), NEW x, NEW q, q = Append(r, x)
  PROVE  /\ Len(r) \in Nat /\ DOMAIN r = 1..Len(r)
         /\ Len(q) = Len(r) + 1 /\ DOMAIN q = 1..Len(r) + 1
         /\ q \in Seq({q[i] : i \in DOMAIN q})
         /\ \A i \in 1..Len(r) : q[i] = r[i]
         /\ q[Len(r) + 1] = x
<1>. DEFINE S == {r[i] : i \in DOMAIN r}
            T == S \cup {x}
<1>1. r \in Seq(T)
  BY SeqMonotonic
<1>2. x \in T
  OBVIOUS
<1>3. Len(r) \in Nat /\ DOMAIN r = 1..Len(r)
  BY LenProperties
<1>. HIDE DEF S, T
<1>4. /\ q \in Seq(T) /\ Len(q) = Len(r) + 1
      /\ \A i \in 1..Len(r) : q[i] = r[i]
      /\ q[Len(r) + 1] = x
  BY <1>1, <1>2, AppendProperties
<1>5. DOMAIN q = 1..Len(r) + 1 /\ q \in [1..Len(r) + 1 -> T]
  BY <1>4, LenProperties
<1>. DEFINE U == {q[i] : i \in DOMAIN q}
            n == Len(r) + 1
<1>6. \A i \in DOMAIN q : q[i] \in U
  OBVIOUS
<1>7. n \in Nat
  BY <1>3
<1>. HIDE DEF U, n
<1>8. q \in [1..n -> U]
  BY <1>5, <1>6 DEF n
<1>9. q \in Seq(U)
  <2>1. Seq(U) = UNION {[1..m -> U] : m \in Nat}
    BY SeqDef, Zenon
  <2>2. [1..n -> U] \in {[1..m -> U] : m \in Nat}
    BY <1>7, Zenon
  <2>. QED
    BY <1>8, <2>1, <2>2, Zenon
<1>. QED
  BY <1>3, <1>4, <1>5, <1>9 DEF U

(* One more section.                                                       *)
LEMMA Checked ==
  ASSUME IInv, Check
  PROVE  /\ Len(report) \in Nat /\ DOMAIN report = 1..Len(report)
         /\ Len(report') = Len(report) + 1 /\ DOMAIN report' = 1..Len(report) + 1
         /\ report' \in Seq({report'[i] : i \in DOMAIN report'})
         /\ \A i \in 1..Len(report) : report'[i] = report[i]
         /\ report'[Len(report) + 1] = SectionOf(NextSection, env, posture, log)
         /\ NextSection \in Names
         /\ Len(report) = 0 => NextSection = "tunnel"
         /\ Len(report) = 2 => NextSection = "build"
         /\ Len(report') <= Len(Sections(env))
<1>1. report' = Append(report, SectionOf(NextSection, env, posture, log))
  BY DEF Check
<1>2. report \in Seq({report[i] : i \in DOMAIN report})
  BY DEF IInv, Shaped
<1>3. /\ Len(report) \in Nat /\ DOMAIN report = 1..Len(report)
      /\ Len(report') = Len(report) + 1 /\ DOMAIN report' = 1..Len(report) + 1
      /\ report' \in Seq({report'[i] : i \in DOMAIN report'})
      /\ \A i \in 1..Len(report) : report'[i] = report[i]
      /\ report'[Len(report) + 1] = SectionOf(NextSection, env, posture, log)
  BY <1>1, <1>2, Appended
<1>4. /\ Sections(env) \in Seq(Names) /\ Len(report) < Len(Sections(env))
      /\ Sections(env)[1] = "tunnel" /\ Sections(env)[3] = "build"
  BY SectionsAre DEF Check
<1>5. Len(Sections(env)) \in Nat
  BY <1>4, LenProperties
<1>6. NextSection \in Names
  BY <1>3, <1>4, <1>5, ElementOfSeq DEF NextSection
<1>7. /\ Len(report) = 0 => NextSection = "tunnel"
      /\ Len(report) = 2 => NextSection = "build"
  <2>1. Sections(env)[1] = "tunnel" /\ Sections(env)[3] = "build"
    BY <1>4
  <2>2. 0 + 1 = 1 /\ 2 + 1 = 3
    OBVIOUS
  <2>. QED
    BY <2>1, <2>2, Zenon DEF NextSection
<1>8. Len(report') <= Len(Sections(env))
  BY <1>3, <1>4, <1>5
<1>. QED
  BY <1>3, <1>6, <1>7, <1>8

(* Of the report to begin with.                                            *)
LEMMA NoReportTyped ==
  /\ NoReport \in Seq({NoReport[i] : i \in DOMAIN NoReport})
  /\ Len(NoReport) = 0 /\ DOMAIN NoReport = {}
BY DEF NoReport

(* A step keeps the report's shape.                                        *)
LEMMA ShapedStep ==
  ASSUME IInv, [Next]_vars
  PROVE  Shaped'
<1>1. CASE Check
  <2>1. \A i \in DOMAIN report' : DOMAIN report'[i] \subseteq ItemNames
    <3>. SUFFICES ASSUME NEW i \in DOMAIN report'
         PROVE  DOMAIN report'[i] \subseteq ItemNames
      OBVIOUS
    <3>1. CASE i \in 1..Len(report)
      BY <1>1, <3>1, Checked DEF IInv, Shaped
    <3>2. CASE i = Len(report) + 1
      BY <1>1, <3>2, Checked, SectionItems
    <3>. QED
      BY <1>1, <3>1, <3>2, Checked
  <2>2. {"t1", "t3", "t6", "t12"} \subseteq DOMAIN report'[1]
    <3>1. CASE Len(report) = 0
      <4>1. report'[1] = RunTunnelChecks(env)
        BY <1>1, <3>1, Checked DEF SectionOf
      <4>. QED
        BY <4>1 DEF RunTunnelChecks
    <3>2. CASE Len(report) >= 1
      <4>1. report'[1] = report[1]
        BY <1>1, <3>2, Checked
      <4>. QED
        BY <3>2, <4>1 DEF IInv, Shaped
    <3>. QED
      BY <1>1, <3>1, <3>2, Checked
  <2>3. Len(report') >= 3 => "b7" \in DOMAIN report'[3]
    <3>1. CASE Len(report) = 2
      <4>1. report'[3] = RunBuildSupplyChainChecks(env)
        BY <1>1, <3>1, Checked DEF SectionOf
      <4>. QED
        BY <4>1 DEF RunBuildSupplyChainChecks
    <3>2. CASE Len(report) >= 3
      <4>1. report'[3] = report[3]
        BY <1>1, <3>2, Checked
      <4>. QED
        BY <3>2, <4>1 DEF IInv, Shaped
    <3>. QED
      BY <1>1, <3>1, <3>2, Checked
  <2>4. report' \in Seq({report'[i] : i \in DOMAIN report'})
    BY <1>1, Checked
  <2>. QED
    BY <2>1, <2>2, <2>3, <2>4 DEF Shaped
<1>2. CASE Start
  <2>1. report' = NoReport
    BY <1>2 DEF Start
  <2>2. report' \in Seq({report'[i] : i \in DOMAIN report'})
    BY <2>1, NoReportTyped
  <2>. QED
    BY <2>1, <2>2, NoReportTyped DEF Shaped
<1>3. CASE UNCHANGED report
  BY <1>3 DEF IInv, Shaped
<1>. QED
  BY <1>1, <1>2, <1>3 DEF Next, Listen, Stop, Change, Report, Connect, vars

(* Fixed facts do not change while the process runs, which it does from    *)
(* a start on.                                                             *)
LEMMA ChangeKeeps ==
  ASSUME IInv, [Next]_vars
  PROVE  phase # "off" => \A f \in Fixed : env'[f] = env[f]
<1>1. ASSUME NEW f \in DOMAIN Facts, Change(f)
      PROVE  phase # "off" => \A g \in Fixed : env'[g] = env[g]
  <2>1. PICK v \in Facts[f] : env' = [env EXCEPT ![f] = v]
    BY <1>1 DEF Change
  <2>2. phase # "off" => f \notin Fixed
    BY <1>1 DEF Change
  <2>3. Fixed \subseteq DOMAIN HostFacts \cup DOMAIN EdgeFacts
    BY DEF Fixed, HostFacts, EdgeFacts
  <2>4. Fixed \subseteq DOMAIN env
    BY <2>3, FactsAre DEF IInv, TypeOK, IsWorld
  <2>. QED
    BY <2>1, <2>2, <2>4
<1>2. CASE UNCHANGED env
  BY <1>2
<1>3. (\E f \in DOMAIN Facts : Change(f)) \/ UNCHANGED env
  BY DEF Next, Start, Check, Listen, Stop, Report, Connect, vars
<1>. QED
  BY <1>1, <1>2, <1>3

LEMMA RunsOn ==
  ASSUME [Next]_vars, ~Start, phase' # "off"
  PROVE  phase # "off"
BY DEF Next, Check, Listen, Stop, Change, Report, Connect, vars

(* What only facts that are fixed decide.                                  *)
LEMMA FixedDecides ==
  ASSUME NEW d, NEW e, \A f \in Fixed : d[f] = e[f]
  PROVE  /\ Sections(d) = Sections(e) /\ Detect(d) = Detect(e)
         /\ checkBoringCryptoActive(d) = checkBoringCryptoActive(e)
         /\ checkFIPSSelfTest(d) = checkFIPSSelfTest(e)
         /\ checkCipherSuites(d) = checkCipherSuites(e)
         /\ checkFIPSBackend(d) = checkFIPSBackend(e)
<1>1. d.build = e.build
  BY DEF Fixed
<1>2. d.fips140 = e.fips140
  BY DEF Fixed
<1>3. d.banned = e.banned
  BY DEF Fixed
<1>4. d.kats = e.kats
  BY DEF Fixed
<1>5. d.edge = e.edge
  BY DEF Fixed
<1>6. d.gateway = e.gateway
  BY DEF Fixed
<1>7. Sections(d) = Sections(e)
  BY <1>5, <1>6 DEF Sections
<1>8. Detect(d) = Detect(e)
  BY <1>1, <1>2 DEF Detect
<1>9. Validated(d) = Validated(e)
  BY <1>8 DEF Validated
<1>10. CipherSuitesFail(d) = CipherSuitesFail(e)
  BY <1>3, <1>8 DEF CipherSuitesFail
<1>11. CriticalFailures(d) = CriticalFailures(e)
  BY <1>4, <1>8, <1>10 DEF CriticalFailures
<1>. QED
  BY <1>3, <1>7, <1>8, <1>9, <1>11 DEF checkBoringCryptoActive, checkFIPSSelfTest,
     checkCipherSuites, checkFIPSBackend

(* The first section is what it would be now.                              *)
LEMMA SeenStep ==
  ASSUME IInv, [Next]_vars
  PROVE  TunnelSeen'
<1>1. CASE Check
  <2>1. UNCHANGED <<env, phase>>
    BY <1>1 DEF Check
  <2>2. CASE Len(report) = 0
    <3>1. report'[1] = RunTunnelChecks(env)
      BY <1>1, <2>2, Checked DEF SectionOf
    <3>2. report'[1] = RunTunnelChecks(env)'
      BY <2>1, <3>1
    <3>. QED
      BY <3>2 DEF TunnelSeen, RunTunnelChecks
  <2>3. CASE Len(report) >= 1
    <3>1. report'[1] = report[1]
      BY <1>1, <2>3, Checked
    <3>2. phase # "off"
      BY <1>1 DEF Check
    <3>. QED
      BY <2>1, <2>3, <3>1, <3>2 DEF TunnelSeen, IInv
  <2>. QED
    BY <1>1, <2>2, <2>3, Checked
<1>2. CASE Start
  BY <1>2, NoReportTyped DEF Start, TunnelSeen
<1>3. CASE UNCHANGED report /\ ~Start
  <2>. SUFFICES ASSUME phase' # "off", Len(report) >= 1
       PROVE  TunnelSeen'
    BY <1>3 DEF TunnelSeen
  <2>1. phase # "off" /\ \A f \in Fixed : env'[f] = env[f]
    BY <1>3, ChangeKeeps, RunsOn
  <2>2. /\ checkBoringCryptoActive(env') = checkBoringCryptoActive(env)
        /\ checkFIPSSelfTest(env') = checkFIPSSelfTest(env)
        /\ checkCipherSuites(env') = checkCipherSuites(env)
        /\ checkFIPSBackend(env') = checkFIPSBackend(env)
    BY <2>1, FixedDecides
  <2>. QED
    BY <1>3, <2>1, <2>2 DEF TunnelSeen, IInv
<1>. QED
  BY <1>1, <1>2, <1>3 DEF Next, Listen, Stop, Change, Report, Connect, vars

(* The third is computed of the same module as the first.                  *)
LEMMA AgreedStep ==
  ASSUME IInv, [Next]_vars
  PROVE  Agreed'
<1>1. CASE Check
  <2>1. CASE Len(report) = 2
    <3>1. report'[1] = report[1] /\ report'[3] = RunBuildSupplyChainChecks(env)
      BY <1>1, <2>1, Checked DEF SectionOf
    <3>2. phase # "off"
      BY <1>1 DEF Check
    <3>3. /\ report[1].t1 = checkBoringCryptoActive(env)
          /\ report[1].t3 = checkFIPSSelfTest(env)
          /\ report[1].t6 = checkCipherSuites(env)
          /\ report[1].t12 = checkFIPSBackend(env)
      BY <2>1, <3>2 DEF IInv, TunnelSeen
    <3>4. report'[3].b7 = checkFIPSModuleSunset(env)
      BY <3>1 DEF RunBuildSupplyChainChecks
    <3>5. /\ checkBoringCryptoActive(env) = "fail" <=> Detect(env) = "none"
          /\ checkFIPSBackend(env) = "fail" <=> Detect(env) = "none"
          /\ checkCipherSuites(env) = "fail" => Detect(env) = "none"
      BY DEF checkBoringCryptoActive, checkFIPSBackend, checkCipherSuites, PassIf
    <3>6. Detect(env) = "none" => checkFIPSSelfTest(env) = "fail"
      BY DEF checkFIPSSelfTest, CriticalFailures, PassIf
    <3>7. Detect(env) = "none" => checkFIPSModuleSunset(env) = "fail"
      <4>1. Detect(env) = "none" => GetMigrationStatus(env) = "critical"
        BY DEF GetMigrationStatus, FIPSStandard, Detect
      <4>. QED
        BY <4>1 DEF checkFIPSModuleSunset
    <3>. QED
      BY <3>1, <3>3, <3>4, <3>5, <3>6, <3>7 DEF Agreed
  <2>2. CASE Len(report) >= 3
    <3>1. report'[1] = report[1] /\ report'[3] = report[3]
      BY <1>1, <2>2, Checked
    <3>. QED
      BY <2>2, <3>1 DEF Agreed, IInv
  <2>3. CASE Len(report) < 2
    BY <1>1, <2>3, Checked DEF Agreed
  <2>. QED
    BY <1>1, <2>1, <2>2, <2>3, Checked
<1>2. CASE Start
  BY <1>2, NoReportTyped DEF Start, Agreed
<1>3. CASE UNCHANGED report
  BY <1>3 DEF IInv, Agreed
<1>. QED
  BY <1>1, <1>2, <1>3 DEF Next, Listen, Stop, Change, Report, Connect, vars
-----------------------------------------------------------------------------
(* Types.                                                                  *)
LEMMA LoggedType ==
  ASSUME log \in Seq(Hellos), Len(log) <= MaxLog, NEW h \in Hellos
  PROVE  Logged(log, h) \in Seq(Hellos) /\ Len(Logged(log, h)) <= MaxLog
<1>0. MaxLog \in Nat \ {0} /\ Len(log) \in Nat
  BY EdgeAssumption, LenProperties
<1>1. CASE Len(log) < MaxLog
  <2>1. Logged(log, h) = Append(log, h)
    BY <1>1 DEF Logged
  <2>2. Append(log, h) \in Seq(Hellos) /\ Len(Append(log, h)) = Len(log) + 1
    BY AppendProperties
  <2>. QED
    BY <1>0, <1>1, <2>1, <2>2
<1>2. CASE ~(Len(log) < MaxLog)
  <2>1. Logged(log, h) = Append(Tail(log), h) /\ log # <<>>
    BY <1>0, <1>2 DEF Logged
  <2>2. Tail(log) \in Seq(Hellos) /\ Len(Tail(log)) = Len(log) - 1
    BY <2>1, HeadTailProperties
  <2>3. /\ Append(Tail(log), h) \in Seq(Hellos)
        /\ Len(Append(Tail(log), h)) = Len(Tail(log)) + 1
    BY <2>2, AppendProperties
  <2>. QED
    BY <1>0, <2>1, <2>2, <2>3
<1>. QED
  BY <1>1, <1>2

(* The report's, ...                                                       *)
ReportTyped ==
  /\ phase # "off" => Len(report) <= Len(Sections(env))
  /\ \A i \in DOMAIN report : VerdictsOf(report[i]) \subseteq Verdicts

LEMMA ReportTypedStep ==
  ASSUME IInv, [Next]_vars
  PROVE  ReportTyped'
<1>0. ReportTyped
  BY DEF IInv, TypeOK, ReportTyped
<1>1. CASE Check
  <2>1. UNCHANGED env
    BY <1>1 DEF Check
  <2>2. ASSUME NEW i \in DOMAIN report'
        PROVE  VerdictsOf(report'[i]) \subseteq Verdicts
    <3>1. CASE i \in 1..Len(report)
      BY <1>0, <1>1, <3>1, Checked DEF ReportTyped
    <3>2. CASE i = Len(report) + 1
      <4>1. report'[i] = SectionOf(NextSection, env, posture, log)
        BY <1>1, <3>2, Checked
      <4>2. IsWorld(env) /\ NextSection \in Names
        BY <1>1, Checked DEF IInv, TypeOK
      <4>. QED
        BY <4>1, <4>2, SectionVerdicts DEF VerdictsOf
    <3>. QED
      BY <1>1, <3>1, <3>2, Checked
  <2>. QED
    BY <1>1, <2>1, <2>2, Checked DEF ReportTyped
<1>2. CASE Start
  <2>1. Len(NoReport) <= Len(Sections(env))
    <3>1. Len(Sections(env)) \in Nat
      BY SectionsAre, LenProperties
    <3>. QED
      BY <3>1, NoReportTyped
  <2>2. report' = NoReport /\ env' = env
    BY <1>2 DEF Start
  <2>. QED
    BY <2>1, <2>2, NoReportTyped DEF ReportTyped
<1>3. CASE UNCHANGED report /\ ~Start
  <2>1. phase' # "off" => phase # "off" /\ Sections(env') = Sections(env)
    BY <1>3, RunsOn, ChangeKeeps, FixedDecides
  <2>. QED
    BY <1>0, <1>3, <2>1 DEF ReportTyped
<1>. QED
  BY <1>1, <1>2, <1>3 DEF Next, Listen, Stop, Change, Report, Connect, vars

(* ... and the others'.                                                    *)
OthersTyped ==
  /\ phase \in {"off", "scanning", "up"}
  /\ DOMAIN posture \subseteq Devices
  /\ \A d \in DOMAIN posture : posture[d] \in Postures
  /\ log \in Seq(Hellos) /\ Len(log) <= MaxLog
  /\ changes \in 0..ChangeCap

LEMMA OthersTypedStep ==
  ASSUME OthersTyped, [Next]_vars
  PROVE  OthersTyped'
<1>. USE DEF OthersTyped
<1>0. changes < ChangeCap => changes + 1 \in 0..ChangeCap
  BY ScanAssumption
<1>1. CASE Start
  BY <1>1 DEF Start, NoPosture
<1>2. CASE Check \/ Listen \/ Stop \/ UNCHANGED vars
  BY <1>2 DEF Check, Listen, Stop, vars
<1>3. ASSUME NEW f \in DOMAIN Facts, Change(f)
      PROVE  OthersTyped'
  BY <1>0, <1>3 DEF Change
<1>4. ASSUME NEW d \in Devices, Report(d)
      PROVE  OthersTyped'
  <2>1. PICK p \in Postures :
          posture' = [x \in DOMAIN posture \cup {d} |-> IF x = d THEN p ELSE posture[x]]
    BY <1>4 DEF Report
  <2>2. DOMAIN posture' \subseteq Devices /\ \A x \in DOMAIN posture' : posture'[x] \in Postures
    BY <2>1
  <2>3. UNCHANGED <<phase, log>> /\ changes' \in 0..ChangeCap
    BY <1>0, <1>4 DEF Report
  <2>. QED
    BY <2>2, <2>3
<1>5. CASE Connect
  <2>1. PICK h \in Hellos : log' = Logged(log, h)
    BY <1>5 DEF Connect
  <2>2. log' \in Seq(Hellos) /\ Len(log') <= MaxLog
    BY <2>1, LoggedType
  <2>3. UNCHANGED <<phase, posture>> /\ changes' \in 0..ChangeCap
    BY <1>0, <1>5 DEF Connect
  <2>. QED
    BY <2>2, <2>3
<1>. QED
  BY <1>1, <1>2, <1>3, <1>4, <1>5 DEF Next

(* The invariant is inductive.                                             *)
LEMMA InvStep ==
  ASSUME IInv, [Next]_vars
  PROVE  IInv'
<1>1. IsWorld(env) /\ OthersTyped
  BY DEF IInv, TypeOK, OthersTyped
<1>2. IsWorld(env)' /\ OthersTyped' /\ ReportTyped'
  BY <1>1, WorldStep, OthersTypedStep, ReportTypedStep
<1>3. TypeOK'
  BY <1>2 DEF TypeOK, OthersTyped, ReportTyped
<1>. QED
  BY <1>3, ShapedStep, SeenStep, AgreedStep DEF IInv

LEMMA InitInv == Init => IInv
<1>. SUFFICES ASSUME Init
     PROVE  IInv
  OBVIOUS
<1>1. IsWorld(env)
  BY InitWorld
<1>2. <<>> \in Seq(Hellos) /\ Len(<<>>) <= MaxLog /\ changes \in 0..ChangeCap
  BY EdgeAssumption, ScanAssumption DEF Init
<1>3. report = NoReport /\ phase = "off" /\ log = <<>> /\ posture = NoPosture
  BY DEF Init
<1>4. DOMAIN posture = {}
  BY <1>3 DEF NoPosture
<1>5. TypeOK
  BY <1>1, <1>2, <1>3, <1>4, NoReportTyped DEF TypeOK
<1>6. Shaped
  BY <1>3, NoReportTyped DEF Shaped
<1>7. TunnelSeen /\ Agreed
  BY <1>3, NoReportTyped DEF TunnelSeen, Agreed
<1>. QED
  BY <1>5, <1>6, <1>7 DEF IInv

(* Types: every verdict of every section is one of the four that           *)
(* GenerateReport counts (checker.go:22), the inspector's log never        *)
(* outgrows its bound (clientdetect.go:55), and no report has more         *)
(* sections than main adds.                                                *)
THEOREM TypeCorrect == FairSpec => []TypeOK
<1>1. IInv => TypeOK
  BY DEF IInv
<1>2. IInv /\ [Next]_vars => IInv'
  BY InvStep
<1>. QED
  BY <1>1, <1>2, InitInv, PTL DEF FairSpec
-----------------------------------------------------------------------------
(* One element more.                                                       *)
LEMMA OneMore ==
  ASSUME NEW S, IsFiniteSet(S), NEW n \in Nat, Cardinality(S) = n, NEW x, x \notin S
  PROVE  IsFiniteSet(S \cup {x}) /\ Cardinality(S \cup {x}) = n + 1
<1>1. /\ IsFiniteSet(S \cup {x})
      /\ Cardinality(S \cup {x}) = IF x \in S THEN Cardinality(S) ELSE Cardinality(S) + 1
  BY FS_AddElement, Zenon
<1>. QED
  BY <1>1

(* Four items that fail are counted.                                       *)
LEMMA FourFail ==
  ASSUME IInv, Len(report) >= 3,
         report[1].t1 = "fail", report[1].t12 = "fail", report[1].t3 = "fail",
         report[3].b7 = "fail"
  PROVE  Summary(report)["fail"] >= 4
<1>. DEFINE T == {x \in Items(report) : report[x[1]][x[2]] = "fail"}
            A == <<1, "t1">>
            B == <<1, "t3">>
            C == <<1, "t12">>
            D == <<3, "b7">>
            F == (({A} \cup {B}) \cup {C}) \cup {D}
<1>1. Len(report) \in Nat /\ DOMAIN report = 1..Len(report)
  BY LenProperties DEF IInv, Shaped
<1>2. IsFiniteSet(T)
  <2>1. T \subseteq (1..Len(report)) \X ItemNames
    BY <1>1 DEF Items, IInv, Shaped
  <2>2. IsFiniteSet((1..Len(report)) \X ItemNames)
    <3>1. IsFiniteSet(1..Len(report))
      BY <1>1, FS_Interval
    <3>. QED
      BY <3>1, ItemsFinite, FS_Product, Zenon
  <2>. QED
    BY <2>1, <2>2, FS_Subset
<1>3. A \in T /\ B \in T /\ C \in T /\ D \in T
  <2>1. 1 \in DOMAIN report /\ 3 \in DOMAIN report
    BY <1>1
  <2>2. {"t1", "t3", "t12"} \subseteq DOMAIN report[1] /\ "b7" \in DOMAIN report[3]
    BY <1>1 DEF IInv, Shaped
  <2>3. \A n \in DOMAIN report : \A i \in DOMAIN report[n] : <<n, i>> \in Items(report)
    BY DEF Items
  <2>4. A \in Items(report) /\ B \in Items(report) /\ C \in Items(report) /\ D \in Items(report)
    BY <2>1, <2>2, <2>3
  <2>. QED
    BY <2>4
<1>4. A # B /\ A # C /\ B # C /\ A # D /\ B # D /\ C # D
  OBVIOUS
<1>5. Summary(report)["fail"] = Cardinality(T)
  BY DEF Summary, Verdicts
<1>. HIDE DEF T, A, B, C, D
<1>6. IsFiniteSet({A}) /\ Cardinality({A}) = 1
  BY FS_Singleton
<1>7. IsFiniteSet({A} \cup {B}) /\ Cardinality({A} \cup {B}) = 1 + 1
  <2>1. B \notin {A} /\ 1 \in Nat
    BY <1>4
  <2>. QED
    BY <1>6, <2>1, OneMore
<1>8. /\ IsFiniteSet(({A} \cup {B}) \cup {C})
      /\ Cardinality(({A} \cup {B}) \cup {C}) = (1 + 1) + 1
  <2>1. C \notin {A} \cup {B} /\ 1 + 1 \in Nat
    BY <1>4
  <2>. QED
    BY <1>7, <2>1, OneMore
<1>9. Cardinality(F) = 4
  <2>1. D \notin ({A} \cup {B}) \cup {C} /\ (1 + 1) + 1 \in Nat
    BY <1>4
  <2>. DEFINE E == ({A} \cup {B}) \cup {C}
  <2>2. IsFiniteSet(E) /\ Cardinality(E) = (1 + 1) + 1 /\ D \notin E /\ F = E \cup {D}
    BY <1>8, <2>1
  <2>. HIDE DEF E, F
  <2>3. Cardinality(F) = ((1 + 1) + 1) + 1
    BY <2>1, <2>2, OneMore
  <2>. QED
    BY <2>3
<1>10. F \in SUBSET T
  BY <1>3
<1>. HIDE DEF F
<1>11. Cardinality(F) <= Cardinality(T) /\ Cardinality(T) \in Nat
  BY <1>2, <1>10, FS_Subset, FS_CardinalityType
<1>. QED
  BY <1>5, <1>9, <1>11

(* It says what BackendAgrees does.                                        *)
LEMMA AgreedAgrees ==
  ASSUME IInv
  PROVE  BackendAgrees
<1>. SUFFICES ASSUME Len(report) >= 3
     PROVE  /\ (report[1].t1 = "fail") = (report[1].t12 = "fail")
            /\ report[1].t6 = "fail" => report[1].t1 = "fail" /\ report[1].t3 = "fail"
            /\ report[1].t1 = "fail" =>
                 /\ report[1].t3 = "fail" /\ report[3].b7 = "fail"
                 /\ OverallStatus(report) = "fail" /\ Summary(report)["fail"] >= 4
  BY DEF BackendAgrees
<1>1. /\ (report[1].t1 = "fail") = (report[1].t12 = "fail")
      /\ report[1].t6 = "fail" => report[1].t1 = "fail"
      /\ report[1].t1 = "fail" => report[1].t3 = "fail" /\ report[3].b7 = "fail"
  BY DEF IInv, Agreed
<1>2. ASSUME report[1].t1 = "fail"
      PROVE  OverallStatus(report) = "fail" /\ Summary(report)["fail"] >= 4
  <2>1. Summary(report)["fail"] >= 4
    BY <1>1, <1>2, FourFail
  <2>. DEFINE all == UNION {VerdictsOf(report[i]) : i \in DOMAIN report}
  <2>2. "fail" \in all
    <3>1. 1 \in DOMAIN report
      BY LenProperties DEF IInv, Shaped
    <3>2. "t1" \in DOMAIN report[1]
      BY LenProperties DEF IInv, Shaped
    <3>3. "fail" \in VerdictsOf(report[1])
      BY <1>2, <3>2 DEF VerdictsOf
    <3>. QED
      BY <3>1, <3>3
  <2>3. OverallStatus(report) =
          CASE "fail" \in all -> "fail"
            [] all \cap {"fail", "warning"} = {"warning"} -> "warning"
            [] all \cap {"fail", "warning", "unknown"} = {"unknown"} -> "unknown"
            [] OTHER -> "pass"
    BY DEF OverallStatus
  <2>. HIDE DEF all
  <2>4. /\ all \cap {"fail", "warning"} # {"warning"}
        /\ all \cap {"fail", "warning", "unknown"} # {"unknown"}
    BY <2>2
  <2>5. OverallStatus(report) = "fail"
    BY <2>2, <2>3, <2>4
  <2>. QED
    BY <2>1, <2>5
<1>. QED
  BY <1>1, <1>2

(* live.go:238, :606, selftest.go:88, migration.go:25: the sections of one *)
(* report, computed one after the other while the host changes, agree      *)
(* whether a crypto module is active; without one the report fails as a    *)
(* whole, on four items at least - with the process running or stopped.    *)
THEOREM SectionsAgree == FairSpec => []BackendAgrees
<1>1. IInv => BackendAgrees
  BY AgreedAgrees
<1>2. IInv /\ [Next]_vars => IInv'
  BY InvStep
<1>. QED
  BY <1>1, <1>2, InitInv, PTL DEF FairSpec
=============================================================================
