----------------------------- MODULE EdgeChecks -----------------------------
(***************************************************************************)
(* The sections of a report that ask somebody else: Cloudflare's API       *)
(* (pkg/cfapi/checker.go), the devices that reported to this process       *)
(* (pkg/clientdetect) and the gateway proxy (internal/compliance/proxy.go),*)
(* which classifies the TLS clients it inspects.                           *)
(***************************************************************************)
EXTENDS LiveChecks, Sequences, FiniteSets

CONSTANTS
  Devices,   \* of those that report their posture
  MaxLog,    \* connections an inspector remembers
  Recent     \* connections the negotiated cipher is judged by, 10

ASSUME EdgeAssumption ==
  MaxLog \in Nat \ {0} /\ Recent \in Nat \ {0} /\ IsFiniteSet(Devices)

(* The calls of the checker, one per getter of zone.go.                    *)
Calls == {"GetAccessApps", "GetCiphers", "GetMinTLSVersion", "GetCertificatePacks",
          "GetSecurityHeader", "GetTunnel", "GetKeylessSSLConfigs", "GetRegionalTieredCache"}

EdgeFacts ==
  [edge      |-> BOOLEAN,             \* API token and zone are given
   failing   |-> {{}, Calls} \cup {{c} : c \in Calls},
   apps      |-> BOOLEAN,
   ciphers   |-> {"none", "approved", "mixed"},
   minTLS    |-> {"1.0", "1.1", "1.2", "1.3", "other"},
   packs     |-> {"none", "inactive", "no expiry", "unparsable"} \cup Expiry,
   hsts      |-> BOOLEAN,
   tunnelIds |-> BOOLEAN,             \* account and tunnel are given
   tunnel    |-> {"healthy", "degraded", "down"},
   keyless   |-> {"none", "inactive", "active"},
   regional  |-> BOOLEAN,
   gateway   |-> BOOLEAN,             \* the proxy's address is given
   proxyUp   |-> BOOLEAN]

(* The verdict v on an answer, unless the call fails.                      *)
Answered(e, call, v) == IF call \in e.failing THEN "unknown" ELSE v

checkAccessPolicy(e) == Answered(e, "GetAccessApps", PassIf(e.apps, "fail"))
checkIdentityProvider(e) == Answered(e, "GetAccessApps", PassIf(e.apps, "unknown"))

(* Neither is asked of the API.                                            *)
checkAuthMethod(e) == "unknown"
checkMFAEnforced(e) == "unknown"

checkCipherRestriction(e) ==
  Answered(e, "GetCiphers", PassIf(e.ciphers = "approved", "warning"))

checkMinTLSVersion(e) ==
  Answered(e, "GetMinTLSVersion",
    CASE e.minTLS \in {"1.2", "1.3"} -> "pass"
      [] e.minTLS \in {"1.0", "1.1"} -> "fail"
      [] e.minTLS = "other" -> "warning")

(* The first active pack decides; one that names no time does not expire,  *)
(* and one whose time cannot be read has the zero time for it.             *)
checkEdgeCertificate(e) ==
  Answered(e, "GetCertificatePacks",
    CASE e.packs = "none" -> "fail"
      [] e.packs \in {"inactive", "unparsable"} -> "warning"
      [] e.packs = "no expiry" -> "pass"
      [] e.packs \in Expiry -> OfExpiry[e.packs])

checkHSTS(e) == Answered(e, "GetSecurityHeader", PassIf(e.hsts, "fail"))

checkTunnelHealth(e) ==
  IF ~e.tunnelIds THEN "unknown"
  ELSE Answered(e, "GetTunnel",
         [healthy |-> "pass", degraded |-> "warning", down |-> "fail"][e.tunnel])

checkKeylessSSL(e) ==
  Answered(e, "GetKeylessSSLConfigs", PassIf(e.keyless = "active", "warning"))
checkRegionalServices(e) ==
  Answered(e, "GetRegionalTieredCache", PassIf(e.regional, "warning"))

RunEdgeChecks(e) ==
  [ce1 |-> checkAccessPolicy(e), ce2 |-> checkIdentityProvider(e),
   ce3 |-> checkAuthMethod(e), ce4 |-> checkMFAEnforced(e),
   ce5 |-> checkCipherRestriction(e), ce6 |-> checkMinTLSVersion(e),
   ce7 |-> checkEdgeCertificate(e), ce8 |-> checkHSTS(e),
   ce9 |-> checkTunnelHealth(e), ce10 |-> checkKeylessSSL(e),
   ce11 |-> checkRegionalServices(e)]

-----------------------------------------------------------------------------
(* pkg/clientdetect.  A ClientHello is the set of the families of suites   *)
(* in it that count.                                                       *)
Hellos == SUBSET {"AES-GCM", "ChaCha20", "RC4 or DES"}

analyzeFIPSCapability(h) == h = {"AES-GCM"}

(* Slip: the log is cut before it grows.                                   *)
LoggedThenCut(log, h) ==
  Append(IF Len(log) > MaxLog THEN Tail(log) ELSE log, h)

(* GetConfigForClient: the log grows at its end and is cut at its front.   *)
Logged(log, h) ==
  IF Len(log) < MaxLog THEN Append(log, h) ELSE Append(Tail(log), h)

RecentClients(log) ==
  SubSeq(log, IF Len(log) > Recent THEN Len(log) - Recent + 1 ELSE 1, Len(log))

FIPSStats(log) ==
  [total |-> Len(log),
   nonFIPS |-> Cardinality({i \in DOMAIN log : ~analyzeFIPSCapability(log[i])})]

(* posture.go: a device's last report, while this process runs.            *)
Postures == [osFips : BOOLEAN, mdm : BOOLEAN]

Known(posture) == DOMAIN posture # {}

checkClientOSFIPS(posture) ==
  PassIf(Known(posture) /\ \A d \in DOMAIN posture : posture[d].osFips, "warning")
checkClientOSType(posture) == PassIf(Known(posture), "warning")
checkDevicePosture(posture) == checkClientOSType(posture)
checkMDMEnrolled(posture) ==
  PassIf(Known(posture) /\ \A d \in DOMAIN posture : posture[d].mdm, "warning")

(* Client certificates are not looked at.                                  *)
checkClientCertificate == "warning"

checkBrowserTLS(log) ==
  PassIf(FIPSStats(log).total > 0 /\ FIPSStats(log).nonFIPS = 0, "warning")

checkNegotiatedCipher(log) ==
  LET recent == RecentClients(log) IN
  PassIf(/\ recent # <<>>
         /\ \A i \in DOMAIN recent : analyzeFIPSCapability(recent[i]), "warning")

RunClientPostureChecks(posture, log) ==
  [cp1 |-> checkClientOSFIPS(posture), cp2 |-> checkClientOSType(posture),
   cp3 |-> checkBrowserTLS(log), cp4 |-> checkNegotiatedCipher(log),
   cp5 |-> "pass", cp6 |-> checkDevicePosture(posture),
   cp7 |-> checkMDMEnrolled(posture), cp8 |-> checkClientCertificate]

-----------------------------------------------------------------------------
(* proxy.go: the gateway's log of connections, fetched over HTTP.          *)
OfStats(log) ==
  LET s == FIPSStats(log) IN
  IF s.total = 0 THEN "unknown" ELSE PassIf(s.nonFIPS = 0, "warning")

RunGatewayClientChecks(e, log) ==
  IF ~e.proxyUp
  THEN [gw1 |-> "unknown", gw2 |-> "unknown", gw3 |-> "unknown", gw4 |-> "unknown"]
  ELSE [gw1 |-> "pass", gw2 |-> OfStats(log), gw3 |-> OfStats(log), gw4 |-> "pass"]
=============================================================================
