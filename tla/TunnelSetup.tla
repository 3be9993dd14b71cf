---------------------------- MODULE TunnelSetup ----------------------------
(***************************************************************************)
(* The dashboard binary's one-shot modes --setup-tunnel and                *)
(* --teardown-tunnel (runSetupTunnel and runTeardownTunnel in              *)
(* cmd/dashboard/main.go) against the Cloudflare API (pkg/cfapi).          *)
(*                                                                         *)
(* Every controller of an account runs them for a public hostname of its   *)
(* own and, unless told otherwise, for one tunnel name.  Each call of the  *)
(* API is a step: it succeeds, is refused, or takes effect while its       *)
(* answer is lost (Client's 10 s timeout).  A process may be killed        *)
(* between any two calls, and nothing is persisted by it.                  *)
(***************************************************************************)
EXTENDS Integers, FiniteSets

CONSTANTS
  Hosts,    \* controllers; a host stands for its public hostname as well
  OnePage,  \* the account's lists fit the one page that is asked for
  RunCap    \* bound: runs begun

ASSUME TunnelSetupAssumption ==
  /\ IsFiniteSet(Hosts)
  /\ OnePage \in BOOLEAN
  /\ RunCap \in Nat

VARIABLES
  tunnels,  \* tunnels of the name that exist
  ingress,  \* ingress[t]: the hostname tunnel t passes on, Nobody for none
  record,   \* record[h]: the CNAME of h's hostname: its id and target
  run,      \* run[h]: the process on h
  \* history and fresh names
  made,     \* tunnels made so far
  records,  \* DNS records made so far
  runs,     \* runs begun
  misled    \* runs whose list of tunnels failed or hid some

cloud == <<tunnels, ingress, record, made, records>>
vars == <<cloud, run, runs, misled>>

None == 0            \* no tunnel
Elsewhere == -1      \* the target of somebody else's record
Nobody == "nobody"
NoRecord == [id |-> 0, to |-> None]

Pcs == {"idle", "list", "token", "create", "dns", "ingress",
        "find", "delete_record", "delete_tunnel", "exited"}

(* zone: the DNS zone is given and, for a set-up, the hostname too; serve: *)
(* the hostname is, and the service behind it.                             *)
NoRun == [pc |-> "idle", mode |-> "setup", id |-> None, zone |-> FALSE,
          serve |-> FALSE, warned |-> FALSE, blind |-> FALSE,
          crossed |-> FALSE, todo |-> {}, code |-> 0]

Init ==
  /\ tunnels = {} /\ ingress = [t \in 1..RunCap |-> Nobody]
  /\ record \in [Hosts -> {NoRecord, [id |-> 0, to |-> Elsewhere]}]
  /\ run = [h \in Hosts |-> NoRun]
  /\ made = 0 /\ records = 0 /\ runs = 0 /\ misled = 0

-----------------------------------------------------------------------------
At(pc, h) == run[h].pc = pc
Becomes(h, r) == run' = [run EXCEPT ![h] = r]
Goes(h, pc) == Becomes(h, [run[h] EXCEPT !.pc = pc])
Ended(code, warned) ==
  [NoRun EXCEPT !.pc = "exited", !.code = code, !.warned = warned]
Exits(h, code, warned) == Becomes(h, Ended(code, warned))

(* What one page may hold of a list.                                       *)
Page(S) == IF OnePage THEN {S} ELSE SUBSET S

-----------------------------------------------------------------------------
(* runSetupTunnel.                                                         *)

(* Run r once it has the record, and once it has the tunnel: what lacks a  *)
(* hostname, zone or service is passed over without a word.                *)
Recorded(r) ==
  IF r.serve THEN [r EXCEPT !.pc = "ingress"] ELSE Ended(0, r.warned)
Named(r) == IF r.zone THEN [r EXCEPT !.pc = "dns"] ELSE Recorded(r)

(* With a tunnel id no tunnel is looked for.                               *)
BeginSetup(h, id, zone, serve) ==
  /\ run[h].pc \in {"idle", "exited"} /\ runs < RunCap
  /\ LET r == [NoRun EXCEPT !.id = id, !.zone = zone, !.serve = serve] IN
     Becomes(h, IF id = None THEN [r EXCEPT !.pc = "list"] ELSE Named(r))
  /\ runs' = runs + 1
  /\ UNCHANGED <<cloud, misled>>

(* Slip: the tunnels found are not looked at.                              *)
IgnoresExisting(h, seen) == Goes(h, "create")

(* The first tunnel of the name is taken.                                  *)
Chooses(h, seen) ==
  IF seen = {} THEN Goes(h, "create")
  ELSE \E t \in seen : Becomes(h, [run[h] EXCEPT !.pc = "token", !.id = t])

(* A list that fails counts as one without tunnels.                        *)
ListTunnels(h) ==
  /\ At("list", h)
  /\ \/ Goes(h, "create") /\ misled' = misled + 1
     \/ \E seen \in Page(tunnels) :
          /\ Chooses(h, seen)
          /\ misled' = IF seen = {} /\ tunnels # {} THEN misled + 1 ELSE misled
  /\ UNCHANGED <<cloud, runs>>

(* Without the token the run goes on and prints an empty one.              *)
GetTunnelToken(h) ==
  /\ At("token", h)
  /\ \/ run[h].id \in tunnels /\ Becomes(h, Named(run[h]))
     \/ Becomes(h, Named([run[h] EXCEPT !.warned = TRUE]))
  /\ UNCHANGED <<cloud, runs, misled>>

(* A failure to create is fatal, whether or not the tunnel came to be.     *)
CreateTunnel(h) ==
  /\ At("create", h)
  /\ \/ /\ Exits(h, 1, FALSE) /\ UNCHANGED <<tunnels, made>>
     \/ /\ made' = made + 1 /\ tunnels' = tunnels \cup {made'}
        /\ \/ Exits(h, 1, FALSE)
           \/ Becomes(h, Named([run[h] EXCEPT !.id = made']))
  /\ UNCHANGED <<ingress, record, records, runs, misled>>

(* Slip: every failure is taken for an existing record.                    *)
AcceptsAny(h) == {FALSE, TRUE}

(* Whether the run may go on without a warning after an error: only when   *)
(* the API says that the record exists, wherever that points.              *)
QuietAfterError(h) == IF record[h] # NoRecord THEN {FALSE, TRUE} ELSE {FALSE}

(* Slip: an existing record is overwritten.                                *)
Overwrites(h) ==
  [record EXCEPT ![h] = [id |-> records + 1, to |-> run[h].id]]

Pointed(h) == IF record[h] = NoRecord THEN Overwrites(h) ELSE record

Crosses(h, g) ==
  run[g].pc \in {"delete_record", "delete_tunnel"} /\ run[g].id = run[h].id

(* A record that points to the run's tunnel from now on crosses the        *)
(* teardowns of that tunnel that have looked for records.                  *)
CreateDNSCNAME(h) ==
  LET after(quiet) == Recorded([run[h] EXCEPT !.warned = @ \/ ~quiet]) IN
  /\ At("dns", h)
  /\ \/ /\ \E quiet \in QuietAfterError(h) : Becomes(h, after(quiet))
        /\ UNCHANGED <<record, records>>
     \/ /\ Pointed(h) # record
        /\ record' = Pointed(h) /\ records' = records + 1
        /\ \E quiet \in BOOLEAN :
             run' = [g \in Hosts |->
                       IF g = h THEN after(quiet)
                       ELSE [run[g] EXCEPT !.crossed = @ \/ Crosses(h, g)]]
  /\ UNCHANGED <<tunnels, ingress, made, runs, misled>>

(* The whole configuration of the tunnel is replaced.                      *)
ConfigureTunnelIngress(h) ==
  /\ At("ingress", h)
  /\ \E lost \in BOOLEAN, refused \in BOOLEAN :
       /\ run[h].id \notin tunnels => refused
       /\ ingress' = IF refused THEN ingress
                     ELSE [ingress EXCEPT ![run[h].id] = h]
       /\ Exits(h, 0, run[h].warned \/ lost \/ refused)
  /\ UNCHANGED <<tunnels, record, made, records, runs, misled>>

-----------------------------------------------------------------------------
(* runTeardownTunnel.                                                      *)

BeginTeardown(h, id, zone) ==
  /\ run[h].pc \in {"idle", "exited"} /\ runs < RunCap
  /\ Becomes(h, [NoRun EXCEPT !.mode = "teardown", !.id = id, !.zone = zone,
                   !.pc = IF zone THEN "find" ELSE "delete_tunnel"])
  /\ runs' = runs + 1
  /\ UNCHANGED <<cloud, misled>>

PointingTo(t) == {h \in Hosts : record[h].to = t}

Looked(h, found, blind) ==
  Becomes(h, [run[h] EXCEPT
    !.todo = {record[g].id : g \in found},
    !.blind = blind,
    !.pc = IF found = {} THEN "delete_tunnel" ELSE "delete_record"])

(* A query that fails is a warning, no more.                               *)
FindDNSRecord(h) ==
  /\ At("find", h)
  /\ \/ Looked(h, {}, TRUE)
     \/ \E found \in Page(PointingTo(run[h].id)) :
          Looked(h, found, found # PointingTo(run[h].id))
  /\ UNCHANGED <<cloud, runs, misled>>

(* Slip: an error is logged and forgotten.                                 *)
CodeForgotten(h, failed) == run[h].code

(* Slip: the exit code counts the errors.                                  *)
CodeCounts(h, failed) == run[h].code + IF failed THEN 1 ELSE 0

CodeAfter(h, failed) == IF failed THEN 1 ELSE run[h].code

WithId(id) == {h \in Hosts : record[h].id = id}

DeleteDNSRecord(h, id) ==
  /\ At("delete_record", h) /\ id \in run[h].todo
  /\ \E failed \in BOOLEAN :
       /\ \/ failed /\ UNCHANGED record
          \/ \E g \in WithId(id) : record' = [record EXCEPT ![g] = NoRecord]
       /\ run' = [g \in Hosts |->
            IF g = h
            THEN [run[h] EXCEPT
                    !.todo = @ \ {id},
                    !.code = CodeAfter(h, failed),
                    !.pc = IF run[h].todo = {id} THEN "delete_tunnel" ELSE @]
            ELSE [run[g] EXCEPT
                    !.crossed = @ \/ (At("ingress", g) /\ record'[g] # record[g])]]
  /\ UNCHANGED <<tunnels, ingress, made, records, runs, misled>>

(* Refused while the tunnel has connections, and when it is gone.          *)
DeleteTunnel(h) ==
  /\ At("delete_tunnel", h)
  /\ \E failed \in BOOLEAN :
       /\ \/ failed /\ UNCHANGED tunnels
          \/ run[h].id \in tunnels /\ tunnels' = tunnels \ {run[h].id}
       /\ Exits(h, CodeAfter(h, failed), FALSE)
  /\ UNCHANGED <<ingress, record, made, records, runs, misled>>

-----------------------------------------------------------------------------
Killed(h) ==
  /\ run[h].pc \notin {"idle", "exited"}
  /\ Becomes(h, NoRun)
  /\ UNCHANGED <<cloud, runs, misled>>

(* A call is carried out, is refused, or is carried out while its answer   *)
(* is lost; post, put and delete of the client turn both of the latter     *)
(* into the same kind of error.                                            *)
Calls(h) ==
  \/ ListTunnels(h) \/ GetTunnelToken(h) \/ CreateTunnel(h)
  \/ CreateDNSCNAME(h) \/ ConfigureTunnelIngress(h)
  \/ FindDNSRecord(h) \/ (\E id \in run[h].todo : DeleteDNSRecord(h, id))
  \/ DeleteTunnel(h)

Next ==
  \E h \in Hosts :
    \/ \E id \in 0..made, zone \in BOOLEAN, serve \in BOOLEAN :
         BeginSetup(h, id, zone, serve)
    \/ \E id \in 1..made, zone \in BOOLEAN : BeginTeardown(h, id, zone)
    \/ Calls(h)
    \/ Killed(h)

Spec == Init /\ [][Next]_vars

-----------------------------------------------------------------------------
TypeOK ==
  /\ made \in 0..runs /\ records \in 0..runs
  /\ runs \in 0..RunCap /\ misled \in 0..runs
  /\ tunnels \subseteq 1..made
  /\ ingress \in [1..RunCap -> Hosts \cup {Nobody}]
  /\ record \in [Hosts -> [id : 0..records, to : -1..made]]
  /\ run \in [Hosts ->
       [pc : Pcs, mode : {"setup", "teardown"}, id : 0..made,
        zone : BOOLEAN, serve : BOOLEAN, warned : BOOLEAN, blind : BOOLEAN,
        crossed : BOOLEAN, todo : SUBSET (1..records), code : {0, 1}]]

Creating == {h \in Hosts : At("create", h)}

(* main.go:524 looks for a tunnel of the name before it makes one, so that *)
(* killed and repeated runs do not pile up tunnels: there is at most one   *)
(* for every controller setting up at once, plus one for every run whose   *)
(* list failed or did not show them all.                                   *)
DuplicatesBounded ==
  Cardinality(tunnels) + Cardinality(Creating) <= Cardinality(Hosts) + misled

ExitsNow(h) == ~At("exited", h) /\ At("exited", h)'

(* A set-up that ends without a warning has left what it was given the     *)
(* means for: its tunnel with the hostname's ingress, and the hostname     *)
(* with a record unless a teardown deleted that between the two calls      *)
(* (main.go:560-587).                                                      *)
QuietSetupServes ==
  [][\A h \in Hosts :
       ExitsNow(h) /\ run[h].mode = "setup" /\ run'[h].code = 0
         /\ ~run'[h].warned
       => /\ run[h].serve =>
               run[h].id \in tunnels' /\ ingress'[run[h].id] = h
          /\ run[h].zone /\ ~run[h].crossed => record'[h] # NoRecord]_vars

(* A teardown that exits with 0 has left neither the tunnel nor a record   *)
(* that points to it, unless its query of the records failed or was cut    *)
(* short, or a set-up on another controller pointed one there meanwhile    *)
(* (main.go:608-649).                                                      *)
TeardownClean ==
  [][\A h \in Hosts :
       ExitsNow(h) /\ run[h].mode = "teardown" /\ run'[h].code = 0
         /\ run[h].zone /\ ~run[h].blind /\ ~run[h].crossed
       => /\ run[h].id \notin tunnels'
          /\ \A g \in Hosts : record'[g].to # run[h].id]_vars

Serves(h, t) == t \in tunnels /\ ingress[t] = h /\ record[h].to = t

(* What a hostname is served by goes only when its own tunnel is torn      *)
(* down or set up for another hostname: no run takes away the record or    *)
(* the ingress of a tunnel it does not work on.                            *)
ServedUntilTouched ==
  [][\A h \in Hosts, t \in 1..made :
       Serves(h, t) /\ ~Serves(h, t)'
       => \E g \in Hosts :
            /\ run[g].id = t
            /\ \/ run[g].pc \in {"delete_record", "delete_tunnel"}
               \/ run[g].pc = "ingress" /\ g # h]_vars
=============================================================================
