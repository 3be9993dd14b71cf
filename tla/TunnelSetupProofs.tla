------------------------- MODULE TunnelSetupProofs -------------------------
(***************************************************************************)
(* However many controllers set up and tear down, are killed and start     *)
(* again: the tunnels of one name do not pile up, and what a run's exit    *)
(* code and its silence promise is so.                                     *)
(***************************************************************************)
EXTENDS TunnelSetup, FiniteSetTheorems, TLAPS

(* As much of the types as the count needs.                                *)
Shape ==
  /\ IsFiniteSet(tunnels)
  /\ misled \in Nat
  /\ DOMAIN run = Hosts
  /\ \A h \in Hosts : "pc" \in DOMAIN run[h]

IInv == Shape /\ DuplicatesBounded
-----------------------------------------------------------------------------
(* One process makes a step, the others stay where they are.               *)
Moves(h) ==
  /\ DOMAIN run' = Hosts
  /\ \A g \in Hosts : "pc" \in DOMAIN run'[g]
  /\ \A g \in Hosts \ {h} : run'[g].pc = run[g].pc

MovesTo(h, pc) == Moves(h) /\ run'[h].pc = pc

(* Where the steps lead that replace the record of a process.              *)
LEMMA GoesMoves ==
  ASSUME Shape, NEW h \in Hosts, NEW pc, Goes(h, pc)
  PROVE  MovesTo(h, pc)
BY DEF Shape, Goes, Becomes, Moves, MovesTo

LEMMA BecomesMoves ==
  ASSUME Shape, NEW h \in Hosts, NEW r, "pc" \in DOMAIN r, Becomes(h, r)
  PROVE  MovesTo(h, r.pc)
BY DEF Shape, Becomes, Moves, MovesTo

LEMMA ExitsMoves ==
  ASSUME Shape, NEW h \in Hosts, NEW code, NEW warned, Exits(h, code, warned)
  PROVE  MovesTo(h, "exited")
BY DEF Shape, Exits, Ended, Becomes, NoRun, Moves, MovesTo

(* Where a set-up goes once it has its tunnel, or its record.              *)
LEMMA RecordedPc ==
  ASSUME NEW p, "pc" \in DOMAIN p
  PROVE  /\ "pc" \in DOMAIN Recorded(p)
         /\ Recorded(p).pc \in {"ingress", "exited"}
<1>1. CASE p.serve
  BY <1>1 DEF Recorded
<1>2. CASE ~p.serve
  BY <1>2 DEF Recorded, Ended, NoRun
<1>. QED
  BY <1>1, <1>2

LEMMA NamedPc ==
  ASSUME NEW p, "pc" \in DOMAIN p
  PROVE  /\ "pc" \in DOMAIN Named(p)
         /\ Named(p).pc \in {"dns", "ingress", "exited"}
<1>1. CASE p.zone
  BY <1>1 DEF Named
<1>2. CASE ~p.zone
  BY <1>2, RecordedPc DEF Named
<1>. QED
  BY <1>1, <1>2

LEMMA GetTokenMoves ==
  ASSUME Shape, NEW h \in Hosts, GetTunnelToken(h)
  PROVE  Moves(h) /\ run'[h].pc \in {"dns", "ingress", "exited"}
<1>1. PICK p : "pc" \in DOMAIN p /\ Becomes(h, Named(p))
  BY DEF GetTunnelToken, Shape
<1>. QED
  BY <1>1, NamedPc, BecomesMoves DEF MovesTo

LEMMA CreateTunnelMoves ==
  ASSUME Shape, NEW h \in Hosts, CreateTunnel(h)
  PROVE  Moves(h) /\ run'[h].pc \in {"dns", "ingress", "exited"}
<1>1. CASE Exits(h, 1, FALSE)
  BY <1>1, ExitsMoves DEF MovesTo
<1>2. CASE Becomes(h, Named([run[h] EXCEPT !.id = made']))
  <2>1. "pc" \in DOMAIN [run[h] EXCEPT !.id = made']
    BY DEF Shape
  <2>. QED
    BY <1>2, <2>1, NamedPc, BecomesMoves DEF MovesTo
<1>. QED
  BY <1>1, <1>2 DEF CreateTunnel

(* What becomes of the process that has asked for its record, and of the   *)
(* others.                                                                 *)
LEMMA CreateRecordRuns ==
  ASSUME NEW h \in Hosts, CreateDNSCNAME(h)
  PROVE  \E quiet \in BOOLEAN :
           /\ \/ /\ Becomes(h, Recorded([run[h] EXCEPT !.warned = @ \/ ~quiet]))
                 /\ quiet \in QuietAfterError(h) /\ record' = record
              \/ /\ run' = [g \in Hosts |->
                             IF g = h
                             THEN Recorded([run[h] EXCEPT !.warned = @ \/ ~quiet])
                             ELSE [run[g] EXCEPT !.crossed = @ \/ Crosses(h, g)]]
                 /\ record' = Pointed(h) /\ Pointed(h) # record
BY DEF CreateDNSCNAME, QuietAfterError

LEMMA CreateRecordMoves ==
  ASSUME Shape, NEW h \in Hosts, CreateDNSCNAME(h)
  PROVE  Moves(h) /\ run'[h].pc \in {"ingress", "exited"}
<1>. DEFINE after(quiet) == Recorded([run[h] EXCEPT !.warned = @ \/ ~quiet])
<1>1. PICK quiet \in BOOLEAN :
        \/ Becomes(h, after(quiet))
        \/ run' = [g \in Hosts |->
                     IF g = h THEN after(quiet)
                     ELSE [run[g] EXCEPT !.crossed = @ \/ Crosses(h, g)]]
  BY CreateRecordRuns
<1>2. "pc" \in DOMAIN after(quiet) /\ after(quiet).pc \in {"ingress", "exited"}
  <2>1. "pc" \in DOMAIN [run[h] EXCEPT !.warned = @ \/ ~quiet]
    BY DEF Shape
  <2>. QED
    BY <2>1, RecordedPc
<1>. DEFINE r == after(quiet)
<1>3. CASE Becomes(h, r)
  BY <1>2, <1>3, BecomesMoves DEF MovesTo
<1>4. CASE run' = [g \in Hosts |->
                     IF g = h THEN r
                     ELSE [run[g] EXCEPT !.crossed = @ \/ Crosses(h, g)]]
  <2>1. "pc" \in DOMAIN r /\ r.pc \in {"ingress", "exited"}
    BY <1>2
  <2>. HIDE DEF r
  <2>. QED
    BY <1>4, <2>1 DEF Shape, Moves
<1>. QED
  BY <1>1, <1>3, <1>4

LEMMA DeleteRecordMoves ==
  ASSUME Shape, NEW h \in Hosts, NEW id \in run[h].todo, DeleteDNSRecord(h, id)
  PROVE  Moves(h) /\ run'[h].pc \in {"delete_record", "delete_tunnel"}
<1>1. PICK failed \in BOOLEAN :
        run' = [g \in Hosts |->
          IF g = h
          THEN [run[h] EXCEPT
                  !.todo = @ \ {id},
                  !.code = CodeAfter(h, failed),
                  !.pc = IF run[h].todo = {id} THEN "delete_tunnel" ELSE @]
          ELSE [run[g] EXCEPT
                  !.crossed = @ \/ (At("ingress", g) /\ record'[g] # record[g])]]
  BY DEF DeleteDNSRecord
<1>2. run[h].pc = "delete_record"
  BY DEF DeleteDNSRecord, At
<1>. QED
  BY <1>1, <1>2 DEF Shape, Moves

LEMMA FindMoves ==
  ASSUME Shape, NEW h \in Hosts, FindDNSRecord(h)
  PROVE  Moves(h) /\ run'[h].pc \in {"delete_record", "delete_tunnel"}
<1>1. PICK found \in SUBSET Hosts, blind \in BOOLEAN : Looked(h, found, blind)
  BY DEF FindDNSRecord, Page, PointingTo
<1>. QED
  BY <1>1 DEF Looked, Becomes, Shape, Moves

LEMMA ListMoves ==
  ASSUME Shape, NEW h \in Hosts, ListTunnels(h)
  PROVE  Moves(h) /\ run'[h].pc \in {"create", "token"}
<1>1. CASE Goes(h, "create")
  BY <1>1, GoesMoves DEF MovesTo
<1>2. CASE ~Goes(h, "create")
  <2>1. PICK t \in tunnels :
          Becomes(h, [run[h] EXCEPT !.pc = "token", !.id = t])
    BY <1>2 DEF ListTunnels, Page, Chooses
  <2>. QED
    BY <2>1 DEF Shape, Becomes, Moves
<1>. QED
  BY <1>1, <1>2

LEMMA EndMoves ==
  ASSUME Shape, NEW h \in Hosts, ConfigureTunnelIngress(h) \/ DeleteTunnel(h)
  PROVE  MovesTo(h, "exited")
<1>1. \E code, warned : Exits(h, code, warned)
  BY DEF ConfigureTunnelIngress, DeleteTunnel
<1>. QED
  BY <1>1, ExitsMoves

(* What a run is at its beginning.                                         *)
NewRun(id, zone, serve) ==
  [NoRun EXCEPT !.id = id, !.zone = zone, !.serve = serve]

FirstOf(id, r) == IF id = None THEN [r EXCEPT !.pc = "list"] ELSE Named(r)

LEMMA BeginSetupBecomes ==
  ASSUME NEW h, NEW id, NEW zone, NEW serve, BeginSetup(h, id, zone, serve)
  PROVE  Becomes(h, FirstOf(id, NewRun(id, zone, serve)))
BY DEF BeginSetup, FirstOf, NewRun

LEMMA BeginSetupMoves ==
  ASSUME Shape, NEW h \in Hosts, NEW id, NEW zone, NEW serve,
         BeginSetup(h, id, zone, serve)
  PROVE  Moves(h) /\ run'[h].pc \in {"list", "dns", "ingress", "exited"}
<1>. DEFINE r == NewRun(id, zone, serve)
<1>1. "pc" \in DOMAIN r
  BY DEF NewRun, NoRun
<1>. HIDE DEF r
<1>2. /\ "pc" \in DOMAIN FirstOf(id, r)
      /\ FirstOf(id, r).pc \in {"list", "dns", "ingress", "exited"}
  <2>1. CASE id = None
    BY <1>1, <2>1 DEF FirstOf
  <2>2. CASE id # None
    BY <1>1, <2>2, NamedPc DEF FirstOf
  <2>. QED
    BY <2>1, <2>2
<1>3. Becomes(h, FirstOf(id, r))
  BY BeginSetupBecomes DEF r
<1>. QED
  BY <1>2, <1>3, BecomesMoves DEF MovesTo

LEMMA BeginTeardownMoves ==
  ASSUME Shape, NEW h \in Hosts, NEW id, NEW zone, BeginTeardown(h, id, zone)
  PROVE  Moves(h) /\ run'[h].pc \in {"find", "delete_tunnel"}
<1>. DEFINE pc == IF zone THEN "find" ELSE "delete_tunnel"
<1>1. Becomes(h, [NoRun EXCEPT !.mode = "teardown", !.id = id,
                               !.zone = zone, !.pc = pc])
  BY DEF BeginTeardown
<1>2. pc \in {"find", "delete_tunnel"}
  OBVIOUS
<1>. HIDE DEF pc
<1>. QED
  BY <1>1, <1>2 DEF Becomes, NoRun, Shape, Moves

LEMMA KilledMoves ==
  ASSUME Shape, NEW h \in Hosts, Killed(h)
  PROVE  MovesTo(h, "idle")
BY DEF Killed, Becomes, NoRun, Shape, Moves, MovesTo

(* What a step means for the processes that are about to create.           *)
LEMMA CreatingMoves ==
  ASSUME Shape, NEW h \in Hosts, Moves(h)
  PROVE  /\ Creating' \subseteq Creating \cup {h}
         /\ run'[h].pc # "create" => Creating' \subseteq Creating \ {h}
BY DEF Shape, Moves, Creating, At

LEMMA OneAdded ==
  ASSUME NEW S, NEW x, IsFiniteSet(S)
  PROVE  /\ IsFiniteSet(S \cup {x}) /\ Cardinality(S \cup {x}) \in Nat
         /\ Cardinality(S \cup {x}) <= Cardinality(S) + 1
<1>1. /\ IsFiniteSet(S \cup {x})
      /\ \/ Cardinality(S \cup {x}) = Cardinality(S)
         \/ Cardinality(S \cup {x}) = Cardinality(S) + 1
  BY FS_AddElement
<1>2. Cardinality(S) \in Nat
  BY FS_CardinalityType
<1>. QED
  BY <1>1, <1>2

LEMMA CreatingFinite ==
  ASSUME NEW S, S \subseteq Hosts
  PROVE  IsFiniteSet(S) /\ Cardinality(S) \in Nat
           /\ Cardinality(Hosts) \in Nat /\ Cardinality(S) <= Cardinality(Hosts)
<1>1. IsFiniteSet(Hosts)
  BY TunnelSetupAssumption DEF TunnelSetupAssumption
<1>. QED
  BY <1>1, FS_Subset, FS_CardinalityType
-----------------------------------------------------------------------------
(* The four ways a step changes the count.                                 *)

(* Nothing comes to be, and nobody is newly about to create.               *)
LEMMA Fewer ==
  ASSUME IInv, Creating' \subseteq Creating, tunnels' \subseteq tunnels,
         misled' = misled
  PROVE  DuplicatesBounded' /\ IsFiniteSet(tunnels')
<1>1. IsFiniteSet(Creating) /\ IsFiniteSet(tunnels)
  BY CreatingFinite DEF IInv, Shape, Creating
<1>2. /\ Cardinality(Creating') <= Cardinality(Creating)
      /\ Cardinality(tunnels') <= Cardinality(tunnels)
      /\ IsFiniteSet(Creating') /\ IsFiniteSet(tunnels')
  BY <1>1, FS_Subset
<1>3. /\ Cardinality(Creating') \in Nat /\ Cardinality(Creating) \in Nat
      /\ Cardinality(tunnels') \in Nat /\ Cardinality(tunnels) \in Nat
      /\ Cardinality(Hosts) \in Nat
  BY <1>1, <1>2, FS_CardinalityType, CreatingFinite
<1>. QED
  BY <1>2, <1>3 DEF IInv, Shape, DuplicatesBounded

(* A list that failed, or hid what there is, is counted.                   *)
LEMMA Misled ==
  ASSUME IInv, NEW h \in Hosts, Creating' \subseteq Creating \cup {h},
         tunnels' = tunnels, misled' = misled + 1
  PROVE  DuplicatesBounded'
<1>1. IsFiniteSet(Creating) /\ Cardinality(Creating) \in Nat
  BY CreatingFinite DEF Creating
<1>2. /\ IsFiniteSet(Creating \cup {h})
      /\ Cardinality(Creating \cup {h}) <= Cardinality(Creating) + 1
      /\ Cardinality(Creating \cup {h}) \in Nat
  BY <1>1, OneAdded
<1>3. Cardinality(Creating') <= Cardinality(Creating) + 1
      /\ Cardinality(Creating') \in Nat
  BY <1>1, <1>2, FS_Subset, FS_CardinalityType
<1>4. Cardinality(tunnels) \in Nat /\ Cardinality(Hosts) \in Nat
  BY FS_CardinalityType, CreatingFinite DEF IInv, Shape
<1>. QED
  BY <1>1, <1>3, <1>4 DEF IInv, Shape, DuplicatesBounded

(* Where there is no tunnel, every controller may be about to create one.  *)
LEMMA NoneYet ==
  ASSUME IInv, tunnels = {}, tunnels' = {}, misled' = misled
  PROVE  DuplicatesBounded'
<1>1. Creating' \subseteq Hosts
  BY DEF Creating
<1>2. Cardinality(Creating') \in Nat /\ Cardinality(Hosts) \in Nat
      /\ Cardinality(Creating') <= Cardinality(Hosts)
  BY <1>1, CreatingFinite
<1>3. Cardinality(tunnels') = 0
  BY FS_EmptySet
<1>. QED
  BY <1>2, <1>3 DEF IInv, Shape, DuplicatesBounded

(* A tunnel takes the place of the process that was about to create it.    *)
LEMMA Created ==
  ASSUME IInv, NEW h \in Creating, NEW t, Creating' \subseteq Creating \ {h},
         tunnels' = tunnels \cup {t}, misled' = misled
  PROVE  DuplicatesBounded' /\ IsFiniteSet(tunnels')
<1>1. /\ IsFiniteSet(Creating) /\ Cardinality(Creating) \in Nat
      /\ IsFiniteSet(tunnels) /\ Cardinality(tunnels) \in Nat
      /\ Cardinality(Hosts) \in Nat
  BY CreatingFinite, FS_CardinalityType DEF IInv, Shape, Creating
<1>2. /\ IsFiniteSet(Creating \ {h})
      /\ Cardinality(Creating \ {h}) = Cardinality(Creating) - 1
  BY <1>1, FS_RemoveElement
<1>3. /\ Cardinality(Creating') <= Cardinality(Creating) - 1
      /\ Cardinality(Creating') \in Nat
  BY <1>2, FS_Subset, FS_CardinalityType
<1>4. /\ IsFiniteSet(tunnels')
      /\ Cardinality(tunnels') <= Cardinality(tunnels) + 1
      /\ Cardinality(tunnels') \in Nat
  BY <1>1, OneAdded
<1>. QED
  BY <1>1, <1>3, <1>4 DEF IInv, Shape, DuplicatesBounded
-----------------------------------------------------------------------------
(* A step that changes neither tunnels nor the count of misled runs, and   *)
(* after which the process is not about to create.                         *)
LEMMA Harmless ==
  ASSUME IInv, NEW h \in Hosts, Moves(h), run'[h].pc # "create",
         tunnels' \subseteq tunnels, misled' = misled
  PROVE  IInv'
<1>1. Creating' \subseteq Creating
  BY CreatingMoves DEF IInv
<1>2. DuplicatesBounded' /\ IsFiniteSet(tunnels')
  BY <1>1, Fewer
<1>. QED
  BY <1>2 DEF IInv, Shape, Moves

(* The list of tunnels decides whether the process is about to create.     *)
LEMMA ListTunnelsCount ==
  ASSUME IInv, NEW h \in Hosts, ListTunnels(h)
  PROVE  IInv'
<1>1. tunnels' = tunnels /\ Shape
  BY DEF ListTunnels, cloud, IInv
<1>2. CASE Goes(h, "create") /\ misled' = misled + 1
  <2>1. Moves(h)
    BY <1>1, <1>2, GoesMoves DEF MovesTo
  <2>2. DuplicatesBounded'
    BY <1>1, <1>2, <2>1, CreatingMoves, Misled
  <2>. QED
    BY <1>1, <1>2, <2>1, <2>2 DEF IInv, Shape, Moves
<1>3. ASSUME NEW seen \in Page(tunnels), Chooses(h, seen),
             misled' = IF seen = {} /\ tunnels # {} THEN misled + 1 ELSE misled
      PROVE  IInv'
  <2>1. CASE seen = {}
    <3>1. Moves(h)
      BY <1>1, <1>3, <2>1, GoesMoves DEF Chooses, MovesTo
    <3>2. DuplicatesBounded'
      BY <1>1, <1>3, <2>1, <3>1, CreatingMoves, Misled, NoneYet
    <3>. QED
      BY <1>1, <1>3, <3>1, <3>2 DEF IInv, Shape, Moves
  <2>2. CASE seen # {}
    <3>1. PICK t \in seen :
            Becomes(h, [run[h] EXCEPT !.pc = "token", !.id = t])
      BY <1>3, <2>2 DEF Chooses
    <3>2. MovesTo(h, "token")
      BY <1>1, <3>1 DEF Shape, Becomes, Moves, MovesTo
    <3>. QED
      BY <1>1, <1>3, <2>2, <3>2, Harmless DEF MovesTo
  <2>. QED
    BY <2>1, <2>2
<1>. QED
  BY <1>2, <1>3 DEF ListTunnels

(* Making a tunnel, with the answer or without.                            *)
LEMMA CreateTunnelCount ==
  ASSUME IInv, NEW h \in Hosts, CreateTunnel(h)
  PROVE  IInv'
<1>1. misled' = misled /\ Shape /\ h \in Creating
  BY DEF CreateTunnel, IInv, Creating
<1>2. CASE Exits(h, 1, FALSE) /\ tunnels' = tunnels
  BY <1>1, <1>2, ExitsMoves, Harmless DEF MovesTo
<1>3. CASE tunnels' = tunnels \cup {made'}
  <2>1. Moves(h) /\ run'[h].pc # "create"
    BY <1>1, CreateTunnelMoves
  <2>2. Creating' \subseteq Creating \ {h}
    BY <1>1, <2>1, CreatingMoves
  <2>3. DuplicatesBounded' /\ IsFiniteSet(tunnels')
    BY <1>1, <1>3, <2>2, Created
  <2>. QED
    BY <1>1, <2>1, <2>3 DEF IInv, Shape, Moves
<1>. QED
  BY <1>2, <1>3 DEF CreateTunnel

(* The steps of a set-up that make no tunnel.                              *)
LEMMA SetupCount ==
  ASSUME IInv, NEW h \in Hosts,
         GetTunnelToken(h) \/ CreateDNSCNAME(h) \/ ConfigureTunnelIngress(h)
  PROVE  IInv'
<1>1. tunnels' = tunnels /\ misled' = misled /\ Shape
  BY DEF GetTunnelToken, CreateDNSCNAME, ConfigureTunnelIngress, cloud, IInv
<1>2. Moves(h) /\ run'[h].pc # "create"
  BY <1>1, GetTokenMoves, CreateRecordMoves, EndMoves DEF MovesTo
<1>. QED
  BY <1>1, <1>2, Harmless

(* The steps of a teardown only take away.                                 *)
LEMMA TeardownCount ==
  ASSUME IInv, NEW h \in Hosts,
         \/ FindDNSRecord(h)
         \/ \E id \in run[h].todo : DeleteDNSRecord(h, id)
         \/ DeleteTunnel(h)
  PROVE  IInv'
<1>1. tunnels' \subseteq tunnels /\ misled' = misled /\ Shape
  BY DEF FindDNSRecord, DeleteDNSRecord, DeleteTunnel, cloud, IInv
<1>2. Moves(h) /\ run'[h].pc # "create"
  BY <1>1, FindMoves, DeleteRecordMoves, EndMoves DEF MovesTo
<1>. QED
  BY <1>1, <1>2, Harmless

(* Runs begin and are killed.                                              *)
LEMMA BeginCount ==
  ASSUME IInv, NEW h \in Hosts, NEW id, NEW zone, NEW serve,
         \/ BeginSetup(h, id, zone, serve)
         \/ BeginTeardown(h, id, zone)
         \/ Killed(h)
  PROVE  IInv'
<1>1. tunnels' = tunnels /\ misled' = misled /\ Shape
  BY DEF BeginSetup, BeginTeardown, Killed, cloud, IInv
<1>2. Moves(h) /\ run'[h].pc # "create"
  BY <1>1, BeginSetupMoves, BeginTeardownMoves, KilledMoves DEF MovesTo
<1>. QED
  BY <1>1, <1>2, Harmless

LEMMA InitCount == Init => IInv
<1>. SUFFICES ASSUME Init PROVE IInv
  OBVIOUS
<1>1. Shape
  BY FS_EmptySet DEF Init, Shape, NoRun
<1>2. Creating = {} /\ tunnels = {} /\ misled = 0
  BY DEF Init, Creating, At, NoRun
<1>3. Cardinality(Hosts) \in Nat /\ Cardinality({}) = 0
  BY FS_EmptySet, CreatingFinite
<1>. QED
  BY <1>1, <1>2, <1>3 DEF IInv, DuplicatesBounded

LEMMA NextCount == IInv /\ [Next]_vars => IInv'
<1>. SUFFICES ASSUME IInv, [Next]_vars PROVE IInv'
  OBVIOUS
<1>1. CASE UNCHANGED vars
  BY <1>1 DEF vars, cloud, IInv, Shape, DuplicatesBounded, Creating, At
<1>2. ASSUME NEW h \in Hosts, Calls(h) PROVE IInv'
  BY <1>2, ListTunnelsCount, CreateTunnelCount, SetupCount, TeardownCount
     DEF Calls
<1>3. ASSUME NEW h \in Hosts, NEW id, NEW zone, NEW serve,
             \/ BeginSetup(h, id, zone, serve)
             \/ BeginTeardown(h, id, zone)
             \/ Killed(h)
      PROVE  IInv'
  BY <1>3, BeginCount
<1>. QED
  BY <1>1, <1>2, <1>3 DEF Next

(* main.go:524: for any number of controllers and runs, tunnels of one     *)
(* name number at most the controllers plus the runs that a list misled.   *)
THEOREM TunnelsDoNotPileUp == Spec => []DuplicatesBounded
<1>1. IInv => DuplicatesBounded
  BY DEF IInv
<1>. QED
  BY InitCount, NextCount, <1>1, PTL DEF Spec
-----------------------------------------------------------------------------
(* The types, with the counters not yet bounded by the runs.               *)
Processes(m, n) ==
  [pc : Pcs, mode : {"setup", "teardown"}, id : 0..m,
   zone : BOOLEAN, serve : BOOLEAN, warned : BOOLEAN, blind : BOOLEAN,
   crossed : BOOLEAN, todo : SUBSET (1..n), code : {0, 1}]

Records(m, n) == [id : 0..n, to : -1..m]

Types ==
  /\ made \in Nat /\ records \in Nat /\ misled \in Nat /\ runs \in 0..RunCap
  /\ tunnels \subseteq 1..made
  /\ ingress \in [1..RunCap -> Hosts \cup {Nobody}]
  /\ record \in [Hosts -> Records(made, records)]
  /\ run \in [Hosts -> Processes(made, records)]

LEMMA MoreMade ==
  ASSUME NEW m \in Nat, NEW n \in Nat, NEW k \in Nat, NEW l \in Nat,
         m <= k, n <= l
  PROVE  /\ Processes(m, n) \subseteq Processes(k, l)
         /\ Records(m, n) \subseteq Records(k, l)
<1>1. 0..m \subseteq 0..k /\ SUBSET (1..n) \subseteq SUBSET (1..l)
      /\ 0..n \subseteq 0..l /\ -1..m \subseteq -1..k
  OBVIOUS
<1>. QED
  BY <1>1 DEF Processes, Records

(* The records of a process that a step makes of another.                  *)
LEMMA UpdatePc ==
  ASSUME NEW m, NEW n, NEW p \in Processes(m, n), NEW pc \in Pcs
  PROVE  [p EXCEPT !.pc = pc] \in Processes(m, n)
BY DEF Processes

LEMMA UpdateWarned ==
  ASSUME NEW m, NEW n, NEW p \in Processes(m, n), NEW b \in BOOLEAN
  PROVE  [p EXCEPT !.warned = b] \in Processes(m, n)
BY DEF Processes

LEMMA UpdateId ==
  ASSUME NEW m, NEW n, NEW p \in Processes(m, n), NEW i \in 0..m
  PROVE  [p EXCEPT !.id = i] \in Processes(m, n)
BY DEF Processes

LEMMA UpdateChosen ==
  ASSUME NEW m, NEW n, NEW p \in Processes(m, n), NEW pc \in Pcs,
         NEW i \in 0..m
  PROVE  [p EXCEPT !.pc = pc, !.id = i] \in Processes(m, n)
BY DEF Processes

LEMMA UpdateCrossed ==
  ASSUME NEW m, NEW n, NEW p \in Processes(m, n), NEW b \in BOOLEAN
  PROVE  [p EXCEPT !.crossed = b] \in Processes(m, n)
BY DEF Processes

LEMMA UpdateFound ==
  ASSUME NEW m, NEW n, NEW p \in Processes(m, n), NEW pc \in Pcs,
         NEW b \in BOOLEAN, NEW s \in SUBSET (1..n)
  PROVE  [p EXCEPT !.todo = s, !.blind = b, !.pc = pc] \in Processes(m, n)
BY DEF Processes

LEMMA UpdateTodo ==
  ASSUME NEW m, NEW n, NEW p \in Processes(m, n), NEW pc \in Pcs,
         NEW c \in {0, 1}, NEW s \in SUBSET (1..n)
  PROVE  [p EXCEPT !.todo = s, !.code = c, !.pc = pc] \in Processes(m, n)
BY DEF Processes

LEMMA NoRunIsOne ==
  ASSUME NEW m \in Nat, NEW n \in Nat
  PROVE  NoRun \in Processes(m, n)
BY DEF NoRun, Processes, Pcs, None

LEMMA EndedType ==
  ASSUME NEW m \in Nat, NEW n \in Nat, NEW b \in BOOLEAN, NEW c \in {0, 1}
  PROVE  Ended(c, b) \in Processes(m, n)
<1>1. "exited" \in Pcs
  BY DEF Pcs
<1>. QED
  BY <1>1, NoRunIsOne DEF Processes, Ended

LEMMA NamedType ==
  ASSUME NEW m \in Nat, NEW n \in Nat, NEW p \in Processes(m, n)
  PROVE  Recorded(p) \in Processes(m, n) /\ Named(p) \in Processes(m, n)
<1>1. "dns" \in Pcs /\ "ingress" \in Pcs
  BY DEF Pcs
<1>2. p.warned \in BOOLEAN
  BY DEF Processes
<1>3. Ended(0, p.warned) \in Processes(m, n)
  BY <1>2, EndedType
<1>4. /\ [p EXCEPT !.pc = "ingress"] \in Processes(m, n)
      /\ [p EXCEPT !.pc = "dns"] \in Processes(m, n)
  BY <1>1, UpdatePc
<1>5. Recorded(p) \in Processes(m, n)
  BY <1>3, <1>4 DEF Recorded
<1>. QED
  BY <1>4, <1>5 DEF Named

LEMMA NewSetup ==
  ASSUME NEW m \in Nat, NEW n \in Nat, NEW i \in 0..m, NEW b \in BOOLEAN,
         NEW c \in BOOLEAN
  PROVE  FirstOf(i, NewRun(i, b, c)) \in Processes(m, n)
<1>1. NewRun(i, b, c) \in Processes(m, n)
  BY NoRunIsOne DEF Processes, NewRun
<1>2. "list" \in Pcs
  BY DEF Pcs
<1>. QED
  BY <1>1, <1>2, UpdatePc, NamedType DEF FirstOf

LEMMA NewTeardown ==
  ASSUME NEW m \in Nat, NEW n \in Nat, NEW pc \in Pcs, NEW b \in BOOLEAN,
         NEW i \in 0..m
  PROVE  [NoRun EXCEPT !.mode = "teardown", !.id = i, !.zone = b, !.pc = pc]
           \in Processes(m, n)
BY NoRunIsOne DEF Processes

LEMMA BecomesTypes ==
  ASSUME Types, NEW h \in Hosts, NEW r \in Processes(made, records),
         Becomes(h, r)
  PROVE  run' \in [Hosts -> Processes(made, records)]
BY DEF Types, Becomes

LEMMA ExitsTypes ==
  ASSUME Types, NEW h \in Hosts, NEW code \in {0, 1}, NEW warned \in BOOLEAN,
         Exits(h, code, warned)
  PROVE  run' \in [Hosts -> Processes(made, records)]
<1>1. Ended(code, warned) \in Processes(made, records)
  BY EndedType DEF Types
<1>. QED
  BY <1>1, BecomesTypes DEF Exits

LEMMA GoesTypes ==
  ASSUME Types, NEW h \in Hosts, NEW pc \in Pcs, Goes(h, pc)
  PROVE  run' \in [Hosts -> Processes(made, records)]
<1>1. run[h] \in Processes(made, records)
  BY DEF Types
<1>2. [run[h] EXCEPT !.pc = pc] \in Processes(made, records)
  BY <1>1, UpdatePc
<1>. QED
  BY <1>2, BecomesTypes DEF Goes

LEMMA ListTunnelsTypes ==
  ASSUME Types, NEW h \in Hosts, ListTunnels(h)
  PROVE  Types'
<1>1. /\ UNCHANGED <<cloud, runs>> /\ misled' \in Nat
  BY DEF ListTunnels, Types
<1>2. CASE Goes(h, "create")
  BY <1>1, <1>2, GoesTypes DEF Types, cloud, Pcs
<1>3. CASE ~Goes(h, "create")
  <2>1. PICK t \in tunnels :
          Becomes(h, [run[h] EXCEPT !.pc = "token", !.id = t])
    BY <1>3 DEF ListTunnels, Page, Chooses
  <2>2. [run[h] EXCEPT !.pc = "token", !.id = t] \in Processes(made, records)
    <3>1. run[h] \in Processes(made, records) /\ t \in 0..made /\ "token" \in Pcs
      BY DEF Types, Pcs
    <3>. QED
      BY <3>1, UpdateChosen
  <2>3. run' \in [Hosts -> Processes(made, records)]
    BY <2>1, <2>2, BecomesTypes
  <2>. QED
    BY <1>1, <2>3 DEF Types, cloud
<1>. QED
  BY <1>2, <1>3

LEMMA GetTunnelTokenTypes ==
  ASSUME Types, NEW h \in Hosts, GetTunnelToken(h)
  PROVE  Types'
<1>1. UNCHANGED <<cloud, runs, misled>>
  BY DEF GetTunnelToken
<1>2. run[h] \in Processes(made, records) /\ made \in Nat /\ records \in Nat
  BY DEF Types
<1>3. [run[h] EXCEPT !.warned = TRUE] \in Processes(made, records)
  BY <1>2, UpdateWarned
<1>4. /\ Named(run[h]) \in Processes(made, records)
      /\ Named([run[h] EXCEPT !.warned = TRUE]) \in Processes(made, records)
  BY <1>2, <1>3, NamedType
<1>5. run' \in [Hosts -> Processes(made, records)]
  BY <1>4, BecomesTypes DEF GetTunnelToken
<1>. QED
  BY <1>1, <1>5 DEF Types, cloud

LEMMA CreateTunnelTypes ==
  ASSUME Types, NEW h \in Hosts, CreateTunnel(h)
  PROVE  Types'
<1>1. UNCHANGED <<ingress, record, records, runs, misled>>
  BY DEF CreateTunnel
<1>2. /\ made' \in Nat /\ made <= made' /\ tunnels' \subseteq 1..made'
      /\ made' = made \/ made' = made + 1
  <2>1. CASE UNCHANGED <<tunnels, made>>
    BY <2>1 DEF Types
  <2>2. CASE made' = made + 1 /\ tunnels' = tunnels \cup {made'}
    BY <2>2 DEF Types
  <2>. QED
    BY <2>1, <2>2 DEF CreateTunnel
<1>3. /\ Processes(made, records) \subseteq Processes(made', records)
      /\ Records(made, records) \subseteq Records(made', records)
  BY <1>2, MoreMade DEF Types
<1>4. run' \in [Hosts -> Processes(made', records)]
  <2>1. CASE Exits(h, 1, FALSE)
    BY <1>3, <2>1, ExitsTypes
  <2>2. CASE Becomes(h, Named([run[h] EXCEPT !.id = made']))
    <3>1. run[h] \in Processes(made', records) /\ made' \in 0..made'
      BY <1>2, <1>3 DEF Types
    <3>2. [run[h] EXCEPT !.id = made'] \in Processes(made', records)
      BY <3>1, UpdateId
    <3>3. Named([run[h] EXCEPT !.id = made']) \in Processes(made', records)
      BY <1>2, <3>2, NamedType DEF Types
    <3>. QED
      BY <1>3, <2>2, <3>3 DEF Types, Becomes
  <2>. QED
    BY <2>1, <2>2 DEF CreateTunnel
<1>. QED
  BY <1>1, <1>2, <1>3, <1>4 DEF Types

(* The record that is made, and what becomes of the processes meanwhile.   *)
LEMMA CreateRecordTypes ==
  ASSUME Types, NEW h \in Hosts, CreateDNSCNAME(h)
  PROVE  Types'
<1>1. UNCHANGED <<tunnels, ingress, made, runs, misled>>
  BY DEF CreateDNSCNAME
<1>2. run[h].id \in 0..made /\ made \in Nat /\ records \in Nat
  BY DEF Types, Processes
<1>3. /\ records' \in Nat /\ records <= records'
      /\ \/ record' = record
         \/ records' = records + 1
              /\ record' = [record EXCEPT ![h] = [id |-> records',
                                                  to |-> run[h].id]]
  <2>1. \/ UNCHANGED <<record, records>>
        \/ record' = Pointed(h) /\ Pointed(h) # record /\ records' = records + 1
    BY DEF CreateDNSCNAME
  <2>2. CASE UNCHANGED <<record, records>>
    BY <1>2, <2>2
  <2>3. CASE record' = Pointed(h) /\ Pointed(h) # record /\ records' = records + 1
    <3>1. record' = Overwrites(h)
      BY <2>3 DEF Pointed
    <3>. QED
      BY <1>2, <2>3, <3>1 DEF Overwrites
  <2>. QED
    BY <2>1, <2>2, <2>3
<1>4. /\ Processes(made, records) \subseteq Processes(made, records')
      /\ Records(made, records) \subseteq Records(made, records')
  BY <1>2, <1>3, MoreMade
<1>5. record' \in [Hosts -> Records(made, records')]
  <2>1. records' = records + 1
          => [id |-> records', to |-> run[h].id] \in Records(made, records')
    BY <1>2, <1>3 DEF Records
  <2>. QED
    BY <1>3, <1>4, <2>1 DEF Types
<1>6. run' \in [Hosts -> Processes(made, records')]
  <2>1. PICK quiet \in BOOLEAN :
          \/ Becomes(h, Recorded([run[h] EXCEPT !.warned = @ \/ ~quiet]))
          \/ run' = [g \in Hosts |->
                IF g = h THEN Recorded([run[h] EXCEPT !.warned = @ \/ ~quiet])
                ELSE [run[g] EXCEPT !.crossed = @ \/ Crosses(h, g)]]
    BY CreateRecordRuns
  <2>. DEFINE b == run[h].warned \/ ~quiet
              r == Recorded([run[h] EXCEPT !.warned = b])
  <2>2. r \in Processes(made, records)
    <3>1. b \in BOOLEAN /\ run[h] \in Processes(made, records)
      BY DEF Types
    <3>. HIDE DEF b
    <3>2. [run[h] EXCEPT !.warned = b] \in Processes(made, records)
      BY <3>1, UpdateWarned
    <3>. QED
      BY <1>2, <3>2, NamedType
  <2>3. \/ Becomes(h, r)
        \/ run' = [g \in Hosts |->
              IF g = h THEN r
              ELSE [run[g] EXCEPT !.crossed = @ \/ Crosses(h, g)]]
    BY <2>1
  <2>. HIDE DEF r
  <2>4. CASE Becomes(h, r)
    BY <1>4, <2>2, <2>4, BecomesTypes
  <2>5. CASE run' = [g \in Hosts |->
              IF g = h THEN r
              ELSE [run[g] EXCEPT !.crossed = @ \/ Crosses(h, g)]]
    <3>1. ASSUME NEW g \in Hosts PROVE run'[g] \in Processes(made, records)
      <4>. DEFINE c == run[g].crossed \/ Crosses(h, g)
      <4>1. run'[g] = IF g = h THEN r ELSE [run[g] EXCEPT !.crossed = c]
        BY <2>5
      <4>2. c \in BOOLEAN /\ run[g] \in Processes(made, records)
        BY DEF Types
      <4>. HIDE DEF c
      <4>3. [run[g] EXCEPT !.crossed = c] \in Processes(made, records)
        BY <4>2, UpdateCrossed
      <4>. QED
        BY <2>2, <4>1, <4>3
    <3>. QED
      BY <1>4, <2>5, <3>1
  <2>. QED
    BY <2>3, <2>4, <2>5
<1>. QED
  BY <1>1, <1>3, <1>5, <1>6 DEF Types

LEMMA ConfigureTypes ==
  ASSUME Types, NEW h \in Hosts, ConfigureTunnelIngress(h)
  PROVE  Types'
<1>1. UNCHANGED <<tunnels, record, made, records, runs, misled>>
  BY DEF ConfigureTunnelIngress
<1>2. PICK lost \in BOOLEAN, refused \in BOOLEAN :
        /\ ingress' = IF refused THEN ingress
                      ELSE [ingress EXCEPT ![run[h].id] = h]
        /\ Exits(h, 0, run[h].warned \/ lost \/ refused)
  BY DEF ConfigureTunnelIngress
<1>3. (run[h].warned \/ lost \/ refused) \in BOOLEAN
  OBVIOUS
<1>4. run' \in [Hosts -> Processes(made, records)]
  BY <1>2, <1>3, ExitsTypes
<1>5. ingress' \in [1..RunCap -> Hosts \cup {Nobody}]
  BY <1>2 DEF Types
<1>. QED
  BY <1>1, <1>4, <1>5 DEF Types
-----------------------------------------------------------------------------
(* Where a process is tells what it does, and on which tunnel.             *)
SetupPcs == {"list", "token", "create", "dns", "ingress"}
TeardownPcs == {"find", "delete_record", "delete_tunnel"}

Staged(p) ==
  /\ p.pc \in SetupPcs => p.mode = "setup"
  /\ p.pc \in TeardownPcs => p.mode = "teardown"
  /\ p.pc \in TeardownPcs \cup {"token", "dns", "ingress"} => p.id # None
  /\ p.pc = "idle" => ~p.zone /\ ~p.serve

Stages == \A h \in Hosts : Staged(run[h])

(* Records that this program made have an id of their own.                 *)
RecordIds ==
  /\ \A g \in Hosts : record[g].to >= 1 => record[g].id # 0
  /\ \A g, h \in Hosts :
       record[g].id = record[h].id /\ record[g].id # 0 => g = h

Typed == Types /\ Stages /\ RecordIds

(* A step that makes something else of one process only.                   *)
LEMMA BecomesStages ==
  ASSUME Types, Stages, NEW h \in Hosts, NEW r, Becomes(h, r), Staged(r)
  PROVE  Stages'
<1>1. \A g \in Hosts : run'[g] = IF g = h THEN r ELSE run[g]
  BY DEF Types, Becomes
<1>. QED
  BY <1>1 DEF Stages, Staged

LEMMA EndedStaged ==
  ASSUME NEW code, NEW warned
  PROVE  Staged(Ended(code, warned))
BY DEF Staged, Ended, NoRun, SetupPcs, TeardownPcs

LEMMA ExitsStages ==
  ASSUME Types, Stages, NEW h \in Hosts, NEW code, NEW warned,
         Exits(h, code, warned)
  PROVE  Stages'
BY EndedStaged, BecomesStages DEF Exits

LEMMA NamedStaged ==
  ASSUME NEW m, NEW n, NEW p \in Processes(m, n), p.mode = "setup", p.id # None
  PROVE  Staged(Recorded(p)) /\ Staged(Named(p))
<1>1. Staged([p EXCEPT !.pc = "dns"]) /\ Staged([p EXCEPT !.pc = "ingress"])
  BY DEF Staged, Processes, SetupPcs, TeardownPcs
<1>2. Staged(Recorded(p))
  BY <1>1, EndedStaged DEF Recorded
<1>. QED
  BY <1>1, <1>2 DEF Named

LEMMA GoesStages ==
  ASSUME Types, Stages, NEW h \in Hosts, NEW pc \in {"list", "create"},
         run[h].pc \in SetupPcs, Goes(h, pc)
  PROVE  Stages'
<1>1. run[h] \in Processes(made, records) /\ Staged(run[h])
  BY DEF Types, Stages
<1>2. Staged([run[h] EXCEPT !.pc = pc])
  BY <1>1 DEF Staged, Processes, SetupPcs, TeardownPcs
<1>. QED
  BY <1>2, BecomesStages DEF Goes

LEMMA ListTunnelsStages ==
  ASSUME Types, Stages, NEW h \in Hosts, ListTunnels(h)
  PROVE  Stages'
<1>1. run[h].pc = "list" /\ "create" \in SetupPcs /\ "list" \in SetupPcs
  BY DEF ListTunnels, At, SetupPcs
<1>2. CASE Goes(h, "create")
  BY <1>1, <1>2, GoesStages
<1>3. CASE ~Goes(h, "create")
  <2>1. PICK t \in tunnels :
          Becomes(h, [run[h] EXCEPT !.pc = "token", !.id = t])
    BY <1>3 DEF ListTunnels, Page, Chooses
  <2>2. /\ t # None /\ run[h] \in Processes(made, records)
        /\ run[h].mode = "setup"
    BY <1>1 DEF Types, None, Stages, Staged
  <2>3. Staged([run[h] EXCEPT !.pc = "token", !.id = t])
    BY <2>2 DEF Staged, Processes, SetupPcs, TeardownPcs
  <2>. QED
    BY <2>1, <2>3, BecomesStages
<1>. QED
  BY <1>2, <1>3

LEMMA GetTunnelTokenStages ==
  ASSUME Types, Stages, NEW h \in Hosts, GetTunnelToken(h)
  PROVE  Stages'
<1>1. run[h].pc = "token" /\ run[h] \in Processes(made, records) /\ Staged(run[h])
  BY DEF GetTunnelToken, At, Stages, Types
<1>2. run[h].id # None /\ run[h].mode = "setup"
  BY <1>1 DEF Staged, SetupPcs
<1>3. /\ [run[h] EXCEPT !.warned = TRUE] \in Processes(made, records)
      /\ [run[h] EXCEPT !.warned = TRUE].mode = "setup"
      /\ [run[h] EXCEPT !.warned = TRUE].id # None
  <2>1. [run[h] EXCEPT !.warned = TRUE] \in Processes(made, records)
    BY <1>1, UpdateWarned
  <2>2. /\ [run[h] EXCEPT !.warned = TRUE].mode = run[h].mode
        /\ [run[h] EXCEPT !.warned = TRUE].id = run[h].id
    BY <1>1 DEF Processes
  <2>. QED
    BY <1>2, <2>1, <2>2
<1>4. Staged(Named(run[h])) /\ Staged(Named([run[h] EXCEPT !.warned = TRUE]))
  BY <1>1, <1>2, <1>3, NamedStaged
<1>. QED
  BY <1>4, BecomesStages DEF GetTunnelToken

LEMMA CreateTunnelStages ==
  ASSUME Types, Stages, NEW h \in Hosts, CreateTunnel(h)
  PROVE  Stages'
<1>1. run[h].pc = "create" /\ run[h].mode = "setup"
  BY DEF CreateTunnel, At, SetupPcs, Stages, Staged
<1>2. CASE Exits(h, 1, FALSE)
  BY <1>2, ExitsStages
<1>3. CASE /\ made' = made + 1
           /\ Becomes(h, Named([run[h] EXCEPT !.id = made']))
  <2>1. /\ made' # None /\ made' \in 0..made' /\ made' \in Nat /\ made <= made'
        /\ run[h] \in Processes(made, records) /\ records \in Nat /\ made \in Nat
    BY <1>3 DEF Types, None
  <2>2. run[h] \in Processes(made', records)
    BY <2>1, MoreMade
  <2>3. [run[h] EXCEPT !.id = made'] \in Processes(made', records)
    BY <2>1, <2>2, UpdateId
  <2>4. /\ [run[h] EXCEPT !.id = made'].mode = run[h].mode
        /\ [run[h] EXCEPT !.id = made'].id = made'
    BY <2>1 DEF Processes
  <2>5. Staged(Named([run[h] EXCEPT !.id = made']))
    BY <1>1, <2>1, <2>3, <2>4, NamedStaged
  <2>. QED
    BY <1>3, <2>5, BecomesStages
<1>. QED
  BY <1>2, <1>3 DEF CreateTunnel

(* What the two steps do that may cross other processes.                   *)
MayCross(h) ==
  \A g \in Hosts \ {h} :
    /\ \E c \in BOOLEAN : run'[g] = [run[g] EXCEPT !.crossed = c]
    /\ run[g].crossed => run'[g].crossed

LEMMA CrossStages ==
  ASSUME Types, Stages, NEW h \in Hosts, MayCross(h), Staged(run'[h])
  PROVE  Stages'
<1>1. ASSUME NEW g \in Hosts, g # h PROVE Staged(run'[g])
  <2>1. PICK c \in BOOLEAN : run'[g] = [run[g] EXCEPT !.crossed = c]
    BY <1>1 DEF MayCross
  <2>2. run[g] \in Processes(made, records) /\ Staged(run[g])
    BY DEF Types, Stages
  <2>. QED
    BY <2>1, <2>2 DEF Staged, Processes
<1>. QED
  BY <1>1 DEF Stages, Staged

(* b: whether the run has warned.                                          *)
LEMMA CreateRecordEffect ==
  ASSUME Types, NEW h \in Hosts, CreateDNSCNAME(h)
  PROVE  /\ run[h].pc = "dns"
         /\ \A g \in Hosts \ {h} :
              /\ \E c \in BOOLEAN : run'[g] = [run[g] EXCEPT !.crossed = c]
              /\ run[g].crossed => run'[g].crossed
              /\ record' # record /\ Crosses(h, g) => run'[g].crossed
         /\ \E b \in BOOLEAN :
              /\ run'[h] = Recorded([run[h] EXCEPT !.warned = b])
              /\ b \/ record'[h] # NoRecord
<1>1. run[h].pc = "dns"
  BY DEF CreateDNSCNAME, At
<1>2. PICK quiet \in BOOLEAN :
        \/ /\ Becomes(h, Recorded([run[h] EXCEPT !.warned = @ \/ ~quiet]))
           /\ quiet \in QuietAfterError(h) /\ record' = record
        \/ /\ run' = [g \in Hosts |->
                       IF g = h
                       THEN Recorded([run[h] EXCEPT !.warned = @ \/ ~quiet])
                       ELSE [run[g] EXCEPT !.crossed = @ \/ Crosses(h, g)]]
           /\ record' = Pointed(h) /\ Pointed(h) # record
  BY CreateRecordRuns
<1>. DEFINE b == run[h].warned \/ ~quiet
            r == Recorded([run[h] EXCEPT !.warned = b])
<1>3. \/ /\ Becomes(h, r)
         /\ quiet \in QuietAfterError(h) /\ record' = record
      \/ /\ run' = [g \in Hosts |->
                     IF g = h THEN r
                     ELSE [run[g] EXCEPT !.crossed = @ \/ Crosses(h, g)]]
         /\ record' = Pointed(h) /\ Pointed(h) # record
  BY <1>2
<1>. HIDE DEF r
<1>4. ASSUME NEW g \in Hosts, g # h
      PROVE  /\ \E c \in BOOLEAN : run'[g] = [run[g] EXCEPT !.crossed = c]
             /\ run[g].crossed => run'[g].crossed
             /\ record' # record /\ Crosses(h, g) => run'[g].crossed
  <2>1. run[g] \in Processes(made, records)
    BY DEF Types
  <2>2. CASE Becomes(h, r) /\ record' = record
    <3>1. run'[g] = run[g]
      BY <1>4, <2>2 DEF Becomes, Types
    <3>2. run[g].crossed \in BOOLEAN
      BY <2>1 DEF Processes
    <3>3. run[g] = [run[g] EXCEPT !.crossed = run[g].crossed]
      BY <2>1 DEF Processes
    <3>. QED
      BY <2>2, <3>1, <3>2, <3>3
  <2>3. CASE run' = [x \in Hosts |->
                     IF x = h THEN r
                     ELSE [run[x] EXCEPT !.crossed = @ \/ Crosses(h, x)]]
    <3>. DEFINE c == run[g].crossed \/ Crosses(h, g)
    <3>1. run'[g] = [run[g] EXCEPT !.crossed = c] /\ c \in BOOLEAN
      BY <1>4, <2>3
    <3>2. c => run'[g].crossed
      <4>. HIDE DEF c
      <4>. QED
        BY <2>1, <3>1 DEF Processes
    <3>. QED
      BY <3>1, <3>2
  <2>. QED
    BY <1>3, <2>2, <2>3
<1>5. ~quiet \/ record'[h] # NoRecord
  <2>1. CASE record' = record /\ quiet \in QuietAfterError(h)
    BY <2>1 DEF QuietAfterError
  <2>2. CASE record' = Pointed(h) /\ Pointed(h) # record
    <3>1. record' = Overwrites(h)
      BY <2>2 DEF Pointed
    <3>2. record'[h].id = records + 1
      BY <3>1 DEF Overwrites, Types
    <3>. QED
      BY <3>2 DEF NoRecord, Types
  <2>. QED
    BY <1>3, <2>1, <2>2
<1>6. run'[h] = r
  BY <1>3 DEF Becomes, Types
<1>7. b \in BOOLEAN /\ (b \/ record'[h] # NoRecord)
  BY <1>5
<1>8. \E v \in BOOLEAN :
        /\ run'[h] = Recorded([run[h] EXCEPT !.warned = v])
        /\ v \/ record'[h] # NoRecord
  BY <1>6, <1>7 DEF r
<1>. QED
  BY <1>1, <1>4, <1>8

LEMMA CreateRecordStages ==
  ASSUME Types, Stages, NEW h \in Hosts, CreateDNSCNAME(h)
  PROVE  Stages'
<1>1. PICK b \in BOOLEAN : run'[h] = Recorded([run[h] EXCEPT !.warned = b])
  BY CreateRecordEffect
<1>2. run[h] \in Processes(made, records) /\ Staged(run[h]) /\ run[h].pc = "dns"
  BY CreateRecordEffect DEF Types, Stages
<1>3. run[h].mode = "setup" /\ run[h].id # None
  BY <1>2 DEF Staged, SetupPcs
<1>. DEFINE p == [run[h] EXCEPT !.warned = b]
<1>4. p \in Processes(made, records)
  BY <1>2, UpdateWarned
<1>5. p.mode = "setup" /\ p.id # None
  BY <1>2, <1>3 DEF Processes
<1>6. Staged(run'[h])
  BY <1>1, <1>4, <1>5, NamedStaged
<1>7. MayCross(h)
  BY CreateRecordEffect DEF MayCross
<1>. QED
  BY <1>6, <1>7, CrossStages

LEMMA ConfigureStages ==
  ASSUME Types, Stages, NEW h \in Hosts, ConfigureTunnelIngress(h)
  PROVE  Stages'
BY ExitsStages DEF ConfigureTunnelIngress

LEMMA FindDNSRecordStep ==
  ASSUME Typed, NEW h \in Hosts, FindDNSRecord(h)
  PROVE  Types' /\ Stages'
<1>1. UNCHANGED <<cloud, runs, misled>> /\ run[h].pc = "find"
  BY DEF FindDNSRecord, At
<1>2. PICK found \in SUBSET PointingTo(run[h].id), blind \in BOOLEAN :
        Looked(h, found, blind)
  BY DEF FindDNSRecord, Page
<1>. DEFINE pc == IF found = {} THEN "delete_tunnel" ELSE "delete_record"
            ids == {record[g].id : g \in found}
            r == [run[h] EXCEPT !.todo = ids, !.blind = blind, !.pc = pc]
<1>3. run[h] \in Processes(made, records) /\ Staged(run[h]) /\ made \in Nat
  BY DEF Typed, Types, Stages
<1>4. run[h].id \in 1..made /\ run[h].mode = "teardown"
  BY <1>1, <1>3 DEF Staged, Processes, TeardownPcs, None
<1>5. ids \in SUBSET (1..records)
  <2>1. ASSUME NEW g \in found PROVE record[g].id \in 1..records
    <3>1. g \in Hosts /\ record[g].to = run[h].id
      BY DEF PointingTo
    <3>2. record[g] \in Records(made, records) /\ record[g].id # 0
      BY <1>3, <1>4, <3>1 DEF Typed, Types, RecordIds
    <3>. QED
      BY <3>2 DEF Records, Typed, Types
  <2>. QED
    BY <2>1
<1>6. pc \in Pcs /\ pc \in {"delete_tunnel", "delete_record"}
  BY DEF Pcs
<1>7. Becomes(h, r)
  BY <1>2 DEF Looked
<1>. HIDE DEF pc, ids
<1>8. r \in Processes(made, records)
  BY <1>3, <1>5, <1>6, UpdateFound
<1>9. Staged(r)
  BY <1>3, <1>4, <1>6 DEF Staged, Processes, SetupPcs, TeardownPcs, None
<1>. HIDE DEF r
<1>10. run' \in [Hosts -> Processes(made, records)]
  BY <1>7, <1>8, BecomesTypes DEF Typed
<1>11. Stages'
  BY <1>7, <1>9, BecomesStages DEF Typed
<1>. QED
  BY <1>1, <1>10, <1>11 DEF Typed, Types, cloud

LEMMA DeleteRecordEffect ==
  ASSUME Types, NEW h \in Hosts, NEW id \in run[h].todo, DeleteDNSRecord(h, id)
  PROVE  /\ run[h].pc = "delete_record"
         /\ UNCHANGED <<tunnels, ingress, made, records, runs, misled>>
         /\ \A g \in Hosts \ {h} :
              /\ \E c \in BOOLEAN : run'[g] = [run[g] EXCEPT !.crossed = c]
              /\ run[g].crossed \/ (run[g].pc = "ingress" /\ record'[g] # record[g])
                   => run'[g].crossed
         /\ \E failed \in BOOLEAN :
              /\ run'[h] = [run[h] EXCEPT
                              !.todo = run[h].todo \ {id},
                              !.code = CodeAfter(h, failed),
                              !.pc = IF run[h].todo = {id} THEN "delete_tunnel"
                                     ELSE "delete_record"]
              /\ \/ failed /\ record' = record
                 \/ \E g \in WithId(id) :
                      record' = [record EXCEPT ![g] = NoRecord]
<1>1. run[h].pc = "delete_record"
      /\ UNCHANGED <<tunnels, ingress, made, records, runs, misled>>
  BY DEF DeleteDNSRecord, At
<1>2. PICK failed \in BOOLEAN :
        /\ \/ failed /\ UNCHANGED record
           \/ \E g \in WithId(id) : record' = [record EXCEPT ![g] = NoRecord]
        /\ run' = [g \in Hosts |->
            IF g = h
            THEN [run[h] EXCEPT
                    !.todo = @ \ {id},
                    !.code = CodeAfter(h, failed),
                    !.pc = IF run[h].todo = {id} THEN "delete_tunnel" ELSE @]
            ELSE [run[g] EXCEPT
                    !.crossed = @ \/ (At("ingress", g) /\ record'[g] # record[g])]]
  BY DEF DeleteDNSRecord
<1>3. ASSUME NEW g \in Hosts, g # h
      PROVE  /\ \E c \in BOOLEAN : run'[g] = [run[g] EXCEPT !.crossed = c]
             /\ run[g].crossed \/ (run[g].pc = "ingress" /\ record'[g] # record[g])
                  => run'[g].crossed
  <2>. DEFINE c == run[g].crossed \/ (run[g].pc = "ingress" /\ record'[g] # record[g])
  <2>1. run'[g] = [run[g] EXCEPT !.crossed = c] /\ c \in BOOLEAN
    BY <1>2, <1>3 DEF At
  <2>2. run[g] \in Processes(made, records)
    BY DEF Types
  <2>3. c => run'[g].crossed
    <3>. HIDE DEF c
    <3>. QED
      BY <2>1, <2>2 DEF Processes
  <2>. QED
    BY <2>1, <2>3
<1>4. run'[h] = [run[h] EXCEPT
                   !.todo = run[h].todo \ {id},
                   !.code = CodeAfter(h, failed),
                   !.pc = IF run[h].todo = {id} THEN "delete_tunnel"
                          ELSE "delete_record"]
  BY <1>1, <1>2
<1>. QED
  BY <1>1, <1>2, <1>3, <1>4

LEMMA DeleteRecordStep ==
  ASSUME Types, Stages, NEW h \in Hosts, NEW id \in run[h].todo,
         DeleteDNSRecord(h, id)
  PROVE  Types' /\ Stages'
<1>1. /\ run[h].pc = "delete_record"
      /\ UNCHANGED <<tunnels, ingress, made, records, runs, misled>>
  BY DeleteRecordEffect
<1>2. PICK failed \in BOOLEAN :
        /\ run'[h] = [run[h] EXCEPT
                        !.todo = run[h].todo \ {id},
                        !.code = CodeAfter(h, failed),
                        !.pc = IF run[h].todo = {id} THEN "delete_tunnel"
                               ELSE "delete_record"]
        /\ \/ failed /\ record' = record
           \/ \E g \in WithId(id) :
                record' = [record EXCEPT ![g] = NoRecord]
  BY DeleteRecordEffect
<1>. DEFINE s == run[h].todo \ {id}
            code == CodeAfter(h, failed)
            pc == IF run[h].todo = {id} THEN "delete_tunnel" ELSE "delete_record"
            r == [run[h] EXCEPT !.todo = s, !.code = code, !.pc = pc]
<1>3. run[h] \in Processes(made, records) /\ Staged(run[h])
  BY DEF Types, Stages
<1>4. /\ s \in SUBSET (1..records) /\ code \in {0, 1}
      /\ pc \in Pcs /\ pc \in {"delete_tunnel", "delete_record"}
  BY <1>3 DEF Processes, CodeAfter, Pcs
<1>5. run'[h] = r
  BY <1>2
<1>. HIDE DEF s, code, pc
<1>6. r \in Processes(made, records)
  BY <1>3, <1>4, UpdateTodo
<1>7. Staged(r)
  BY <1>1, <1>3, <1>4 DEF Staged, Processes, SetupPcs, TeardownPcs
<1>. HIDE DEF r
<1>8. run' \in [Hosts -> Processes(made, records)]
  <2>1. ASSUME NEW g \in Hosts PROVE run'[g] \in Processes(made, records)
    <3>1. CASE g = h
      BY <1>5, <1>6, <3>1
    <3>2. CASE g # h
      <4>1. PICK c \in BOOLEAN : run'[g] = [run[g] EXCEPT !.crossed = c]
        BY <3>2, DeleteRecordEffect
      <4>2. run[g] \in Processes(made, records)
        BY DEF Types
      <4>. QED
        BY <4>1, <4>2, UpdateCrossed
    <3>. QED
      BY <3>1, <3>2
  <2>2. run' = [g \in Hosts |-> run'[g]]
    BY DEF DeleteDNSRecord
  <2>. QED
    BY <2>1, <2>2
<1>9. MayCross(h)
  BY DeleteRecordEffect DEF MayCross
<1>10. Stages'
  BY <1>5, <1>7, <1>9, CrossStages
<1>11. record' \in [Hosts -> Records(made, records)]
  <2>1. NoRecord \in Records(made, records)
    BY DEF NoRecord, Records, None, Types
  <2>. QED
    BY <1>2, <2>1 DEF Types
<1>. QED
  BY <1>1, <1>8, <1>10, <1>11 DEF Types

LEMMA DeleteTunnelStep ==
  ASSUME Types, Stages, NEW h \in Hosts, DeleteTunnel(h)
  PROVE  Types' /\ Stages'
<1>1. /\ UNCHANGED <<ingress, record, made, records, runs, misled>>
      /\ tunnels' \subseteq tunnels
  BY DEF DeleteTunnel
<1>2. PICK failed \in BOOLEAN : Exits(h, CodeAfter(h, failed), FALSE)
  BY DEF DeleteTunnel
<1>3. CodeAfter(h, failed) \in {0, 1}
  BY DEF CodeAfter, Types, Processes
<1>4. run' \in [Hosts -> Processes(made, records)] /\ Stages'
  BY <1>2, <1>3, ExitsTypes, ExitsStages
<1>. QED
  BY <1>1, <1>4 DEF Types

LEMMA BeginSetupStep ==
  ASSUME Types, Stages, NEW h \in Hosts, NEW id \in 0..made,
         NEW zone \in BOOLEAN, NEW serve \in BOOLEAN,
         BeginSetup(h, id, zone, serve)
  PROVE  Types' /\ Stages'
<1>. DEFINE n == NewRun(id, zone, serve)
            r == FirstOf(id, n)
<1>1. UNCHANGED <<cloud, misled>> /\ runs < RunCap /\ runs' = runs + 1
  BY DEF BeginSetup
<1>2. runs' \in 0..RunCap
  BY <1>1, TunnelSetupAssumption DEF Types, TunnelSetupAssumption
<1>3. Becomes(h, r)
  BY BeginSetupBecomes
<1>4. r \in Processes(made, records)
  BY NewSetup DEF Types
<1>5. Staged(r)
  <2>1. n \in Processes(made, records)
    BY NoRunIsOne DEF Processes, NewRun, Types
  <2>2. n.mode = "setup" /\ n.id = id
    BY DEF NewRun, NoRun
  <2>. HIDE DEF n
  <2>3. CASE id = None
    <3>1. Staged([n EXCEPT !.pc = "list"])
      BY <2>1, <2>2 DEF Staged, Processes, SetupPcs, TeardownPcs
    <3>. QED
      BY <2>3, <3>1 DEF FirstOf
  <2>4. CASE id # None
    BY <2>1, <2>2, <2>4, NamedStaged DEF FirstOf
  <2>. QED
    BY <2>3, <2>4
<1>. HIDE DEF r
<1>6. run' \in [Hosts -> Processes(made, records)] /\ Stages'
  BY <1>3, <1>4, <1>5, BecomesTypes, BecomesStages
<1>. QED
  BY <1>1, <1>2, <1>6 DEF Types, cloud

LEMMA BeginTeardownStep ==
  ASSUME Types, Stages, NEW h \in Hosts, NEW id \in 1..made,
         NEW zone \in BOOLEAN, BeginTeardown(h, id, zone)
  PROVE  Types' /\ Stages'
<1>. DEFINE pc == IF zone THEN "find" ELSE "delete_tunnel"
            r == [NoRun EXCEPT !.mode = "teardown", !.id = id, !.zone = zone,
                               !.pc = pc]
<1>1. /\ UNCHANGED <<cloud, misled>> /\ runs < RunCap /\ runs' = runs + 1
      /\ Becomes(h, r)
  BY DEF BeginTeardown
<1>2. runs' \in 0..RunCap
  BY <1>1, TunnelSetupAssumption DEF Types, TunnelSetupAssumption
<1>3. pc \in Pcs /\ pc \in TeardownPcs /\ id # None /\ id \in 0..made
  BY DEF Pcs, TeardownPcs, None, Types
<1>. HIDE DEF pc
<1>4. r \in Processes(made, records)
  BY <1>3, NewTeardown DEF Types
<1>5. Staged(r)
  BY <1>3 DEF Staged, NoRun, SetupPcs, TeardownPcs
<1>. HIDE DEF r
<1>6. run' \in [Hosts -> Processes(made, records)] /\ Stages'
  BY <1>1, <1>4, <1>5, BecomesTypes, BecomesStages
<1>. QED
  BY <1>1, <1>2, <1>6 DEF Types, cloud

LEMMA KilledStep ==
  ASSUME Types, Stages, NEW h \in Hosts, Killed(h)
  PROVE  Types' /\ Stages'
<1>1. UNCHANGED <<cloud, runs, misled>> /\ Becomes(h, NoRun)
  BY DEF Killed
<1>2. NoRun \in Processes(made, records)
  BY NoRunIsOne DEF Types
<1>3. Staged(NoRun)
  BY DEF Staged, NoRun, SetupPcs, TeardownPcs
<1>4. run' \in [Hosts -> Processes(made, records)] /\ Stages'
  BY <1>1, <1>2, <1>3, BecomesTypes, BecomesStages
<1>. QED
  BY <1>1, <1>4 DEF Types, cloud

(* Records come with a fresh id.                                           *)
LEMMA CreateRecordIds ==
  ASSUME Typed, NEW h \in Hosts, CreateDNSCNAME(h)
  PROVE  RecordIds'
<1>1. CASE record' = record
  BY <1>1 DEF Typed, RecordIds
<1>2. CASE record' = Overwrites(h)
  <2>1. \A g \in Hosts : record[g] \in Records(made, records)
    BY DEF Typed, Types
  <2>2. \A g \in Hosts : record'[g] = IF g = h THEN [id |-> records + 1, to |-> run[h].id]
                                       ELSE record[g]
    BY <1>2 DEF Overwrites, Typed, Types
  <2>3. \A g \in Hosts : /\ record'[g].id # 0 /\ g # h => record'[g].id <= records
                         /\ record[g].id \in Nat
    BY <2>1, <2>2 DEF Records, Typed, Types
  <2>4. \A g \in Hosts : record'[g].to >= 1 => record'[g].id # 0
    BY <2>2 DEF Typed, Types, RecordIds
  <2>5. ASSUME NEW g \in Hosts, NEW x \in Hosts,
               record'[g].id = record'[x].id, record'[g].id # 0
        PROVE  g = x
    BY <2>2, <2>3, <2>5 DEF Typed, Types, RecordIds
  <2>. QED
    BY <2>4, <2>5 DEF RecordIds
<1>. QED
  BY <1>1, <1>2 DEF CreateDNSCNAME, Pointed

LEMMA DeleteRecordIds ==
  ASSUME Typed, NEW h \in Hosts, NEW id \in run[h].todo, DeleteDNSRecord(h, id)
  PROVE  RecordIds'
<1>1. \A g \in Hosts : record'[g] = record[g] \/ record'[g] = NoRecord
  BY DeleteRecordEffect DEF Typed, Types, WithId
<1>. QED
  BY <1>1 DEF Typed, RecordIds, NoRecord, None

LEMMA TypedInit == Init => Typed
<1>. SUFFICES ASSUME Init PROVE Typed
  OBVIOUS
<1>1. /\ 0 \in 0..RunCap /\ 1..RunCap = 1..RunCap
  BY TunnelSetupAssumption DEF TunnelSetupAssumption
<1>2. NoRun \in Processes(0, 0)
  BY NoRunIsOne
<1>3. {NoRecord, [id |-> 0, to |-> Elsewhere]} \subseteq Records(0, 0)
  BY DEF NoRecord, Elsewhere, None, Records
<1>4. Types
  BY <1>1, <1>2, <1>3 DEF Init, Types
<1>5. Staged(NoRun)
  BY DEF Staged, NoRun, SetupPcs, TeardownPcs
<1>6. \A g \in Hosts : record[g].id = 0 /\ ~(record[g].to >= 1)
  BY DEF Init, NoRecord, Elsewhere, None
<1>. QED
  BY <1>4, <1>5, <1>6 DEF Init, Typed, Stages, RecordIds

LEMMA TypedNext == Typed /\ [Next]_vars => Typed'
<1>. SUFFICES ASSUME Typed, [Next]_vars PROVE Typed'
  OBVIOUS
<1>. USE DEF Typed
<1>1. CASE UNCHANGED vars
  <2>1. /\ UNCHANGED <<tunnels, ingress, record, run, made, records, runs, misled>>
    BY <1>1 DEF vars, cloud
  <2>2. Types'
    BY <2>1 DEF Types
  <2>3. Stages' /\ RecordIds'
    BY <2>1 DEF Stages, Staged, RecordIds
  <2>. QED
    BY <2>2, <2>3
<1>2. ASSUME NEW h \in Hosts, NEW id \in 0..made, NEW zone \in BOOLEAN,
             NEW serve \in BOOLEAN, BeginSetup(h, id, zone, serve)
      PROVE  Typed'
  BY <1>2, BeginSetupStep DEF BeginSetup, cloud, RecordIds
<1>3. ASSUME NEW h \in Hosts, NEW id \in 1..made, NEW zone \in BOOLEAN,
             BeginTeardown(h, id, zone)
      PROVE  Typed'
  BY <1>3, BeginTeardownStep DEF BeginTeardown, cloud, RecordIds
<1>4. ASSUME NEW h \in Hosts, Killed(h) PROVE Typed'
  BY <1>4, KilledStep DEF Killed, cloud, RecordIds
<1>5. ASSUME NEW h \in Hosts, Calls(h) PROVE Typed'
  <2>1. CASE ListTunnels(h)
    BY <2>1, ListTunnelsTypes, ListTunnelsStages DEF ListTunnels, cloud, RecordIds
  <2>2. CASE GetTunnelToken(h)
    BY <2>2, GetTunnelTokenTypes, GetTunnelTokenStages
       DEF GetTunnelToken, cloud, RecordIds
  <2>3. CASE CreateTunnel(h)
    BY <2>3, CreateTunnelTypes, CreateTunnelStages DEF CreateTunnel, RecordIds
  <2>4. CASE CreateDNSCNAME(h)
    BY <2>4, CreateRecordTypes, CreateRecordStages, CreateRecordIds
  <2>5. CASE ConfigureTunnelIngress(h)
    BY <2>5, ConfigureTypes, ConfigureStages DEF ConfigureTunnelIngress, RecordIds
  <2>6. CASE FindDNSRecord(h)
    BY <2>6, FindDNSRecordStep DEF FindDNSRecord, cloud, RecordIds
  <2>7. ASSUME NEW id \in run[h].todo, DeleteDNSRecord(h, id) PROVE Typed'
    BY <2>7, DeleteRecordStep, DeleteRecordIds
  <2>8. CASE DeleteTunnel(h)
    BY <2>8, DeleteTunnelStep DEF DeleteTunnel, RecordIds
  <2>. QED
    BY <1>5, <2>1, <2>2, <2>3, <2>4, <2>5, <2>6, <2>7, <2>8 DEF Calls
<1>. QED
  BY <1>1, <1>2, <1>3, <1>4, <1>5 DEF Next
-----------------------------------------------------------------------------
(* Each run makes one tunnel at most, one record, and is misled once.      *)
InPcs(P) == {h \in Hosts : run[h].pc \in P}
MayMake == {"list", "create"}
MayRecord == {"list", "token", "create", "dns"}
MayMislead == {"list"}

Counts ==
  /\ made + Cardinality(InPcs(MayMake)) <= runs
  /\ records + Cardinality(InPcs(MayRecord)) <= runs
  /\ misled + Cardinality(InPcs(MayMislead)) <= runs

LEMMA InPcsFinite ==
  ASSUME NEW P
  PROVE  /\ IsFiniteSet(InPcs(P)) /\ Cardinality(InPcs(P)) \in Nat
         /\ IsFiniteSet(InPcs(P)') /\ Cardinality(InPcs(P)') \in Nat
<1>1. InPcs(P) \subseteq Hosts /\ InPcs(P)' \subseteq Hosts
  BY DEF InPcs
<1>. QED
  BY <1>1, CreatingFinite

LEMMA InPcsKept ==
  ASSUME NEW h \in Hosts, Moves(h), NEW P, run'[h].pc \in P => run[h].pc \in P
  PROVE  Cardinality(InPcs(P)') <= Cardinality(InPcs(P))
<1>1. InPcs(P)' \subseteq InPcs(P)
  BY DEF InPcs, Moves
<1>. QED
  BY <1>1, InPcsFinite, FS_Subset

LEMMA InPcsLeft ==
  ASSUME NEW h \in Hosts, Moves(h), NEW P, run[h].pc \in P, run'[h].pc \notin P
  PROVE  Cardinality(InPcs(P)') + 1 <= Cardinality(InPcs(P))
<1>1. InPcs(P)' \subseteq InPcs(P) \ {h} /\ h \in InPcs(P)
  BY DEF InPcs, Moves
<1>2. /\ IsFiniteSet(InPcs(P) \ {h})
      /\ Cardinality(InPcs(P) \ {h}) = Cardinality(InPcs(P)) - 1
  BY <1>1, InPcsFinite, FS_RemoveElement
<1>3. Cardinality(InPcs(P)') <= Cardinality(InPcs(P) \ {h})
  BY <1>1, <1>2, FS_Subset
<1>. QED
  BY <1>2, <1>3, InPcsFinite

LEMMA InPcsBegun ==
  ASSUME NEW h \in Hosts, Moves(h), NEW P
  PROVE  Cardinality(InPcs(P)') <= Cardinality(InPcs(P)) + 1
<1>1. InPcs(P)' \subseteq InPcs(P) \cup {h}
  BY DEF InPcs, Moves
<1>2. /\ IsFiniteSet(InPcs(P) \cup {h})
      /\ Cardinality(InPcs(P) \cup {h}) \in Nat
      /\ Cardinality(InPcs(P) \cup {h}) <= Cardinality(InPcs(P)) + 1
  BY InPcsFinite, OneAdded
<1>3. Cardinality(InPcs(P)') <= Cardinality(InPcs(P) \cup {h})
  BY <1>1, <1>2, FS_Subset
<1>. QED
  BY <1>2, <1>3, InPcsFinite

(* One counter n against the stages P in which a run may still add to it.  *)
LEMMA CountGoesOn ==
  ASSUME NEW h \in Hosts, Moves(h), NEW P, NEW n \in Nat, NEW m \in Nat,
         runs \in Nat, runs' = runs,
         n + Cardinality(InPcs(P)) <= runs,
         \/ m = n /\ (run'[h].pc \in P => run[h].pc \in P)
         \/ m = n + 1 /\ run[h].pc \in P /\ run'[h].pc \notin P
  PROVE  m + Cardinality(InPcs(P)') <= runs'
BY InPcsKept, InPcsLeft, InPcsFinite

LEMMA CountBegins ==
  ASSUME NEW h \in Hosts, Moves(h), NEW P, NEW n \in Nat,
         runs \in Nat, runs' = runs + 1,
         n + Cardinality(InPcs(P)) <= runs
  PROVE  n + Cardinality(InPcs(P)') <= runs'
BY InPcsBegun, InPcsFinite

LEMMA TypedShape ==
  ASSUME Types
  PROVE  Shape
<1>1. IsFiniteSet(1..made)
  BY FS_Interval DEF Types
<1>2. IsFiniteSet(tunnels)
  BY <1>1, FS_Subset DEF Types
<1>. QED
  BY <1>2 DEF Types, Shape, Processes

LEMMA CountsInit == Init => Counts
<1>. SUFFICES ASSUME Init PROVE Counts
  OBVIOUS
<1>1. InPcs(MayMake) = {} /\ InPcs(MayRecord) = {} /\ InPcs(MayMislead) = {}
  BY DEF Init, NoRun, InPcs, MayMake, MayRecord, MayMislead
<1>. QED
  BY <1>1, FS_EmptySet DEF Init, Counts

(* A step other than the beginning of a run, all three counters at once.   *)
LEMMA CountsGoOn ==
  ASSUME Types, Counts, NEW h \in Hosts, Moves(h), runs' = runs,
         \/ /\ made' = made
            /\ run'[h].pc \in MayMake => run[h].pc \in MayMake
         \/ made' = made + 1 /\ run[h].pc \in MayMake /\ run'[h].pc \notin MayMake,
         \/ /\ records' = records
            /\ run'[h].pc \in MayRecord => run[h].pc \in MayRecord
         \/ /\ records' = records + 1
            /\ run[h].pc \in MayRecord /\ run'[h].pc \notin MayRecord,
         \/ /\ misled' = misled
            /\ run'[h].pc \in MayMislead => run[h].pc \in MayMislead
         \/ /\ misled' = misled + 1
            /\ run[h].pc \in MayMislead /\ run'[h].pc \notin MayMislead
  PROVE  Counts'
<1>1. /\ made \in Nat /\ made' \in Nat /\ records \in Nat /\ records' \in Nat
      /\ misled \in Nat /\ misled' \in Nat /\ runs \in Nat
  BY DEF Types
<1>2. made' + Cardinality(InPcs(MayMake)') <= runs'
  BY <1>1, CountGoesOn DEF Counts
<1>3. records' + Cardinality(InPcs(MayRecord)') <= runs'
  BY <1>1, CountGoesOn DEF Counts
<1>4. misled' + Cardinality(InPcs(MayMislead)') <= runs'
  BY <1>1, CountGoesOn DEF Counts
<1>5. MayMake' = MayMake /\ MayRecord' = MayRecord /\ MayMislead' = MayMislead
  BY DEF MayMake, MayRecord, MayMislead
<1>. QED
  BY <1>2, <1>3, <1>4, <1>5 DEF Counts

LEMMA ListTunnelsCounts ==
  ASSUME Types, Counts, NEW h \in Hosts, ListTunnels(h)
  PROVE  Counts'
<1>1. /\ run[h].pc = "list" /\ UNCHANGED <<cloud, runs>>
      /\ misled' = misled \/ misled' = misled + 1
  BY DEF ListTunnels, At
<1>2. Moves(h) /\ run'[h].pc \in {"create", "token"}
  BY TypedShape, ListMoves
<1>. QED
  BY <1>1, <1>2, CountsGoOn DEF cloud, MayMake, MayRecord, MayMislead

LEMMA CreateTunnelCounts ==
  ASSUME Types, Counts, NEW h \in Hosts, CreateTunnel(h)
  PROVE  Counts'
<1>1. /\ run[h].pc = "create" /\ UNCHANGED <<records, runs, misled>>
      /\ made' = made \/ made' = made + 1
  BY DEF CreateTunnel, At
<1>2. Moves(h) /\ run'[h].pc \in {"dns", "ingress", "exited"}
  BY TypedShape, CreateTunnelMoves
<1>. QED
  BY <1>1, <1>2, CountsGoOn DEF MayMake, MayRecord, MayMislead

LEMMA CreateRecordCounts ==
  ASSUME Types, Counts, NEW h \in Hosts, CreateDNSCNAME(h)
  PROVE  Counts'
<1>1. /\ run[h].pc = "dns" /\ UNCHANGED <<made, runs, misled>>
      /\ records' = records \/ records' = records + 1
  BY DEF CreateDNSCNAME, At
<1>2. Moves(h) /\ run'[h].pc \in {"ingress", "exited"}
  BY TypedShape, CreateRecordMoves
<1>. QED
  BY <1>1, <1>2, CountsGoOn DEF MayMake, MayRecord, MayMislead

(* All other steps lead to where a run adds nothing any more.              *)
LEMMA OtherCallsCounts ==
  ASSUME Types, Counts, NEW h \in Hosts,
         \/ GetTunnelToken(h) \/ ConfigureTunnelIngress(h) \/ FindDNSRecord(h)
         \/ \E id \in run[h].todo : DeleteDNSRecord(h, id)
         \/ DeleteTunnel(h) \/ Killed(h)
  PROVE  Counts'
<1>1. UNCHANGED <<made, records, runs, misled>>
  BY DEF GetTunnelToken, ConfigureTunnelIngress, FindDNSRecord, DeleteDNSRecord,
         DeleteTunnel, Killed, cloud
<1>2. /\ Moves(h)
      /\ \/ run'[h].pc \notin MayRecord
         \/ run[h].pc = "token" /\ run'[h].pc \in {"dns", "ingress", "exited"}
  <2>1. CASE GetTunnelToken(h)
    BY <2>1, TypedShape, GetTokenMoves DEF GetTunnelToken, At
  <2>2. CASE ~GetTunnelToken(h)
    BY <2>2, TypedShape, EndMoves, FindMoves, DeleteRecordMoves, KilledMoves
       DEF MovesTo, MayRecord
  <2>. QED
    BY <2>1, <2>2
<1>. QED
  BY <1>1, <1>2, CountsGoOn DEF MayMake, MayRecord, MayMislead

LEMMA BeginCounts ==
  ASSUME Types, Counts, NEW h \in Hosts, NEW id, NEW zone, NEW serve,
         BeginSetup(h, id, zone, serve) \/ BeginTeardown(h, id, zone)
  PROVE  Counts'
<1>1. /\ UNCHANGED <<made, records, misled>> /\ runs' = runs + 1
      /\ made \in Nat /\ records \in Nat /\ misled \in Nat /\ runs \in Nat
  BY DEF BeginSetup, BeginTeardown, cloud, Types
<1>2. Moves(h)
  BY TypedShape, BeginSetupMoves, BeginTeardownMoves
<1>3. /\ made + Cardinality(InPcs(MayMake)') <= runs'
      /\ records + Cardinality(InPcs(MayRecord)') <= runs'
      /\ misled + Cardinality(InPcs(MayMislead)') <= runs'
  BY <1>1, <1>2, CountBegins DEF Counts
<1>4. MayMake' = MayMake /\ MayRecord' = MayRecord /\ MayMislead' = MayMislead
  BY DEF MayMake, MayRecord, MayMislead
<1>. QED
  BY <1>1, <1>3, <1>4 DEF Counts

LEMMA CountsNext == Types /\ Counts /\ [Next]_vars => Counts'
<1>. SUFFICES ASSUME Types, Counts, [Next]_vars PROVE Counts'
  OBVIOUS
<1>1. CASE UNCHANGED vars
  BY <1>1 DEF vars, cloud, Counts, InPcs, MayMake, MayRecord, MayMislead
<1>2. ASSUME NEW h \in Hosts, NEW id, NEW zone, NEW serve,
             BeginSetup(h, id, zone, serve) \/ BeginTeardown(h, id, zone)
      PROVE  Counts'
  BY <1>2, BeginCounts
<1>3. ASSUME NEW h \in Hosts, Calls(h) \/ Killed(h) PROVE Counts'
  BY <1>3, ListTunnelsCounts, CreateTunnelCounts, CreateRecordCounts,
     OtherCallsCounts DEF Calls
<1>. QED
  BY <1>1, <1>2, <1>3 DEF Next

LEMMA CountedTypes == Typed /\ Counts => TypeOK
<1>. SUFFICES ASSUME Typed, Counts PROVE TypeOK
  OBVIOUS
<1>1. /\ Cardinality(InPcs(MayMake)) \in Nat
      /\ Cardinality(InPcs(MayRecord)) \in Nat
      /\ Cardinality(InPcs(MayMislead)) \in Nat
  BY InPcsFinite
<1>2. made \in 0..runs /\ records \in 0..runs /\ misled \in 0..runs
  BY <1>1 DEF Counts, Typed, Types
<1>. QED
  BY <1>2 DEF TypeOK, Typed, Types, Processes, Records

(* Types of the account and of the processes, with every counter bounded   *)
(* by the runs begun.                                                      *)
THEOREM TypeCorrect == Spec => []TypeOK
<1>1. Init => Typed /\ Counts
  BY TypedInit, CountsInit
<1>2. Typed /\ Counts /\ [Next]_vars => (Typed /\ Counts)'
  BY TypedNext, CountsNext DEF Typed
<1>. QED
  BY <1>1, <1>2, CountedTypes, PTL DEF Spec
-----------------------------------------------------------------------------
(* What a process may rely on in the account, other processes at work.     *)

(* Records that a teardown is about to delete point to its tunnel.         *)
Points(p, rec) ==
  p.pc = "delete_record" =>
    \A g \in Hosts : rec[g].id \in p.todo => rec[g].to = p.id

(* All others that do are gone, unless the teardown has reason to doubt.   *)
Left(p, rec) ==
  /\ p.pc \in {"delete_record", "delete_tunnel"}
  /\ p.zone /\ ~p.blind /\ ~p.crossed /\ p.code = 0
  => \A g \in Hosts : rec[g].to = p.id =>
       p.pc = "delete_record" /\ rec[g].id \in p.todo

(* A set-up past its record has one, unless it has warned or was crossed.  *)
HasRecord(h, p, rec) ==
  p.pc = "ingress" /\ p.zone /\ ~p.warned /\ ~p.crossed => rec[h] # NoRecord

Reliable(h, p, rec) == Points(p, rec) /\ Left(p, rec) /\ HasRecord(h, p, rec)

Follow == \A h \in Hosts : Reliable(h, run[h], record)

(* Where a process relies on nothing yet, or no more.                      *)
Free(p) ==
  \/ p.pc \notin {"delete_record", "delete_tunnel", "ingress"}
  \/ ~p.zone /\ p.pc # "delete_record"

LEMMA FreeIsReliable ==
  ASSUME NEW h, NEW p, NEW rec, Free(p)
  PROVE  Reliable(h, p, rec)
BY DEF Free, Reliable, Points, Left, HasRecord

LEMMA BecomesFollow ==
  ASSUME Types, Follow, NEW h \in Hosts, NEW r, Becomes(h, r),
         record' = record, Reliable(h, r, record)
  PROVE  Follow'
<1>1. \A g \in Hosts : run'[g] = IF g = h THEN r ELSE run[g]
  BY DEF Types, Becomes
<1>2. \A g \in Hosts : Reliable(g, run'[g], record')
  BY <1>1 DEF Follow
<1>. QED
  BY <1>2 DEF Follow, Reliable, Points, Left, HasRecord, NoRecord, None

LEMMA EndedFree ==
  ASSUME NEW code, NEW warned
  PROVE  Free(Ended(code, warned))
BY DEF Free, Ended, NoRun

LEMMA ExitsFollow ==
  ASSUME Types, Follow, NEW h \in Hosts, NEW code, NEW warned,
         Exits(h, code, warned), record' = record
  PROVE  Follow'
BY EndedFree, FreeIsReliable, BecomesFollow DEF Exits

LEMMA NamedFree ==
  ASSUME NEW m, NEW n, NEW p \in Processes(m, n)
  PROVE  Free(Named(p))
<1>1. CASE p.zone
  BY <1>1 DEF Free, Processes, Named
<1>2. CASE ~p.zone
  <2>1. CASE p.serve
    BY <1>2, <2>1 DEF Free, Processes, Named, Recorded
  <2>2. CASE ~p.serve
    BY <1>2, <2>2, EndedFree DEF Named, Recorded
  <2>. QED
    BY <2>1, <2>2
<1>. QED
  BY <1>1, <1>2

LEMMA BeginFollow ==
  ASSUME Types, Follow, NEW h \in Hosts, NEW id \in 0..made,
         NEW zone \in BOOLEAN, NEW serve \in BOOLEAN,
         \/ BeginSetup(h, id, zone, serve)
         \/ BeginTeardown(h, id, zone)
         \/ Killed(h)
  PROVE  Follow'
<1>1. record' = record
  BY DEF BeginSetup, BeginTeardown, Killed, cloud
<1>2. CASE BeginSetup(h, id, zone, serve)
  <2>. DEFINE n == NewRun(id, zone, serve)
              r == FirstOf(id, n)
  <2>1. Becomes(h, r)
    BY <1>2, BeginSetupBecomes
  <2>2. n \in Processes(made, records)
    BY NoRunIsOne DEF Processes, NewRun, Types
  <2>. HIDE DEF n
  <2>3. Free([n EXCEPT !.pc = "list"])
    BY <2>2 DEF Free, Processes
  <2>4. Free(Named(n))
    BY <2>2, NamedFree
  <2>5. Free(r)
    BY <2>3, <2>4 DEF FirstOf
  <2>. HIDE DEF r
  <2>. QED
    BY <1>1, <2>1, <2>5, FreeIsReliable, BecomesFollow
<1>3. CASE BeginTeardown(h, id, zone)
  <2>. DEFINE pc == IF zone THEN "find" ELSE "delete_tunnel"
              r == [NoRun EXCEPT !.mode = "teardown", !.id = id, !.zone = zone,
                                 !.pc = pc]
  <2>1. Becomes(h, r)
    BY <1>3 DEF BeginTeardown
  <2>2. pc = "find" \/ (pc = "delete_tunnel" /\ ~zone)
    OBVIOUS
  <2>. HIDE DEF pc
  <2>3. Free(r)
    BY <2>2 DEF Free, NoRun
  <2>. QED
    BY <1>1, <2>1, <2>3, FreeIsReliable, BecomesFollow
<1>4. CASE Killed(h)
  <2>1. Free(NoRun)
    BY DEF Free, NoRun
  <2>. QED
    BY <1>1, <1>4, <2>1, FreeIsReliable, BecomesFollow DEF Killed
<1>. QED
  BY <1>2, <1>3, <1>4

LEMMA SetupFollow ==
  ASSUME Types, Follow, NEW h \in Hosts,
         ListTunnels(h) \/ GetTunnelToken(h) \/ CreateTunnel(h)
           \/ ConfigureTunnelIngress(h)
  PROVE  Follow'
<1>1. record' = record /\ run[h] \in Processes(made, records)
  BY DEF ListTunnels, GetTunnelToken, CreateTunnel, ConfigureTunnelIngress,
         cloud, Types
<1>2. CASE ListTunnels(h)
  <2>1. Free([run[h] EXCEPT !.pc = "create"])
    BY <1>1 DEF Free, Processes
  <2>2. \A t : Free([run[h] EXCEPT !.pc = "token", !.id = t])
    BY <1>1 DEF Free, Processes
  <2>. QED
    BY <1>1, <1>2, <2>1, <2>2, FreeIsReliable, BecomesFollow
       DEF ListTunnels, Page, Chooses, Goes
<1>3. CASE GetTunnelToken(h)
  <2>1. [run[h] EXCEPT !.warned = TRUE] \in Processes(made, records)
    BY <1>1, UpdateWarned
  <2>2. Free(Named(run[h])) /\ Free(Named([run[h] EXCEPT !.warned = TRUE]))
    BY <1>1, <2>1, NamedFree
  <2>. QED
    BY <1>1, <1>3, <2>2, FreeIsReliable, BecomesFollow DEF GetTunnelToken
<1>4. CASE CreateTunnel(h)
  <2>1. CASE Exits(h, 1, FALSE)
    BY <1>1, <2>1, ExitsFollow
  <2>2. CASE /\ made' = made + 1
             /\ Becomes(h, Named([run[h] EXCEPT !.id = made']))
    <3>1. /\ made' \in 0..made' /\ made' \in Nat /\ made <= made'
          /\ made \in Nat /\ records \in Nat
      BY <2>2 DEF Types
    <3>2. run[h] \in Processes(made', records)
      BY <1>1, <3>1, MoreMade
    <3>3. [run[h] EXCEPT !.id = made'] \in Processes(made', records)
      BY <3>1, <3>2, UpdateId
    <3>4. Free(Named([run[h] EXCEPT !.id = made']))
      BY <3>3, NamedFree
    <3>. QED
      BY <1>1, <2>2, <3>4, FreeIsReliable, BecomesFollow
  <2>. QED
    BY <1>4, <2>1, <2>2 DEF CreateTunnel
<1>5. CASE ConfigureTunnelIngress(h)
  BY <1>1, <1>5, ExitsFollow DEF ConfigureTunnelIngress
<1>. QED
  BY <1>2, <1>3, <1>4, <1>5

LEMMA FindDNSRecordFollow ==
  ASSUME Typed, Follow, NEW h \in Hosts, FindDNSRecord(h)
  PROVE  Follow'
<1>1. record' = record /\ run[h].pc = "find"
  BY DEF FindDNSRecord, At, cloud
<1>2. PICK found \in SUBSET PointingTo(run[h].id), blind \in BOOLEAN :
        Looked(h, found, blind) /\ (blind \/ found = PointingTo(run[h].id))
  BY DEF FindDNSRecord, Page
<1>. DEFINE pc == IF found = {} THEN "delete_tunnel" ELSE "delete_record"
            ids == {record[g].id : g \in found}
            r == [run[h] EXCEPT !.todo = ids, !.blind = blind, !.pc = pc]
<1>3. run[h] \in Processes(made, records) /\ Staged(run[h]) /\ made \in Nat
  BY DEF Typed, Types, Stages
<1>4. run[h].id \in 1..made
  BY <1>1, <1>3 DEF Staged, Processes, TeardownPcs, None
<1>5. \A g \in found : record[g].to = run[h].id /\ record[g].id # 0
  BY <1>4 DEF PointingTo, Typed, RecordIds
<1>6. /\ r.pc = pc /\ r.todo = ids /\ r.blind = blind /\ r.id = run[h].id
  BY <1>3 DEF Processes
<1>7. ASSUME NEW g \in Hosts, record[g].id \in ids
      PROVE  record[g].to = run[h].id
  <2>1. PICK x \in found : record[g].id = record[x].id
    BY <1>7
  <2>. QED
    BY <1>5, <2>1 DEF Typed, RecordIds, PointingTo
<1>8. ASSUME ~blind, NEW g \in Hosts, record[g].to = run[h].id
      PROVE  pc = "delete_record" /\ record[g].id \in ids
  BY <1>2, <1>8 DEF PointingTo
<1>9. pc # "ingress" /\ Becomes(h, r)
  BY <1>2 DEF Looked
<1>. HIDE DEF pc, ids, r
<1>10. Reliable(h, r, record)
  BY <1>6, <1>7, <1>8, <1>9 DEF Reliable, Points, Left, HasRecord
<1>. QED
  BY <1>1, <1>9, <1>10, BecomesFollow DEF Typed

(* The other processes, when a record is made or deleted.                  *)
LEMMA CreateRecordFollow ==
  ASSUME Typed, Follow, NEW h \in Hosts, CreateDNSCNAME(h)
  PROVE  Follow'
<1>1. /\ run[h] \in Processes(made, records) /\ run[h].id # None
      /\ records \in Nat
  BY CreateRecordEffect DEF Typed, Types, Stages, Staged
<1>2. \/ record' = record
      \/ record' = [record EXCEPT ![h] = [id |-> records + 1, to |-> run[h].id]]
           /\ record[h] = NoRecord
  BY DEF CreateDNSCNAME, Pointed, Overwrites
<1>3. \A g \in Hosts :
        \/ record'[g] = record[g]
        \/ /\ g = h /\ record[h] = NoRecord
           /\ record'[h].id = records + 1 /\ record'[h].to = run[h].id
  BY <1>2 DEF Typed, Types
<1>4. ASSUME NEW g \in Hosts, g # h PROVE Reliable(g, run[g], record)'
  <2>1. PICK c \in BOOLEAN : run'[g] = [run[g] EXCEPT !.crossed = c]
    BY <1>4, CreateRecordEffect DEF Typed
  <2>2. /\ run[g] \in Processes(made, records) /\ Reliable(g, run[g], record)
        /\ run[g].crossed => run'[g].crossed
        /\ record' # record /\ Crosses(h, g) => run'[g].crossed
    BY <1>4, CreateRecordEffect DEF Typed, Types, Follow
  <2>3. /\ run'[g].pc = run[g].pc /\ run'[g].todo = run[g].todo
        /\ run'[g].id = run[g].id /\ run'[g].code = run[g].code
        /\ run[g].todo \subseteq 1..records
    BY <2>1, <2>2 DEF Processes
  <2>4. /\ run'[g].zone = run[g].zone /\ run'[g].blind = run[g].blind
        /\ run'[g].warned = run[g].warned
    BY <2>1, <2>2 DEF Processes
  <2>5. Points(run[g], record)'
    <3>1. \A x \in Hosts : record'[x].id \in run[g].todo
                             => record'[x] = record[x]
      BY <1>1, <1>3, <2>3
    <3>. QED
      BY <2>2, <2>3, <3>1 DEF Reliable, Points
  <2>6. Left(run[g], record)'
    <3>1. SUFFICES ASSUME run[g].pc \in {"delete_record", "delete_tunnel"},
                          run[g].zone, ~run[g].blind, ~run'[g].crossed,
                          run[g].code = 0,
                          NEW x \in Hosts, record'[x].to = run[g].id
                   PROVE  run[g].pc = "delete_record" /\ record'[x].id \in run[g].todo
      BY <2>3, <2>4 DEF Left
    <3>2. ~run[g].crossed /\ (record' # record => run[g].id # run[h].id)
      BY <2>2, <3>1 DEF Crosses
    <3>3. record'[x] = record[x]
      BY <1>3, <3>1, <3>2
    <3>. QED
      BY <2>2, <3>1, <3>2, <3>3 DEF Reliable, Left
  <2>7. HasRecord(g, run[g], record)'
    BY <1>3, <1>4, <2>2, <2>3, <2>4 DEF Reliable, HasRecord, NoRecord, None
  <2>. QED
    BY <2>5, <2>6, <2>7 DEF Reliable
<1>5. Reliable(h, run[h], record)'
  <2>1. PICK b \in BOOLEAN :
          /\ run'[h] = Recorded([run[h] EXCEPT !.warned = b])
          /\ b \/ record'[h] # NoRecord
    BY CreateRecordEffect DEF Typed
  <2>. DEFINE p == [run[h] EXCEPT !.warned = b]
  <2>2. p.warned = b
    BY <1>1 DEF Processes
  <2>3. p \in Processes(made, records)
    BY <1>1, UpdateWarned
  <2>. HIDE DEF p
  <2>4. CASE p.serve
    <3>1. run'[h] = [p EXCEPT !.pc = "ingress"]
      BY <2>1, <2>4 DEF Recorded, p
    <3>2. run'[h].pc = "ingress" /\ run'[h].warned = b
      BY <2>2, <2>3, <3>1 DEF Processes
    <3>. QED
      BY <2>1, <3>2 DEF Reliable, Points, Left, HasRecord, NoRecord, None
  <2>5. CASE ~p.serve
    <3>1. run'[h] = Ended(0, p.warned)
      BY <2>1, <2>5 DEF Recorded, p
    <3>2. run'[h].pc = "exited"
      BY <3>1 DEF Ended, NoRun
    <3>. QED
      BY <3>2 DEF Reliable, Points, Left, HasRecord
  <2>. QED
    BY <2>4, <2>5
<1>. QED
  BY <1>4, <1>5 DEF Follow

LEMMA DeleteRecordFollow ==
  ASSUME Typed, Follow, NEW h \in Hosts, NEW id \in run[h].todo,
         DeleteDNSRecord(h, id)
  PROVE  Follow'
<1>1. run[h].pc = "delete_record" /\ run[h] \in Processes(made, records)
      /\ Staged(run[h]) /\ made \in Nat /\ records \in Nat
  BY DeleteRecordEffect DEF Typed, Types, Stages
<1>2. PICK failed \in BOOLEAN :
        /\ run'[h] = [run[h] EXCEPT
                        !.todo = run[h].todo \ {id},
                        !.code = CodeAfter(h, failed),
                        !.pc = IF run[h].todo = {id} THEN "delete_tunnel"
                               ELSE "delete_record"]
        /\ \/ failed /\ record' = record
           \/ \E g \in WithId(id) :
                record' = [record EXCEPT ![g] = NoRecord]
  BY DeleteRecordEffect DEF Typed
<1>3. \A g \in Hosts : record'[g] = record[g] \/ record'[g] = NoRecord
  BY <1>2 DEF Typed, Types, WithId
<1>4. NoRecord.id = 0 /\ NoRecord.to = 0
  BY DEF NoRecord, None
<1>5. \A g \in Hosts : Reliable(g, run[g], record) /\ Staged(run[g])
        /\ run[g] \in Processes(made, records)
  BY DEF Follow, Typed, Stages, Types
<1>6. ASSUME NEW g \in Hosts, g # h PROVE Reliable(g, run[g], record)'
  <2>1. PICK c \in BOOLEAN : run'[g] = [run[g] EXCEPT !.crossed = c]
    BY <1>6, DeleteRecordEffect DEF Typed
  <2>2. run[g].crossed \/ (run[g].pc = "ingress" /\ record'[g] # record[g])
          => run'[g].crossed
    BY <1>6, DeleteRecordEffect DEF Typed
  <2>3. /\ run'[g].pc = run[g].pc /\ run'[g].todo = run[g].todo
        /\ run'[g].id = run[g].id /\ run'[g].code = run[g].code
        /\ run[g].todo \subseteq 1..records
    BY <1>5, <2>1 DEF Processes
  <2>4. /\ run'[g].zone = run[g].zone /\ run'[g].blind = run[g].blind
        /\ run'[g].warned = run[g].warned
    BY <1>5, <2>1 DEF Processes
  <2>5. Points(run[g], record)'
    <3>1. \A x \in Hosts : record'[x].id \in run[g].todo
                             => record'[x] = record[x]
      BY <1>3, <1>4, <2>3
    <3>. QED
      BY <1>5, <2>3, <3>1 DEF Reliable, Points
  <2>6. Left(run[g], record)'
    <3>1. SUFFICES ASSUME run[g].pc \in {"delete_record", "delete_tunnel"},
                          run[g].zone, ~run[g].blind, ~run'[g].crossed,
                          run[g].code = 0,
                          NEW x \in Hosts, record'[x].to = run[g].id
                   PROVE  run[g].pc = "delete_record" /\ record'[x].id \in run[g].todo
      BY <2>3, <2>4 DEF Left
    <3>2. ~run[g].crossed /\ run[g].id # 0
      BY <1>5, <2>2, <3>1 DEF Staged, TeardownPcs, None
    <3>3. record'[x] = record[x]
      BY <1>3, <1>4, <3>1, <3>2
    <3>. QED
      BY <1>5, <3>1, <3>2, <3>3 DEF Reliable, Left
  <2>7. HasRecord(g, run[g], record)'
    <3>1. run[g].pc = "ingress" => run'[g].crossed \/ record'[g] = record[g]
      BY <2>2
    <3>. QED
      BY <1>5, <2>2, <2>3, <2>4, <3>1 DEF Reliable, HasRecord, NoRecord, None
  <2>. QED
    BY <2>5, <2>6, <2>7 DEF Reliable
<1>7. Reliable(h, run[h], record)'
  <2>. DEFINE pc == IF run[h].todo = {id} THEN "delete_tunnel" ELSE "delete_record"
  <2>1. /\ run'[h].pc = pc /\ run'[h].todo = run[h].todo \ {id}
        /\ run'[h].id = run[h].id /\ run'[h].code = CodeAfter(h, failed)
        /\ run[h].todo \subseteq 1..records
    BY <1>1, <1>2 DEF Processes
  <2>2. /\ run'[h].zone = run[h].zone /\ run'[h].blind = run[h].blind
        /\ run'[h].crossed = run[h].crossed
    BY <1>1, <1>2 DEF Processes
  <2>3. run[h].id # 0 /\ run'[h].pc \in {"delete_record", "delete_tunnel"}
    BY <1>1, <2>1 DEF Staged, TeardownPcs, None
  <2>4. Points(run[h], record)'
    <3>1. \A x \in Hosts : record'[x].id \in run[h].todo
                             => record'[x] = record[x]
      BY <1>3, <1>4, <2>1
    <3>. QED
      BY <1>1, <1>5, <2>1, <3>1 DEF Reliable, Points
  <2>5. Left(run[h], record)'
    <3>1. SUFFICES ASSUME run[h].zone, ~run[h].blind, ~run[h].crossed,
                          CodeAfter(h, failed) = 0,
                          NEW x \in Hosts, record'[x].to = run[h].id
                   PROVE  /\ run'[h].pc = "delete_record"
                          /\ record'[x].id \in run[h].todo \ {id}
      BY <2>1, <2>2 DEF Left
    <3>2. ~failed /\ run[h].code = 0
      BY <3>1 DEF CodeAfter
    <3>3. record'[x] = record[x]
      BY <1>3, <1>4, <2>3, <3>1
    <3>4. record[x].id \in run[h].todo /\ record[x].id # 0
      BY <1>1, <1>5, <2>1, <3>1, <3>2, <3>3 DEF Reliable, Left
    <3>5. PICK g \in WithId(id) : record' = [record EXCEPT ![g] = NoRecord]
      BY <1>2, <3>2
    <3>6. x # g
      BY <1>4, <2>3, <3>1, <3>5 DEF WithId, Typed, Types
    <3>7. record[x].id # id
      BY <3>4, <3>5, <3>6 DEF WithId, Typed, RecordIds
    <3>. QED
      BY <2>1, <3>3, <3>4, <3>7
  <2>6. HasRecord(h, run[h], record)'
    BY <2>3 DEF HasRecord
  <2>. QED
    BY <2>4, <2>5, <2>6 DEF Reliable
<1>. QED
  BY <1>6, <1>7 DEF Follow

LEMMA FollowNext == Typed /\ Follow /\ [Next]_vars => Follow'
<1>. SUFFICES ASSUME Typed, Follow, [Next]_vars PROVE Follow'
  OBVIOUS
<1>. USE DEF Typed
<1>1. CASE UNCHANGED vars
  BY <1>1 DEF vars, cloud, Follow, Reliable, Points, Left, HasRecord, NoRecord, None
<1>2. ASSUME NEW h \in Hosts, NEW id \in 0..made, NEW zone \in BOOLEAN,
             NEW serve \in BOOLEAN,
             \/ BeginSetup(h, id, zone, serve)
             \/ BeginTeardown(h, id, zone)
             \/ Killed(h)
      PROVE  Follow'
  BY <1>2, BeginFollow
<1>3. ASSUME NEW h \in Hosts, Calls(h) PROVE Follow'
  <2>1. CASE DeleteTunnel(h)
    BY <2>1, ExitsFollow DEF DeleteTunnel
  <2>. QED
    BY <1>3, <2>1, SetupFollow, CreateRecordFollow, FindDNSRecordFollow,
       DeleteRecordFollow DEF Calls
<1>4. \A id \in 1..made : id \in 0..made
  BY DEF Types
<1>5. ASSUME Next PROVE Follow'
  <2>1. PICK h \in Hosts :
          \/ \E id \in 0..made, zone \in BOOLEAN, serve \in BOOLEAN :
               BeginSetup(h, id, zone, serve)
          \/ \E id \in 1..made, zone \in BOOLEAN : BeginTeardown(h, id, zone)
          \/ Calls(h) \/ Killed(h)
    BY <1>5, Zenon DEF Next
  <2>2. CASE \E id \in 0..made, zone \in BOOLEAN, serve \in BOOLEAN :
               BeginSetup(h, id, zone, serve)
    BY <1>2, <2>2
  <2>3. CASE \E id \in 1..made, zone \in BOOLEAN : BeginTeardown(h, id, zone)
    <3>1. PICK id \in 1..made, zone \in BOOLEAN : BeginTeardown(h, id, zone)
      BY <2>3
    <3>2. id \in 0..made
      BY <1>4
    <3>. QED
      BY <1>2, <3>1, <3>2
  <2>4. CASE Killed(h)
    <3>1. 0 \in 0..made
      BY DEF Types
    <3>. QED
      BY <1>2, <2>4, <3>1
  <2>. QED
    BY <1>3, <2>1, <2>2, <2>3, <2>4
<1>. QED
  BY <1>1, <1>5
-----------------------------------------------------------------------------
(* Which steps a run ends with.                                            *)
LEMMA BecomesOnly ==
  ASSUME Types, NEW h \in Hosts, NEW r, Becomes(h, r)
  PROVE  run'[h] = r /\ \A g \in Hosts \ {h} : run'[g] = run[g]
BY DEF Types, Becomes

(* Only a step of its own ends a run, and only one of these.               *)
Ending(h) ==
  \/ \E id, zone, serve : BeginSetup(h, id, zone, serve)
  \/ GetTunnelToken(h) \/ CreateTunnel(h) \/ CreateDNSCNAME(h)
  \/ ConfigureTunnelIngress(h) \/ DeleteTunnel(h)

LEMMA RunEnds ==
  ASSUME Types, Next, NEW h \in Hosts, ExitsNow(h)
  PROVE  Ending(h)
<1>. USE DEF ExitsNow, At
<1>1. PICK g \in Hosts :
        \/ Ending(g)
        \/ \E id \in 1..made, zone \in BOOLEAN : BeginTeardown(g, id, zone)
        \/ ListTunnels(g) \/ FindDNSRecord(g)
        \/ \E id \in run[g].todo : DeleteDNSRecord(g, id)
        \/ Killed(g)
  BY DEF Next, Calls, Ending
<1>2. Shape
  BY TypedShape
<1>3. CASE Ending(g)
  <2>1. Moves(g)
    BY <1>2, <1>3, BeginSetupMoves, GetTokenMoves, CreateTunnelMoves,
       CreateRecordMoves, EndMoves DEF Ending, MovesTo
  <2>. QED
    BY <1>3, <2>1 DEF Moves
<1>4. CASE ~Ending(g)
  <2>1. Moves(g) /\ run'[g].pc # "exited"
    BY <1>1, <1>2, <1>4, BeginTeardownMoves, ListMoves, FindMoves,
       DeleteRecordMoves, KilledMoves DEF MovesTo
  <2>. QED
    BY <2>1 DEF Moves
<1>. QED
  BY <1>3, <1>4

(* A run that ends for want of a hostname, zone or service was given none. *)
LEMMA NamedEnds ==
  ASSUME NEW m, NEW n, NEW p \in Processes(m, n), Named(p).pc = "exited"
  PROVE  ~p.zone /\ ~p.serve
<1>1. ~p.zone
  BY DEF Named, Processes
<1>2. ~p.serve
  BY <1>1 DEF Named, Recorded, Processes
<1>. QED
  BY <1>1, <1>2

LEMMA RecordedEnds ==
  ASSUME NEW m, NEW n, NEW p \in Processes(m, n), Recorded(p).pc = "exited"
  PROVE  ~p.serve /\ Recorded(p).warned = p.warned
<1>1. ~p.serve
  BY DEF Recorded, Processes
<1>2. Recorded(p) = Ended(0, p.warned)
  BY <1>1 DEF Recorded
<1>3. Ended(0, p.warned).warned = p.warned
  BY DEF Ended, NoRun
<1>. QED
  BY <1>1, <1>2, <1>3

(* What a run leaves behind that ends well.                                *)
LEMMA ConfiguredStep ==
  ASSUME Typed, Counts, Follow, NEW h \in Hosts, ConfigureTunnelIngress(h),
         ~run'[h].warned
  PROVE  /\ run[h].id \in tunnels' /\ ingress'[run[h].id] = h
         /\ run[h].zone /\ ~run[h].crossed => record'[h] # NoRecord
<1>. USE DEF Typed
<1>1. PICK lost \in BOOLEAN, refused \in BOOLEAN :
        /\ run[h].id \notin tunnels => refused
        /\ ingress' = IF refused THEN ingress
                      ELSE [ingress EXCEPT ![run[h].id] = h]
        /\ Exits(h, 0, run[h].warned \/ lost \/ refused)
  BY DEF ConfigureTunnelIngress
<1>2. ~run[h].warned /\ ~lost /\ ~refused
  <2>. DEFINE b == run[h].warned \/ lost \/ refused
  <2>1. Exits(h, 0, b)
    BY <1>1
  <2>. HIDE DEF b
  <2>2. run'[h] = Ended(0, b)
    BY <2>1, BecomesOnly DEF Exits
  <2>3. run'[h].warned = b
    BY <2>2 DEF Ended, NoRun
  <2>4. ~b
    BY <2>3
  <2>. USE DEF b
  <2>. QED
    BY <2>4
<1>3. run[h].id \in tunnels /\ UNCHANGED <<tunnels, record>> /\ run[h].pc = "ingress"
  BY <1>1, <1>2 DEF ConfigureTunnelIngress, At
<1>4. run[h].id \in 1..RunCap
  <2>1. made <= runs
    BY InPcsFinite DEF Counts, Types
  <2>2. run[h].id \in 1..made
    BY <1>3 DEF Types
  <2>3. made \in Nat /\ runs \in Nat /\ RunCap \in Nat /\ runs <= RunCap
    BY TunnelSetupAssumption DEF Types
  <2>. QED
    BY <2>1, <2>2, <2>3
<1>5. ingress'[run[h].id] = h
  BY <1>1, <1>2, <1>4 DEF Types
<1>6. run[h].zone /\ ~run[h].crossed => record[h] # NoRecord
  BY <1>2, <1>3 DEF Follow, Reliable, HasRecord
<1>. QED
  BY <1>3, <1>5, <1>6

(* A set-up that ends early was not given what it would have gone on with. *)
LEMMA QuietStep ==
  ASSUME Typed, Counts, Follow, Next, NEW h \in Hosts, ExitsNow(h),
         run[h].mode = "setup", run'[h].code = 0, ~run'[h].warned
  PROVE  /\ run[h].serve =>
              run[h].id \in tunnels' /\ ingress'[run[h].id] = h
         /\ run[h].zone /\ ~run[h].crossed => record'[h] # NoRecord
<1>. USE DEF Typed
<1>1. run'[h].pc = "exited" /\ run[h].pc # "exited"
  BY DEF ExitsNow, At
<1>2. run[h] \in Processes(made, records) /\ Staged(run[h])
  BY DEF Types, Stages
<1>3. CASE \E id, zone, serve : BeginSetup(h, id, zone, serve)
  <2>1. run[h].pc = "idle"
    BY <1>1, <1>3 DEF BeginSetup
  <2>. QED
    BY <1>2, <2>1 DEF Staged
<1>4. CASE GetTunnelToken(h)
  <2>. DEFINE p == [run[h] EXCEPT !.warned = TRUE]
  <2>1. CASE Becomes(h, Named(run[h]))
    <3>1. Named(run[h]).pc = "exited"
      BY <1>1, <2>1, BecomesOnly
    <3>. QED
      BY <1>2, <3>1, NamedEnds
  <2>2. CASE Becomes(h, Named(p))
    <3>1. Named(p).pc = "exited"
      BY <1>1, <2>2, BecomesOnly
    <3>2. p \in Processes(made, records)
      BY <1>2, UpdateWarned
    <3>3. p.zone = run[h].zone /\ p.serve = run[h].serve
      BY <1>2 DEF Processes
    <3>. HIDE DEF p
    <3>. QED
      BY <3>1, <3>2, <3>3, NamedEnds
  <2>. QED
    BY <1>4, <2>1, <2>2 DEF GetTunnelToken
<1>5. CASE CreateTunnel(h)
  <2>1. CASE Exits(h, 1, FALSE)
    <3>1. run'[h] = Ended(1, FALSE)
      BY <2>1, BecomesOnly DEF Exits
    <3>2. run'[h].code = 1
      BY <3>1 DEF Ended, NoRun
    <3>. QED
      BY <3>2
  <2>2. CASE /\ made' = made + 1
             /\ Becomes(h, Named([run[h] EXCEPT !.id = made']))
    <3>. DEFINE p == [run[h] EXCEPT !.id = made']
    <3>1. /\ made' \in 0..made' /\ made' \in Nat /\ made <= made'
          /\ made \in Nat /\ records \in Nat
      BY <2>2 DEF Types
    <3>2. run[h] \in Processes(made', records)
      BY <1>2, <3>1, MoreMade
    <3>3. p \in Processes(made', records)
      BY <3>1, <3>2, UpdateId
    <3>4. p.zone = run[h].zone /\ p.serve = run[h].serve
      BY <1>2 DEF Processes
    <3>5. Named(p).pc = "exited"
      BY <1>1, <2>2, BecomesOnly
    <3>. HIDE DEF p
    <3>. QED
      BY <3>3, <3>4, <3>5, NamedEnds
  <2>. QED
    BY <1>5, <2>1, <2>2 DEF CreateTunnel
<1>6. CASE CreateDNSCNAME(h)
  <2>1. PICK b \in BOOLEAN :
          /\ run'[h] = Recorded([run[h] EXCEPT !.warned = b])
          /\ b \/ record'[h] # NoRecord
    BY <1>6, CreateRecordEffect
  <2>. DEFINE p == [run[h] EXCEPT !.warned = b]
  <2>2. p \in Processes(made, records)
    BY <1>2, UpdateWarned
  <2>3. p.warned = b /\ p.serve = run[h].serve
    BY <1>2 DEF Processes
  <2>. HIDE DEF p
  <2>4. run'[h] = Recorded(p)
    BY <2>1 DEF p
  <2>5. ~p.serve /\ run'[h].warned = p.warned
    BY <1>1, <2>2, <2>4, RecordedEnds
  <2>. QED
    BY <2>1, <2>3, <2>5
<1>7. CASE ConfigureTunnelIngress(h)
  BY <1>7, ConfiguredStep
<1>8. ~DeleteTunnel(h)
  BY <1>2 DEF DeleteTunnel, At, Staged, TeardownPcs
<1>. QED
  BY <1>3, <1>4, <1>5, <1>6, <1>7, <1>8, RunEnds DEF Ending

LEMMA CleanStep ==
  ASSUME Typed, Follow, Next, NEW h \in Hosts, ExitsNow(h),
         run[h].mode = "teardown", run'[h].code = 0,
         run[h].zone, ~run[h].blind, ~run[h].crossed
  PROVE  /\ run[h].id \notin tunnels'
         /\ \A g \in Hosts : record'[g].to # run[h].id
<1>. USE DEF Typed
<1>0. Staged(run[h]) /\ run[h].pc # "exited"
  BY DEF Stages, ExitsNow, At
<1>1. /\ ~GetTunnelToken(h) /\ ~CreateTunnel(h) /\ ~CreateDNSCNAME(h)
      /\ ~ConfigureTunnelIngress(h)
      /\ ~\E id, zone, serve : BeginSetup(h, id, zone, serve)
  BY <1>0 DEF GetTunnelToken, CreateTunnel, CreateDNSCNAME,
     ConfigureTunnelIngress, BeginSetup, At, Staged, SetupPcs
<1>2. DeleteTunnel(h)
  BY <1>1, RunEnds DEF Ending
<1>3. PICK failed \in BOOLEAN :
        /\ \/ failed /\ UNCHANGED tunnels
           \/ run[h].id \in tunnels /\ tunnels' = tunnels \ {run[h].id}
        /\ Exits(h, CodeAfter(h, failed), FALSE)
  BY <1>2 DEF DeleteTunnel
<1>4. CodeAfter(h, failed) = 0
  <2>. DEFINE c == CodeAfter(h, failed)
  <2>. HIDE DEF c
  <2>1. run'[h] = Ended(c, FALSE)
    BY <1>3, BecomesOnly DEF Exits, c
  <2>2. c = 0
    BY <2>1 DEF Ended, NoRun
  <2>. QED
    BY <2>2 DEF c
<1>5. ~failed /\ run[h].code = 0
  BY <1>4 DEF CodeAfter
<1>6. run[h].pc = "delete_tunnel" /\ UNCHANGED record
  BY <1>2 DEF DeleteTunnel, At
<1>7. \A g \in Hosts : record[g].to # run[h].id
  BY <1>5, <1>6 DEF Follow, Reliable, Left
<1>. QED
  BY <1>3, <1>5, <1>6, <1>7

(* What takes away that a hostname is served.                              *)
LEMMA ServedStep ==
  ASSUME Typed, Counts, Follow, [Next]_vars, NEW h \in Hosts,
         NEW t \in 1..made, Serves(h, t), ~Serves(h, t)'
  PROVE  \E g \in Hosts :
           /\ run[g].id = t
           /\ \/ run[g].pc \in {"delete_record", "delete_tunnel"}
              \/ run[g].pc = "ingress" /\ g # h
<1>. USE DEF Typed
<1>1. t \in tunnels /\ ingress[t] = h /\ record[h].to = t /\ t # 0
  BY DEF Serves, Types
<1>2. ~(t \in tunnels' /\ ingress'[t] = h /\ record'[h].to = t)
  BY DEF Serves
<1>3. ~UNCHANGED <<tunnels, ingress, record>>
  BY <1>1, <1>2
<1>4. PICK g \in Hosts :
        \/ CreateTunnel(g) \/ CreateDNSCNAME(g) \/ ConfigureTunnelIngress(g)
        \/ \E id \in run[g].todo : DeleteDNSRecord(g, id)
        \/ DeleteTunnel(g)
  BY <1>3 DEF Next, Calls, BeginSetup, BeginTeardown, Killed, ListTunnels,
              GetTunnelToken, FindDNSRecord, cloud, vars
<1>5. CASE CreateTunnel(g)
  BY <1>1, <1>2, <1>5 DEF CreateTunnel
<1>6. CASE CreateDNSCNAME(g)
  <2>1. record'[h] = record[h]
    <3>1. \/ record' = record
          \/ record' = [record EXCEPT ![g] = [id |-> records + 1, to |-> run[g].id]]
               /\ record[g] = NoRecord
      BY <1>6 DEF CreateDNSCNAME, Pointed, Overwrites
    <3>2. record[h] # NoRecord
      BY <1>1 DEF NoRecord, None
    <3>. QED
      BY <3>1, <3>2 DEF Types
  <2>. QED
    BY <1>1, <1>2, <1>6, <2>1 DEF CreateDNSCNAME
<1>7. CASE ConfigureTunnelIngress(g)
  <2>1. /\ UNCHANGED <<tunnels, record>> /\ run[g].pc = "ingress"
        /\ ingress' = ingress \/ ingress' = [ingress EXCEPT ![run[g].id] = g]
    BY <1>7 DEF ConfigureTunnelIngress, At
  <2>2. ingress'[t] # h
    BY <1>1, <1>2, <2>1
  <2>3. ingress' = [ingress EXCEPT ![run[g].id] = g]
    BY <1>1, <2>1, <2>2
  <2>4. run[g].id = t
    BY <1>1, <2>2, <2>3 DEF Types
  <2>5. CASE g = h
    <3>1. t \in 1..RunCap
      <4>1. made <= runs
        BY InPcsFinite DEF Counts, Types
      <4>2. made \in Nat /\ runs \in Nat /\ RunCap \in Nat /\ runs <= RunCap
        BY TunnelSetupAssumption DEF Types
      <4>. QED
        BY <4>1, <4>2
    <3>2. ingress'[t] = h
      BY <2>3, <2>4, <2>5, <3>1 DEF Types
    <3>. QED
      BY <2>2, <3>2
  <2>. QED
    BY <2>1, <2>4, <2>5
<1>8. ASSUME NEW id \in run[g].todo, DeleteDNSRecord(g, id)
      PROVE  run[g].id = t /\ run[g].pc = "delete_record"
  <2>1. /\ run[g].pc = "delete_record" /\ UNCHANGED <<tunnels, ingress>>
        /\ record'[h] # record[h]
    BY <1>1, <1>2, <1>8, DeleteRecordEffect
  <2>2. PICK x \in WithId(id) : record' = [record EXCEPT ![x] = NoRecord]
    BY <1>8, <2>1, DeleteRecordEffect
  <2>3. x = h
    BY <2>1, <2>2 DEF WithId, Types
  <2>. QED
    BY <1>1, <2>1, <2>2, <2>3 DEF WithId, Follow, Reliable, Points
<1>9. CASE DeleteTunnel(g)
  <2>1. /\ UNCHANGED <<ingress, record>> /\ run[g].pc = "delete_tunnel"
        /\ tunnels' = tunnels \/ tunnels' = tunnels \ {run[g].id}
    BY <1>9 DEF DeleteTunnel, At
  <2>. QED
    BY <1>1, <1>2, <2>1
<1>. QED
  BY <1>4, <1>5, <1>6, <1>7, <1>8, <1>9
-----------------------------------------------------------------------------
(* The invariant all of these stand on.                                    *)
AllSound == Typed /\ Counts /\ Follow

LEMMA AllSoundHolds == Spec => []AllSound
<1>1. Init => AllSound
  <2>. SUFFICES ASSUME Init PROVE AllSound
    OBVIOUS
  <2>1. Free(NoRun)
    BY DEF Free, NoRun
  <2>2. Follow
    BY <2>1, FreeIsReliable DEF Init, Follow
  <2>. QED
    BY <2>2, TypedInit, CountsInit DEF AllSound
<1>2. AllSound /\ [Next]_vars => AllSound'
  BY TypedNext, CountsNext, FollowNext DEF AllSound, Typed
<1>. QED
  BY <1>1, <1>2, PTL DEF Spec

(* main.go:560-587: a set-up that ends without a warning has configured    *)
(* its tunnel, which exists, for the hostname if it was given a service,   *)
(* and the hostname has its record if it was given a zone, unless a        *)
(* teardown took that away between the two.                                *)
THEOREM QuietSetupIsGood == Spec => QuietSetupServes
<1>1. AllSound /\ [Next]_vars =>
        [\A h \in Hosts :
           ExitsNow(h) /\ run[h].mode = "setup" /\ run'[h].code = 0
             /\ ~run'[h].warned
           => /\ run[h].serve =>
                   run[h].id \in tunnels' /\ ingress'[run[h].id] = h
              /\ run[h].zone /\ ~run[h].crossed => record'[h] # NoRecord]_vars
  BY QuietStep DEF AllSound
<1>. QED
  BY <1>1, AllSoundHolds, PTL DEF Spec, QuietSetupServes

(* main.go:608-649: a teardown that ends with 0, saw all records and was   *)
(* not crossed has left neither its tunnel nor a record pointing to it.    *)
THEOREM TeardownIsClean == Spec => TeardownClean
<1>1. AllSound /\ [Next]_vars =>
        [\A h \in Hosts :
           ExitsNow(h) /\ run[h].mode = "teardown" /\ run'[h].code = 0
             /\ run[h].zone /\ ~run[h].blind /\ ~run[h].crossed
           => /\ run[h].id \notin tunnels'
              /\ \A g \in Hosts : record'[g].to # run[h].id]_vars
  BY CleanStep DEF AllSound
<1>. QED
  BY <1>1, AllSoundHolds, PTL DEF Spec, TeardownClean

(* No run takes away record or ingress of a tunnel it does not work on.    *)
THEOREM ServedIsKept == Spec => ServedUntilTouched
<1>1. AllSound /\ [Next]_vars =>
        [\A h \in Hosts, t \in 1..made :
           Serves(h, t) /\ ~Serves(h, t)'
           => \E g \in Hosts :
                /\ run[g].id = t
                /\ \/ run[g].pc \in {"delete_record", "delete_tunnel"}
                   \/ run[g].pc = "ingress" /\ g # h]_vars
  BY ServedStep DEF AllSound
<1>. QED
  BY <1>1, AllSoundHolds, PTL DEF Spec, ServedUntilTouched
=============================================================================
