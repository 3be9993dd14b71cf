---------------------------- MODULE WizardProofs ----------------------------
(***************************************************************************)
(* Proofs about Wizard, for any API tokens, accounts, tunnels, roles and   *)
(* tiers and any number of commands: the page asks for one tunnel, and     *)
(* what is reviewed is what the pages show.                                *)
(***************************************************************************)
EXTENDS Wizard, TLAPS

(* The command that verifies an API token has one.                         *)
Typed ==
  /\ w \in Page
  /\ \A c \in flight : c.kind = "verify" => c.key \in Keys
  /\ creates \in Nat /\ freed \in Nat

(* A creation asked for is under way, known to the page, or forgotten.     *)
Counted(p, asked, given) ==
  asked <= given + (IF p.creating \/ p.created THEN 1 ELSE 0)

IInv == Typed /\ Counted(w, creates, freed)
-----------------------------------------------------------------------------
(* Pages that agree on the creation of a tunnel.                           *)
Alike(p, q) == q \in Page /\ q.creating = p.creating /\ q.created = p.created

(* Moving the focus says nothing about tunnels.                            *)
LEMMA FocusedAlike ==
  ASSUME NEW p \in Page, NEW f \in 0..4
  PROVE  Alike(p, Focused(p, f))
<1>. DEFINE has == \/ f = 2 /\ HasAccounts(p)
                   \/ f = 3 /\ p.listed /\ p.cursor # CreateNew
<1>1. Focused(p, f) = [p EXCEPT !.focus = f, !.picking = has]
  BY DEF Focused
<1>2. has \in BOOLEAN
  OBVIOUS
<1>. HIDE DEF has
<1>3. [p EXCEPT !.focus = f, !.picking = has] \in Page
  BY ZenonT(60), <1>2 DEF Page
<1>4. /\ [p EXCEPT !.focus = f, !.picking = has].creating = p.creating
      /\ [p EXCEPT !.focus = f, !.picking = has].created = p.created
  BY DEF Page
<1>. QED
  BY <1>1, <1>3, <1>4 DEF Alike

(* Nor does the start of a discovery.                                      *)
LEMMA DiscoveringAlike ==
  ASSUME NEW p \in Page
  PROVE  Alike(p, Discovering(p))
BY ZenonT(60) DEF Alike, Page, Discovering

LEMMA UnloadedType == Unloaded \in Picker(Accounts) /\ Unloaded \in Picker(Zones)
BY DEF Unloaded, Picker

LEMMA LoadedType ==
  ASSUME NEW S, NEW found \in SUBSET S, NEW first \in S \cup {None}
  PROVE  Loaded(found, first) \in Picker(S)
BY DEF Loaded, Picker

(* The selections of pickers.                                              *)
LEMMA PickType ==
  ASSUME NEW p \in Page
  PROVE  /\ p.accounts.pick \in Accounts \cup {None} /\ p.accounts.found \in SUBSET Accounts
         /\ p.zones.pick \in Zones \cup {None} /\ p.zones.found \in SUBSET Zones
<1>1. p.accounts \in Picker(Accounts) /\ p.zones \in Picker(Zones)
  BY DEF Page
<1>. QED
  BY <1>1 DEF Picker

(* Changes of fields of a kind leave a page a page.                        *)
LEMMA FlagsType ==
  ASSUME NEW p \in Page
  PROVE  /\ [p EXCEPT !.fetching = FALSE, !.listed = FALSE] \in Page
         /\ [p EXCEPT !.creating = FALSE, !.created = FALSE] \in Page
         /\ ~[p EXCEPT !.creating = FALSE, !.created = FALSE].creating
         /\ ~[p EXCEPT !.creating = FALSE, !.created = FALSE].created
<1>1. [p EXCEPT !.fetching = FALSE, !.listed = FALSE] \in Page
  BY ZenonT(60) DEF Page
<1>2. [p EXCEPT !.creating = FALSE, !.created = FALSE] \in Page
  BY ZenonT(60) DEF Page
<1>3. /\ ~[p EXCEPT !.creating = FALSE, !.created = FALSE].creating
      /\ ~[p EXCEPT !.creating = FALSE, !.created = FALSE].created
  BY DEF Page
<1>. QED
  BY <1>1, <1>2, <1>3

LEMMA MadeType ==
  ASSUME NEW p \in Page
  PROVE  /\ [p EXCEPT !.creating = FALSE, !.created = TRUE] \in Page
         /\ [p EXCEPT !.creating = FALSE, !.created = TRUE].created
<1>1. [p EXCEPT !.creating = FALSE, !.created = TRUE] \in Page
  BY ZenonT(60) DEF Page
<1>2. [p EXCEPT !.creating = FALSE, !.created = TRUE].created
  BY DEF Page
<1>. QED
  BY <1>1, <1>2

LEMMA TunnelsType ==
  ASSUME NEW p \in Page, NEW given \in SUBSET Tunnels,
         NEW t \in Tunnels \cup {None}, NEW u \in Tunnels \cup {None}
  PROVE  Alike(p, [p EXCEPT !.options = given, !.id = t, !.token = u])
<1>1. [p EXCEPT !.options = given, !.id = t, !.token = u] \in Page
  BY ZenonT(60) DEF Page
<1>2. /\ [p EXCEPT !.options = given, !.id = t, !.token = u].creating = p.creating
      /\ [p EXCEPT !.options = given, !.id = t, !.token = u].created = p.created
  BY DEF Page
<1>. QED
  BY <1>1, <1>2 DEF Alike

LEMMA ListsType ==
  ASSUME NEW p \in Page, NEW a \in Picker(Accounts), NEW z \in Picker(Zones)
  PROVE  [p EXCEPT !.accounts = a, !.zones = z] \in Page
BY DEF Page

LEMMA AccountsType ==
  ASSUME NEW p \in Page, NEW a \in Picker(Accounts),
         NEW account \in Accounts \cup {None}
  PROVE  Alike(p, [p EXCEPT !.accounts = a, !.acct = account])
<1>1. [p EXCEPT !.accounts = a, !.acct = account] \in Page
  BY ZenonT(60) DEF Page
<1>2. /\ [p EXCEPT !.accounts = a, !.acct = account].creating = p.creating
      /\ [p EXCEPT !.accounts = a, !.acct = account].created = p.created
  BY DEF Page
<1>. QED
  BY <1>1, <1>2 DEF Alike

LEMMA FetchingType ==
  ASSUME NEW p \in Page, NEW picks \in BOOLEAN
  PROVE  Alike(p, [p EXCEPT !.fetching = FALSE, !.picking = picks])
<1>1. [p EXCEPT !.fetching = FALSE, !.picking = picks] \in Page
  BY ZenonT(60) DEF Page
<1>2. /\ [p EXCEPT !.fetching = FALSE, !.picking = picks].creating = p.creating
      /\ [p EXCEPT !.fetching = FALSE, !.picking = picks].created = p.created
  BY DEF Page
<1>. QED
  BY <1>1, <1>2 DEF Alike

(* A page whose discovery is reset knows of no creation.                   *)
LEMMA ResetForgets ==
  ASSUME NEW p \in Page
  PROVE  /\ ResetDiscovery(p) \in Page
         /\ ~ResetDiscovery(p).creating /\ ~ResetDiscovery(p).created
<1>. DEFINE q == [p EXCEPT !.accounts = Unloaded, !.zones = Unloaded]
            r == [q EXCEPT !.options = {}, !.id = None, !.token = None]
            s == [r EXCEPT !.fetching = FALSE, !.listed = FALSE]
            t == [s EXCEPT !.creating = FALSE, !.created = FALSE]
<1>1. ResetDiscovery(p) = t
  BY DEF Page, ResetDiscovery
<1>2. q \in Page
  BY UnloadedType, ListsType
<1>. HIDE DEF q
<1>3. r \in Page
  BY <1>2, TunnelsType DEF Alike
<1>. HIDE DEF r
<1>4. s \in Page
  BY <1>3, FlagsType
<1>. HIDE DEF s
<1>5. t \in Page /\ ~t.creating /\ ~t.created
  BY <1>4, FlagsType
<1>. QED
  BY <1>1, <1>5

(* The page learns of the accounts an API token gives access to.           *)
LEMMA AccountsListed ==
  ASSUME NEW p \in Page, NEW list \in Picker(Accounts),
         NEW account \in Accounts \cup {None}, NEW picks \in BOOLEAN
  PROVE  Alike(p, [p EXCEPT !.fetching = FALSE, !.accounts = list,
                            !.picking = picks, !.acct = account])
<1>. DEFINE q == [p EXCEPT !.fetching = FALSE, !.picking = picks]
            r == [q EXCEPT !.accounts = list, !.acct = account]
<1>1. r = [p EXCEPT !.fetching = FALSE, !.accounts = list,
                    !.picking = picks, !.acct = account]
  BY DEF Page
<1>2. Alike(p, q)
  BY FetchingType
<1>. HIDE DEF q
<1>3. Alike(q, r)
  BY <1>2, AccountsType DEF Alike
<1>. QED
  BY <1>1, <1>2, <1>3 DEF Alike

(* Or of zones.                                                            *)
LEMMA ZonesListed ==
  ASSUME NEW p \in Page, NEW list \in Picker(Zones),
         NEW typed \in Zones \cup {None}
  PROVE  Alike(p, [p EXCEPT !.zones = list, !.zone = typed])
<1>. DEFINE q == [p EXCEPT !.zones = list, !.zone = typed]
<1>1. q \in Page
  BY ZenonT(60) DEF Page
<1>2. q.creating = p.creating /\ q.created = p.created
  BY DEF Page
<1>. QED
  BY <1>1, <1>2 DEF Alike

(* A new page knows of no creation either.                                 *)
LEMMA NewPageForgets ==
  NewPage \in Page /\ ~NewPage.creating /\ ~NewPage.created
<1>0. /\ 0 \in 0..4 /\ FALSE \in BOOLEAN
      /\ {} \in SUBSET Accounts /\ {} \in SUBSET Tunnels
      /\ EnvKey \in Keys \cup {None}
      /\ None \in Zones \cup {None} /\ None \in Words \cup {None}
      /\ None \in Keys \cup {None} /\ None \in Accounts \cup {None}
      /\ None \in Tunnels \cup {None}
      /\ CreateNew \in Tunnels \cup {CreateNew}
  BY WizardWiringAssumption
<1>1. NewPage \in Page
  BY <1>0, UnloadedType, ZenonT(30) DEF Page, NewPage
<1>. QED
  BY <1>1 DEF NewPage

(* A new set of commands under way, after the issue of one.                *)
LEMMA IssuedVerify ==
  ASSUME NEW kind, NEW p \in Page, NEW acct, NEW t,
         Issue(kind, p, acct, t) \/ NoCommand,
         kind = "verify" => p.key # None,
         Typed
  PROVE  \A c \in flight' : c.kind = "verify" => c.key \in Keys
<1>1. CASE NoCommand
  BY <1>1 DEF NoCommand, Typed
<1>2. CASE Issue(kind, p, acct, t)
  <2>1. p.key \in Keys \cup {None}
    BY DEF Page
  <2>. QED
    BY <1>2, <2>1 DEF Issue, Command, Typed
<1>. QED
  BY <1>1, <1>2

(* A page that forgets its creation is credited with it.                   *)
LEMMA Forgotten ==
  ASSUME IInv, NEW p \in Page, ~p.creating, ~p.created
  PROVE  Freed \in Nat /\ Counted(p, creates, Freed)
BY DEF IInv, Typed, Counted, Freed

(* A page that says the same of its creation keeps the count.              *)
LEMMA KeptCount ==
  ASSUME IInv, Alike(w, w'), UNCHANGED <<creates, freed>>
  PROVE  /\ w' \in Page /\ creates' \in Nat /\ freed' \in Nat
         /\ Counted(w, creates, freed)'
BY DEF IInv, Typed, Counted, Alike
-----------------------------------------------------------------------------
(* The page is shown again: only the focus changes, or a discovery starts. *)
LEMMA FocusPageAlike ==
  ASSUME Typed, FocusPage
  PROVE  /\ Alike(w, w')
         /\ \A c \in flight' : c.kind = "verify" => c.key \in Keys
<1>1. w \in Page /\ Alike(w, Focused(w, 0))
  BY FocusedAlike DEF Typed
<1>2. Alike(w, Discovering(Focused(w, 0)))
  BY <1>1, DiscoveringAlike DEF Alike
<1>3. w' = Focused(w, 0) \/ w' = Discovering(Focused(w, 0))
  BY DEF FocusPage
<1>4. NoCommand \/ (w.key # None /\ Issue("verify", w, None, None))
  BY DEF FocusPage
<1>5. \A c \in flight' : c.kind = "verify" => c.key \in Keys
  BY <1>1, <1>4, IssuedVerify
<1>. QED
  BY <1>1, <1>2, <1>3, <1>5

(* Enter in the field of the API token.                                    *)
LEMMA EnterKeyInv ==
  ASSUME IInv, EnterKey
  PROVE  IInv'
<1>. w \in Page
  BY DEF IInv, Typed
<1>1. CASE w.key # None /\ ~w.fetching /\ (~w.accounts.loaded \/ w.key # w.verified)
  <2>. DEFINE p == ResetDiscovery(w)
              q == Focused(p, 1)
  <2>1. /\ w' = Discovering(q)
        /\ Issue("verify", w, None, None)
        /\ freed' = Freed /\ creates' = creates
    BY <1>1 DEF EnterKey
  <2>2. p \in Page /\ ~p.creating /\ ~p.created
    BY ResetForgets
  <2>3. Alike(p, q)
    BY <2>2, FocusedAlike
  <2>4. Alike(q, Discovering(q))
    BY <2>3, DiscoveringAlike DEF Alike
  <2>5. w' \in Page /\ ~w'.creating /\ ~w'.created
    BY <2>1, <2>2, <2>3, <2>4 DEF Alike
  <2>6. Freed \in Nat /\ Counted(w', creates, Freed)
    BY <2>5, Forgotten
  <2>7. \A c \in flight' : c.kind = "verify" => c.key \in Keys
    BY <1>1, <2>1, IssuedVerify DEF IInv
  <2>8. creates' \in Nat
    BY <2>1 DEF IInv, Typed
  <2>. QED
    BY <2>1, <2>5, <2>6, <2>7, <2>8 DEF IInv, Typed, Counted
<1>2. CASE ~(w.key # None /\ ~w.fetching /\ (~w.accounts.loaded \/ w.key # w.verified))
  <2>1. w' = Focused(w, 1) /\ NoCommand /\ UNCHANGED <<creates, freed>>
    BY <1>2 DEF EnterKey
  <2>2. Alike(w, w')
    BY <2>1, FocusedAlike
  <2>. QED
    BY <2>1, <2>2, KeptCount DEF IInv, Typed, NoCommand
<1>. QED
  BY <1>1, <1>2

(* A change of the API token.                                              *)
LEMMA EditKeyInv ==
  ASSUME IInv, NEW k \in Keys \cup {None}, EditKey(k)
  PROVE  IInv'
<1>. DEFINE p == IF w.verified # None THEN ResetDiscovery(w) ELSE w
<1>1. /\ w' = [p EXCEPT !.key = k]
      /\ freed' = Freed /\ creates' = creates /\ flight' = flight
  BY DEF EditKey, NoCommand
<1>2. /\ p \in Page
      /\ (~p.creating /\ ~p.created)
           \/ (p.creating = w.creating /\ p.created = w.created)
  BY ResetForgets DEF IInv, Typed
<1>. HIDE DEF p
<1>3. /\ w' \in Page
      /\ (~w'.creating /\ ~w'.created)
           \/ (w'.creating = w.creating /\ w'.created = w.created)
  BY <1>1, <1>2 DEF Page
<1>4. Freed \in Nat /\ Counted(w', creates, Freed)
  BY <1>3 DEF IInv, Typed, Counted, Freed
<1>. QED
  BY <1>1, <1>3, <1>4 DEF IInv, Typed, Counted

(* Enter in the field of the tunnel: a creation is asked for only where    *)
(* none is under way or known.                                             *)
LEMMA EnterTunnelInv ==
  ASSUME IInv, EnterTunnel
  PROVE  IInv'
<1>. w \in Page
  BY DEF IInv, Typed
<1>1. CASE IsCreatingNew(w) /\ MayCreate
  <2>1. /\ w' = [w EXCEPT !.creating = TRUE]
        /\ Issue("create", w, w.acct, None)
        /\ creates' = creates + 1 /\ freed' = freed
    BY <1>1 DEF EnterTunnel
  <2>2. w' \in Page /\ w'.creating
    BY <2>1 DEF Page
  <2>3. ~w.creating /\ ~w.created
    BY <1>1 DEF MayCreate
  <2>4. \A c \in flight' : c.kind = "verify" => c.key \in Keys
    BY <2>1, IssuedVerify DEF IInv
  <2>. QED
    BY <2>1, <2>2, <2>3, <2>4 DEF IInv, Typed, Counted
<1>2. CASE ~(IsCreatingNew(w) /\ MayCreate)
  <2>1. /\ w' = Focused(w, 4) \/ w' = w
        /\ UNCHANGED <<creates, freed>>
        /\ NoCommand \/ Issue("token", w, w.acct, w.cursor)
    BY <1>2 DEF EnterTunnel
  <2>2. Alike(w, w')
    BY <2>1, FocusedAlike DEF Alike
  <2>3. \A c \in flight' : c.kind = "verify" => c.key \in Keys
    BY <2>1, IssuedVerify DEF IInv
  <2>. QED
    BY <2>1, <2>2, <2>3, KeptCount DEF IInv, Typed
<1>. QED
  BY <1>1, <1>2

(* The other keys of the page say nothing about the creation.              *)
LEMMA OtherKeysInv ==
  ASSUME IInv,
         \/ EnterZone \/ EnterAccount \/ Back
         \/ \E a \in Accounts : MoveAccount(a) \/ TypeAccount(a)
         \/ \E z \in Zones \cup {None} : MoveZone(z) \/ TypeZone(z)
         \/ \E t \in Tunnels \cup {CreateNew} : MoveTunnel(t)
         \/ \E n \in Words \cup {None} : TypeName(n) \/ TypeSubdomain(n)
  PROVE  IInv'
<1>. w \in Page
  BY DEF IInv, Typed
<1>1. CASE EnterZone
  <2>. DEFINE p == IF HasZones(w) THEN [w EXCEPT !.zone = w.zones.pick] ELSE w
  <2>1. Alike(w, p)
    BY PickType DEF Alike, Page
  <2>2. w' = Focused(p, 2)
    BY <1>1 DEF EnterZone
  <2>. HIDE DEF p
  <2>3. Alike(p, w')
    BY <2>1, <2>2, FocusedAlike DEF Alike
  <2>4. Alike(w, w')
    BY <2>1, <2>3 DEF Alike
  <2>. QED
    BY <1>1, <2>4, KeptCount DEF EnterZone, NoCommand, Uncounted, IInv, Typed
<1>2. CASE EnterAccount
  <2>. DEFINE p == IF HasAccounts(w) THEN [w EXCEPT !.acct = w.accounts.pick] ELSE w
  <2>1. Alike(w, p)
    BY PickType DEF Alike, Page
  <2>2. /\ w' = Focused(p, 1) \/ w' = Focused(p, 3)
        /\ NoCommand \/ Issue("zones", w, w.accounts.pick, None)
        /\ UNCHANGED <<creates, freed>>
    BY <1>2 DEF EnterAccount, Uncounted
  <2>. HIDE DEF p
  <2>3. Alike(w, w')
    <3>1. Alike(p, w')
      BY <2>1, <2>2, FocusedAlike DEF Alike
    <3>. QED
      BY <2>1, <3>1 DEF Alike
  <2>4. \A c \in flight' : c.kind = "verify" => c.key \in Keys
    BY <2>2, IssuedVerify DEF IInv
  <2>. QED
    BY <2>2, <2>3, <2>4, KeptCount DEF IInv, Typed
<1>3. CASE Back
  <2>1. w.focus - 1 \in 0..4
    BY <1>3 DEF Back, Page
  <2>2. Alike(w, w')
    BY <1>3, <2>1, FocusedAlike DEF Back
  <2>. QED
    BY <1>3, <2>2, KeptCount DEF Back, NoCommand, Uncounted, IInv, Typed
<1>4. ASSUME NEW n \in Words \cup {None}, TypeName(n) \/ TypeSubdomain(n)
      PROVE  IInv'
  <2>1. /\ w' = [w EXCEPT !.name = n] \/ w' = [w EXCEPT !.sub = n]
        /\ UNCHANGED <<creates, freed, flight>>
    BY <1>4 DEF TypeName, TypeSubdomain, Typing, NoCommand, Uncounted
  <2>2. Alike(w, w')
    BY <2>1 DEF Alike, Page
  <2>. QED
    BY <2>1, <2>2, KeptCount DEF IInv, Typed
<1>5. ASSUME NEW a \in Accounts, MoveAccount(a) \/ TypeAccount(a)
      PROVE  IInv'
  <2>. DEFINE list == Loaded(w.accounts.found, a)
  <2>1. /\ w' = [w EXCEPT !.accounts = list] \/ w' = [w EXCEPT !.acct = a]
        /\ UNCHANGED <<creates, freed, flight>>
    BY <1>5 DEF MoveAccount, TypeAccount, NoCommand, Uncounted
  <2>0. list \in Picker(Accounts)
    BY PickType, LoadedType
  <2>. HIDE DEF list
  <2>2. Alike(w, w')
    BY <2>0, <2>1 DEF Alike, Page
  <2>. QED
    BY <2>1, <2>2, KeptCount DEF IInv, Typed
<1>6. ASSUME NEW t \in Tunnels \cup {CreateNew}, MoveTunnel(t)
      PROVE  IInv'
  <2>. DEFINE v == IF w.created THEN w.token ELSE None
  <2>0. w' = [w EXCEPT !.cursor = t, !.token = v]
    BY <1>6 DEF MoveTunnel
  <2>1. v \in Tunnels \cup {None}
    BY DEF Page
  <2>. HIDE DEF v
  <2>2. Alike(w, w')
    BY <2>0, <2>1 DEF Alike, Page
  <2>. QED
    BY <1>6, <2>2, KeptCount DEF MoveTunnel, NoCommand, Uncounted, IInv, Typed
<1>7. ASSUME NEW z \in Zones \cup {None}, MoveZone(z) \/ TypeZone(z)
      PROVE  IInv'
  <2>. DEFINE list == Loaded(w.zones.found, z)
  <2>1. /\ w' = [w EXCEPT !.zones = list] \/ w' = [w EXCEPT !.zone = z]
        /\ UNCHANGED <<creates, freed, flight>>
    BY <1>7 DEF MoveZone, TypeZone, Typing, NoCommand, Uncounted
  <2>0. list \in Picker(Zones)
    BY PickType, LoadedType
  <2>. HIDE DEF list
  <2>2. Alike(w, w')
    BY <2>0, <2>1 DEF Alike, Page
  <2>. QED
    BY <2>1, <2>2, KeptCount DEF IInv, Typed
<1>. QED
  BY <1>1, <1>2, <1>3, <1>4, <1>5, <1>6, <1>7
-----------------------------------------------------------------------------
(* The answer to a creation: the page learns of the tunnel, or forgets     *)
(* what it asked for; elsewhere the answer is lost.                        *)
LEMMA ReplyCreateInv ==
  ASSUME IInv, NEW c \in flight, NEW here \in BOOLEAN, ReplyCreate(c, here)
  PROVE  IInv'
<1>. w \in Page
  BY DEF IInv, Typed
<1>1. flight' \subseteq flight /\ creates' = creates
  BY DEF ReplyCreate, Takes
<1>2. ASSUME NEW t \in NewTunnels, freed' = freed,
             w' = IF here THEN TunnelCreated(t) ELSE w
      PROVE  IInv'
  <2>1. CASE here
    <3>. DEFINE p == [w EXCEPT !.id = t, !.token = t]
    <3>0. Alike(w, p)
      <4>1. p = [w EXCEPT !.options = w.options, !.id = t, !.token = t]
        BY DEF Page
      <4>2. t \in Tunnels /\ w.options \in SUBSET Tunnels
        BY DEF Page, Tunnels
      <4>. QED
        BY <4>1, <4>2, TunnelsType
    <3>2. w' = [p EXCEPT !.creating = FALSE, !.created = TRUE]
      BY <1>2, <2>1 DEF TunnelCreated, Page
    <3>. HIDE DEF p
    <3>1. w' \in Page /\ w'.created
      BY <3>0, <3>2, MadeType DEF Alike
    <3>. QED
      BY <1>1, <1>2, <3>1 DEF IInv, Typed, Counted
  <2>2. CASE ~here
    BY <1>1, <1>2, <2>2 DEF IInv, Typed, Counted
  <2>. QED
    BY <2>1, <2>2
<1>3. ASSUME w' = IF here THEN [w EXCEPT !.creating = FALSE] ELSE w,
             freed' = IF here THEN Freed ELSE freed
      PROVE  IInv'
  <2>1. CASE here
    <3>1. w' \in Page /\ ~w'.creating /\ w'.created = w.created
      BY ZenonT(60), <1>3, <2>1 DEF Page
    <3>2. Freed \in Nat /\ Counted(w', creates, Freed)
      BY <3>1 DEF IInv, Typed, Counted, Freed
    <3>. QED
      BY <1>1, <1>3, <2>1, <3>1, <3>2 DEF IInv, Typed, Counted
  <2>2. CASE ~here
    BY <1>1, <1>3, <2>2 DEF IInv, Typed, Counted
  <2>. QED
    BY <2>1, <2>2
<1>. QED
  BY <1>2, <1>3 DEF ReplyCreate

(* The other answers.  Accounts come from the API token that was verified. *)
LEMMA ReplyOtherInv ==
  ASSUME IInv, NEW c \in flight, NEW here \in BOOLEAN, ReplyOther(c, here)
  PROVE  IInv'
<1>. w \in Page
  BY DEF IInv, Typed
<1>0. UNCHANGED <<creates, freed>>
  BY DEF ReplyOther, Uncounted
<1>1. ASSUME c.kind = "verify", Verified(c)
      PROVE  IInv'
  <2>1. PICK zonesToo \in BOOLEAN, first \in AccountsOf[c.key] :
          LET only == AccountsOf[c.key] = {first}
              p == [w EXCEPT !.fetching = FALSE,
                             !.accounts = Loaded(AccountsOf[c.key], first),
                             !.picking = @ /\ w.focus # 2,
                             !.acct = IF only THEN first ELSE @]
          IN
          /\ w' = p
          /\ IF only \/ zonesToo
             THEN /\ Within /\ sent' = sent + 1
                  /\ flight' = (flight \ {c}) \cup
                       {Command("zones", w, IF zonesToo THEN None ELSE p.acct, None)}
             ELSE flight' = flight \ {c} /\ UNCHANGED sent
    BY <1>1 DEF Verified
  <2>. DEFINE account == IF AccountsOf[c.key] = {first} THEN first ELSE w.acct
              picks == w.picking /\ w.focus # 2
              list == Loaded(AccountsOf[c.key], first)
  <2>2. w' = [w EXCEPT !.fetching = FALSE, !.accounts = list,
                       !.picking = picks, !.acct = account]
    BY <2>1
  <2>3. AccountsOf[c.key] \in SUBSET Accounts /\ first \in Accounts
    BY <1>1, WizardWiringAssumption DEF IInv, Typed
  <2>4. account \in Accounts \cup {None}
    BY <2>3 DEF Page
  <2>9. picks \in BOOLEAN
    OBVIOUS
  <2>10. list \in Picker(Accounts)
    BY <2>3, LoadedType
  <2>. HIDE DEF picks, account, list
  <2>7. Alike(w, w')
    BY <2>2, <2>4, <2>9, <2>10, AccountsListed
  <2>8. \A d \in flight' : d.kind = "verify" => d.key \in Keys
    BY <2>1 DEF IInv, Typed, Command
  <2>. QED
    BY <1>0, <2>7, <2>8, KeptCount DEF IInv, Typed
<1>2. ASSUME ZonesLoaded(c)
      PROVE  IInv'
  <2>1. Alike(w, w')
    <3>1. PICK found \in SUBSET Zones :
            \E first \in IF found = {} THEN {None} ELSE found :
              w' = [w EXCEPT !.zones = Loaded(found, first),
                             !.zone = IF found = {first} THEN first ELSE @]
      BY <1>2 DEF ZonesLoaded
    <3>2. PICK first \in IF found = {} THEN {None} ELSE found :
            w' = [w EXCEPT !.zones = Loaded(found, first),
                           !.zone = IF found = {first} THEN first ELSE @]
      BY <3>1
    <3>. DEFINE typed == IF found = {first} THEN first ELSE w.zone
                list == Loaded(found, first)
    <3>3. first \in Zones \cup {None} /\ w.zone \in Zones \cup {None}
      BY <3>1, <3>2 DEF Page
    <3>4. typed \in Zones \cup {None} /\ list \in Picker(Zones)
      BY <3>3, LoadedType
    <3>5. w' = [w EXCEPT !.zones = list, !.zone = typed]
      BY <3>2
    <3>. HIDE DEF typed, list
    <3>. QED
      BY <3>4, <3>5, ZonesListed
  <2>2. \A d \in flight' : d.kind = "verify" => d.key \in Keys
    BY <1>2 DEF ZonesLoaded, Command, IInv, Typed
  <2>. QED
    BY <1>0, <2>1, <2>2, KeptCount DEF IInv, Typed
<1>3. ASSUME TunnelsLoaded(c), Takes(c)
      PROVE  IInv'
  <2>. DEFINE found == TunnelsIn(c.acct)
  <2>1. PICK first \in IF found = {} THEN {CreateNew} ELSE found :
          LET p == [w EXCEPT !.listed = TRUE, !.options = found,
                             !.cursor = first]
          IN w' = IF w.focus = 3 THEN Focused(p, 3) ELSE p
    BY <1>3 DEF TunnelsLoaded
  <2>. DEFINE p == [w EXCEPT !.listed = TRUE, !.options = found,
                             !.cursor = first]
  <2>2. found \in SUBSET Tunnels
    BY DEF TunnelsIn, Tunnels
  <2>. HIDE DEF found
  <2>3. Alike(w, p)
    <3>1. first \in Tunnels \cup {CreateNew}
      BY <2>1, <2>2
    <3>2. p \in Page
      BY ZenonT(60), <2>2, <3>1 DEF Page
    <3>3. p.creating = w.creating /\ p.created = w.created
      BY DEF Page
    <3>. QED
      BY <3>2, <3>3 DEF Alike
  <2>4. w' = Focused(p, 3) \/ w' = p
    BY <2>1
  <2>. HIDE DEF p
  <2>5. Alike(w, w')
    <3>1. Alike(p, Focused(p, 3))
      BY <2>3, FocusedAlike DEF Alike
    <3>. QED
      BY <2>3, <2>4, <3>1 DEF Alike
  <2>6. flight' \subseteq flight
    BY <1>3 DEF Takes
  <2>. QED
    BY <1>0, <2>5, <2>6, KeptCount DEF IInv, Typed
<1>4. ASSUME c.tunnel \in TunnelsIn(c.acct),
             w' = [w EXCEPT !.token = c.tunnel], Takes(c)
      PROVE  IInv'
  <2>1. c.tunnel \in Tunnels
    BY <1>4 DEF TunnelsIn, Tunnels
  <2>2. Alike(w, w')
    BY <1>4, <2>1 DEF Alike, Page
  <2>. QED
    BY <1>0, <1>4, <2>2, KeptCount DEF Takes, IInv, Typed
<1>5. ASSUME w' = VerifyFailed \/ UNCHANGED w, Takes(c)
      PROVE  IInv'
  <2>1. Alike(w, w')
    <3>1. CASE w' = VerifyFailed
      <4>1. w' \in Page
        BY <3>1 DEF VerifyFailed, Page
      <4>2. w'.creating = w.creating /\ w'.created = w.created
        BY <3>1 DEF VerifyFailed, Page
      <4>. QED
        BY <4>1, <4>2 DEF Alike
    <3>2. CASE UNCHANGED w
      BY <3>2 DEF Alike
    <3>. QED
      BY <1>5, <3>1, <3>2
  <2>. QED
    BY <1>0, <1>5, <2>1, KeptCount DEF Takes, IInv, Typed
<1>6. ASSUME NoneFound(c)
      PROVE  IInv'
  <2>. DEFINE picks == w.picking /\ w.focus # 2
              list == Loaded({}, None)
  <2>1. w' = [w EXCEPT !.fetching = FALSE, !.accounts = list,
                       !.picking = picks, !.acct = w.acct]
    BY <1>6 DEF NoneFound, Page
  <2>2. list \in Picker(Accounts) /\ picks \in BOOLEAN
    BY LoadedType
  <2>3. w.acct \in Accounts \cup {None}
    BY DEF Page
  <2>. HIDE DEF picks, list
  <2>4. Alike(w, w')
    BY <2>1, <2>2, <2>3, AccountsListed
  <2>5. flight' \subseteq flight
    BY <1>6 DEF NoneFound
  <2>. QED
    BY <1>0, <2>4, <2>5, KeptCount DEF IInv, Typed
<1>. QED
  BY <1>1, <1>2, <1>3, <1>4, <1>5, <1>6 DEF ReplyOther

-----------------------------------------------------------------------------
(* The page is shown, or another one is.                                   *)
LEMMA ShowAlike ==
  ASSUME Typed, NEW n, Show(n)
  PROVE  /\ Alike(w, w')
         /\ \A c \in flight' : c.kind = "verify" => c.key \in Keys
<1>1. CASE pages[n] = "wiring"
  BY <1>1, FocusPageAlike DEF Show
<1>2. CASE pages[n] # "wiring"
  BY <1>2 DEF Show, Alike, Typed
<1>. QED
  BY <1>1, <1>2

(* Leaving the page of role and tier: with another role the page is new,   *)
(* and what it asked for is forgotten.                                     *)
LEMMA AdvanceFromRoleInv ==
  ASSUME IInv, AdvanceFromRole
  PROVE  IInv'
<1>1. CASE choice = built
  <2>1. Show(2) /\ UNCHANGED <<creates, freed>>
    BY <1>1 DEF AdvanceFromRole
  <2>. QED
    BY <2>1, ShowAlike, KeptCount DEF IInv, Typed
<1>2. CASE choice # built
  <2>1. w' = NewPage /\ freed' = Freed /\ UNCHANGED <<creates, flight>>
    BY <1>2 DEF AdvanceFromRole
  <2>2. Freed \in Nat /\ Counted(NewPage, creates, Freed)
    BY NewPageForgets, Forgotten
  <2>. QED
    BY <2>1, <2>2, NewPageForgets DEF IInv, Typed, Counted
<1>. QED
  BY <1>1, <1>2

(* The first state.                                                        *)
LEMMA InitInv == Init => IInv
BY NewPageForgets DEF Init, InitWiring, IInv, Typed, Counted

(* Every step of the wizard keeps the count.                               *)
LEMMA InvStep ==
  ASSUME IInv, [Next]_vars
  PROVE  IInv'
<1>1. CASE OnWiringPage
  BY <1>1, EditKeyInv, EnterKeyInv, EnterTunnelInv, OtherKeysInv
  DEF OnWiringPage
<1>2. CASE AdvanceFromRole
  BY <1>2, AdvanceFromRoleInv
<1>3. CASE Advance
  <2>1. Show(shown + 1) /\ UNCHANGED <<creates, freed>>
    BY <1>3 DEF Advance, Uncounted
  <2>. QED
    BY <2>1, ShowAlike, KeptCount DEF IInv, Typed
<1>4. CASE GoBack
  <2>1. Show(shown - 1) /\ UNCHANGED <<creates, freed>>
    BY <1>4 DEF GoBack, Uncounted
  <2>. QED
    BY <2>1, ShowAlike, KeptCount DEF IInv, Typed
<1>5. ASSUME \/ \E c \in [role : Roles, tier : Tiers] : ChooseRole(c)
             \/ EditForm \/ EnterOnFips
      PROVE  IInv'
  <2>1. UNCHANGED <<w, flight, creates, freed>>
    BY <1>5 DEF ChooseRole, EditForm, EnterOnFips
  <2>. QED
    BY <2>1 DEF IInv, Typed, Counted
<1>6. CASE Confirm
  <2>1. UNCHANGED <<w, creates, freed>>
    BY <1>6 DEF Confirm, Uncounted
  <2>2. \A c \in flight' : c.kind = "verify" => c.key \in Keys
    BY <1>6 DEF Confirm, Command, IInv, Typed
  <2>. QED
    BY <2>1, <2>2 DEF IInv, Typed, Counted
<1>7. ASSUME NEW c \in flight, Reply(c)
      PROVE  IInv'
  <2>1. CASE ConfigWritten(c)
    BY <2>1 DEF ConfigWritten, Takes, Uncounted, IInv, Typed, Counted
  <2>2. Addressee("wiring") \in BOOLEAN
    BY DEF Addressee
  <2>3. CASE ~ConfigWritten(c)
    BY <1>7, <2>2, <2>3, ReplyCreateInv, ReplyOtherInv DEF Reply
  <2>. QED
    BY <2>1, <2>3
<1>8. CASE UNCHANGED vars
  BY <1>8 DEF vars, wiringVars, IInv, Typed, Counted
<1>. QED
  BY <1>1, <1>2, <1>3, <1>4, <1>5, <1>6, <1>7, <1>8 DEF Next

(* However often the user presses Enter, leaves the page and returns, and  *)
(* however slow the API is, the wizard asks for one tunnel, and for        *)
(* another only after an error, another API token or another role.         *)
THEOREM OneTunnelAskedFor == Spec => []CreatesAccounted
<1>1. IInv => CreatesAccounted
  BY DEF IInv, Typed, Counted, CreatesAccounted
<1>. QED
  BY <1>1, InitInv, InvStep, PTL DEF Spec
-----------------------------------------------------------------------------
(* The commands under way.                                                 *)
Commands ==
  [n : 1..Cap, key : Keys \cup {None}, acct : Accounts \cup {None},
   kind : {"verify", "zones", "tunnels", "create", "token", "write"},
   tunnel : Tunnels \cup {None}]

Flights == flight \subseteq Commands /\ sent \in 0..Cap

Chosen == [role : Roles, tier : Tiers]

(* The list of pages, whatever role and tier: the page of role and tier,   *)
(* those of the role, the FIPS options and the review.                     *)
LEMMA PagesAre ==
  ASSUME NEW c \in Chosen
  PROVE  /\ Len(PageList(c)) \in 4..6
         /\ \A i \in 1..Len(PageList(c)) :
              /\ PageList(c)[i] \in PageNames
              /\ PageList(c)[i] = "role" <=> i = 1
              /\ PageList(c)[i] = "review" <=> i = Len(PageList(c))
              /\ PageList(c)[i] = "fips" <=> i = Len(PageList(c)) - 1
<1>. DEFINE Right(q) ==
       /\ Len(q) \in 4..6
       /\ \A i \in 1..Len(q) : /\ q[i] \in PageNames
                               /\ q[i] = "role" <=> i = 1
                               /\ q[i] = "review" <=> i = Len(q)
                               /\ q[i] = "fips" <=> i = Len(q) - 1
<1>1. CASE c.role # "controller"
  <2>1. PageList(c) = <<"role", c.role, "fips", "review">>
    BY <1>1 DEF PageList
  <2>2. c.role \in {"server", "proxy", "client"}
    BY <1>1, WizardAssumption DEF Chosen
  <2>3. Right(<<"role", c.role, "fips", "review">>)
    BY <2>2 DEF PageNames, Forms
  <2>. QED
    BY <2>1, <2>3
<1>2. CASE c.role = "controller" /\ c.tier = "standard"
  <2>1. PageList(c) = <<"role", "wiring", "controller", "fips", "review">>
    BY <1>2 DEF PageList
  <2>2. Right(<<"role", "wiring", "controller", "fips", "review">>)
    BY DEF PageNames, Forms
  <2>. QED
    BY <2>1, <2>2
<1>3. CASE c.role = "controller" /\ c.tier # "standard"
  <2>1. PageList(c) = <<"role", "wiring", "controller", "tier", "fips", "review">>
    BY <1>3 DEF PageList
  <2>2. Right(<<"role", "wiring", "controller", "tier", "fips", "review">>)
    BY DEF PageNames, Forms
  <2>. QED
    BY <2>1, <2>2
<1>. QED
  BY <1>1, <1>2, <1>3

(* All pages applied: the FIPS options last, before them those of the role *)
(* that the list was made for.                                             *)
Before(c) ==
  IF built.role # "controller" THEN Apply(built.role, ApplyRole(c))
  ELSE IF built.tier = "standard"
       THEN ApplyController(ApplyWiring(ApplyRole(c)))
       ELSE ApplyTier(ApplyController(ApplyWiring(ApplyRole(c))))

LEMMA AppliedInOrder ==
  ASSUME built \in Chosen, NEW c
  PROVE  AppliedTo(c) = ApplyFips(Before(c))
<1>1. CASE built.role # "controller"
  <2>1. pages = <<"role", built.role, "fips", "review">>
    BY <1>1 DEF pages, PageList
  <2>2. PageCount = 4 /\ pages[1] = "role" /\ pages[2] = built.role /\ pages[3] = "fips"
    BY <2>1 DEF PageCount
  <2>3. \A d : Apply("role", d) = ApplyRole(d) /\ Apply("fips", d) = ApplyFips(d)
    BY DEF Apply
  <2>. QED
    BY <1>1, <2>2, <2>3 DEF AppliedTo, ApplyNth, Before
<1>2. CASE built.role = "controller" /\ built.tier = "standard"
  <2>1. pages = <<"role", "wiring", "controller", "fips", "review">>
    BY <1>2 DEF pages, PageList
  <2>2. /\ PageCount = 5 /\ pages[1] = "role" /\ pages[2] = "wiring"
        /\ pages[3] = "controller" /\ pages[4] = "fips"
    BY <2>1 DEF PageCount
  <2>3. \A d : /\ Apply("role", d) = ApplyRole(d) /\ Apply("fips", d) = ApplyFips(d)
               /\ Apply("wiring", d) = ApplyWiring(d)
               /\ Apply("controller", d) = ApplyController(d)
    BY DEF Apply
  <2>. QED
    BY <1>2, <2>2, <2>3 DEF AppliedTo, ApplyNth, Before
<1>3. CASE built.role = "controller" /\ built.tier # "standard"
  <2>1. pages = <<"role", "wiring", "controller", "tier", "fips", "review">>
    BY <1>3 DEF pages, PageList
  <2>2. /\ PageCount = 6 /\ pages[1] = "role" /\ pages[2] = "wiring"
        /\ pages[3] = "controller" /\ pages[4] = "tier" /\ pages[5] = "fips"
    BY <2>1 DEF PageCount
  <2>3. \A d : /\ Apply("role", d) = ApplyRole(d) /\ Apply("fips", d) = ApplyFips(d)
               /\ Apply("wiring", d) = ApplyWiring(d)
               /\ Apply("controller", d) = ApplyController(d)
               /\ Apply("tier", d) = ApplyTier(d)
    BY DEF Apply
  <2>. QED
    BY <1>3, <2>2, <2>3 DEF AppliedTo, ApplyNth, Before
<1>. QED
  BY <1>1, <1>2, <1>3

-----------------------------------------------------------------------------
(* What two configurations have in common once pages were applied to both. *)
Fields == {"role", "tier", "key", "acct", "tunnel", "token", "node",
           "enrolment", "cert", "policy", "fips", "skip", "zone", "tname",
           "host", "service"}
Agree(c, d, S) ==
  /\ DOMAIN c = Fields /\ DOMAIN d = Fields /\ S \subseteq Fields
  /\ \A f \in S : c[f] = d[f]

(* The fields that a page may leave as they were.                          *)
Kept == {"token", "tunnel", "tname", "host"}

(* In them c may differ from d only as the command line may.               *)
Explained(c, d) ==
  \A f \in Kept : \/ c[f] = d[f] \/ d[f] = None
                  \/ f = "tname" /\ d[f] \in Words

(* A page that sets none of them explains them as before.                  *)
LEMMA KeptExplained ==
  ASSUME NEW c, NEW d, NEW x, NEW y, Explained(c, d),
         \A f \in Kept : x[f] = c[f] /\ y[f] = d[f]
  PROVE  Explained(x, y)
BY DEF Explained

LEMMA RoleAgrees ==
  ASSUME NEW c, NEW d, NEW S, Agree(c, d, S)
  PROVE  /\ Agree(ApplyRole(c), ApplyRole(d), S \cup {"role", "tier", "skip"})
         /\ ApplyRole(c).role = choice.role
         /\ \A f \in Kept : ApplyRole(d)[f] = d[f]
<1>. DEFINE t == CASE choice.role = "controller" -> choice.tier
                   [] choice.role = "proxy" -> "self_hosted"
                   [] OTHER -> "standard"
            s == Read("role")
<1>1. /\ ApplyRole(c) = [c EXCEPT !.role = choice.role, !.skip = s, !.tier = t]
      /\ ApplyRole(d) = [d EXCEPT !.role = choice.role, !.skip = s, !.tier = t]
  BY DEF ApplyRole
<1>. HIDE DEF t, s
<1>. QED
  BY <1>1 DEF Agree, Fields, Kept

LEMMA FormsAgree ==
  ASSUME NEW c, NEW d, NEW S, Agree(c, d, S)
  PROVE  /\ Agree(ApplyController(c), ApplyController(d), S \cup {"node", "policy"})
         /\ Agree(ApplyServer(c), ApplyServer(d), S \cup {"node", "enrolment"})
         /\ Agree(ApplyProxy(c), ApplyProxy(d),
                  S \cup {"node", "enrolment", "cert", "token"})
         /\ Agree(ApplyAgent(c), ApplyAgent(d), S \cup {"node", "enrolment"})
         /\ Agree(ApplyTier(c), ApplyTier(d), S)
         /\ Agree(ApplyFips(c), ApplyFips(d), S)
<1>1. Agree(ApplyController(c), ApplyController(d), S \cup {"node", "policy"})
  BY DEF Agree, Fields, ApplyController
<1>2. Agree(ApplyServer(c), ApplyServer(d), S \cup {"node", "enrolment"})
  BY DEF Agree, Fields, ApplyServer
<1>3. Agree(ApplyProxy(c), ApplyProxy(d), S \cup {"node", "enrolment", "cert", "token"})
  BY DEF Agree, Fields, ApplyProxy
<1>4. Agree(ApplyAgent(c), ApplyAgent(d), S \cup {"node", "enrolment"})
  BY DEF Agree, Fields, ApplyAgent
<1>5. Agree(ApplyTier(c), ApplyTier(d), S)
  BY DEF Agree, Fields, ApplyTier
<1>6. Agree(ApplyFips(c), ApplyFips(d), S)
  BY DEF Agree, Fields, ApplyFips
<1>. QED
  BY <1>1, <1>2, <1>3, <1>4, <1>5, <1>6

(* The tunnel, its token and its name: found on the page, or left.         *)
LEMMA TunnelAgrees ==
  ASSUME NEW c, NEW d, NEW S, Agree(c, d, S), S \cap Kept = {}
  PROVE  Agree(ApplyTunnel(c), ApplyTunnel(d), S)
<1>1. CASE w.created
  BY <1>1 DEF ApplyTunnel, Agree, Fields
<1>2. CASE ~w.created /\ w.listed /\ w.cursor # CreateNew
  <2>. DEFINE T(x) == [x EXCEPT !.tunnel = w.cursor, !.tname = w.cursor,
                        !.token = IF w.token # None THEN w.token ELSE x.token]
  <2>1. ApplyTunnel(c) = T(c) /\ ApplyTunnel(d) = T(d)
    BY <1>2 DEF ApplyTunnel, Agree, Fields
  <2>2. Agree(T(c), T(d), S)
    BY DEF Agree, Fields, Kept
  <2>. QED
    BY <2>1, <2>2
<1>3. CASE ~w.created /\ ~(w.listed /\ w.cursor # CreateNew)
  BY <1>3 DEF ApplyTunnel
<1>. QED
  BY <1>1, <1>2, <1>3

LEMMA TunnelExplained ==
  ASSUME NEW c, NEW d, Agree(c, d, {}), \A f \in Kept : d[f] = None
  PROVE  LET x == ApplyTunnel(c)
             y == ApplyTunnel(d)
         IN /\ Explained(x, y) /\ y.host = None
            /\ y.tname = x.tname \/ y.tname = None
<1>0. d.token = None /\ d.tunnel = None /\ d.tname = None /\ d.host = None
  BY DEF Kept
<1>1. CASE w.created
  BY <1>0, <1>1 DEF ApplyTunnel, Agree, Fields, Explained, Kept
<1>2. CASE ~w.created /\ w.listed /\ w.cursor # CreateNew
  <2>. DEFINE T(x) == [x EXCEPT !.tunnel = w.cursor, !.tname = w.cursor,
                        !.token = IF w.token # None THEN w.token ELSE x.token]
  <2>1. ApplyTunnel(c) = T(c) /\ ApplyTunnel(d) = T(d)
    BY <1>2 DEF ApplyTunnel, Agree, Fields
  <2>2. /\ T(c).tunnel = T(d).tunnel /\ T(c).tname = T(d).tname
        /\ T(d).host = None
        /\ T(c).token = T(d).token \/ T(d).token = None
    BY <1>0 DEF Agree, Fields
  <2>. HIDE DEF T
  <2>. QED
    BY <2>1, <2>2 DEF Explained, Kept
<1>3. CASE ~w.created /\ ~(w.listed /\ w.cursor # CreateNew)
  BY <1>0, <1>3 DEF ApplyTunnel, Explained, Kept
<1>. QED
  BY <1>1, <1>2, <1>3

(* The name and the hostname, typed or left.                               *)
LEMMA TypedAgrees ==
  ASSUME NEW c, NEW d, NEW S, Agree(c, d, S), S \cap Kept = {}
  PROVE  /\ Agree(NamedTunnel(c), NamedTunnel(d), S)
         /\ Agree(ApplyHostname(c), ApplyHostname(d), S)
<1>1. ASSUME NEW v
      PROVE  /\ Agree([c EXCEPT !.tname = v], d, S)
             /\ Agree(c, [d EXCEPT !.tname = v], S)
             /\ Agree([c EXCEPT !.tname = v], [d EXCEPT !.tname = v], S)
  BY DEF Agree, Fields, Kept
<1>2. Agree(NamedTunnel(c), NamedTunnel(d), S)
  BY <1>1 DEF NamedTunnel
<1>. DEFINE h == <<w.sub, SelectedZone(None)>>
<1>3. Agree([c EXCEPT !.host = h], [d EXCEPT !.host = h], S)
  BY DEF Agree, Fields, Kept
<1>4. Agree(ApplyHostname(c), ApplyHostname(d), S)
  BY <1>3 DEF ApplyHostname
<1>. QED
  BY <1>2, <1>4

LEMMA TypedExplained ==
  ASSUME NEW c, NEW d, Agree(c, d, {}), Explained(c, d), w \in Page,
         d.host = None, d.tname = c.tname \/ d.tname = None
  PROVE  Explained(ApplyHostname(NamedTunnel(c)), ApplyHostname(NamedTunnel(d)))
<1>. DEFINE x == NamedTunnel(c)
            y == NamedTunnel(d)
<1>1. /\ DOMAIN x = Fields /\ DOMAIN y = Fields /\ y.host = None
      /\ \A f \in Kept \ {"tname"} : x[f] = c[f] /\ y[f] = d[f]
  BY DEF NamedTunnel, Agree, Fields, Kept
<1>2. x.tname = y.tname \/ y.tname = None \/ y.tname \in Words
  <2>1. w.name \in Words \cup {None}
    BY DEF Page
  <2>. QED
    BY <2>1 DEF NamedTunnel, Agree, Fields
<1>3. Explained(x, y)
  BY <1>1, <1>2 DEF Explained, Kept
<1>. HIDE DEF x, y
<1>4. CASE w.sub = None
  BY <1>3, <1>4 DEF ApplyHostname, x, y
<1>5. CASE w.sub # None
  <2>. DEFINE h == <<w.sub, SelectedZone(None)>>
  <2>1. ApplyHostname(x) = [x EXCEPT !.host = h] /\ ApplyHostname(y) = [y EXCEPT !.host = h]
    BY <1>5 DEF ApplyHostname
  <2>. HIDE DEF h
  <2>2. Explained([x EXCEPT !.host = h], [y EXCEPT !.host = h])
    BY <1>1, <1>3 DEF Explained, Kept, Fields
  <2>. QED
    BY <2>1, <2>2 DEF x, y
<1>. QED
  BY <1>4, <1>5

LEMMA WiringAgrees ==
  ASSUME NEW c, NEW d, NEW S, Agree(c, d, S), S \cap Kept = {}
  PROVE  /\ Agree(ApplyWiring(c), ApplyWiring(d), S \cup {"key", "zone", "acct", "service"})
         /\ w \in Page /\ (\A f \in Kept : d[f] = None)
              => Explained(ApplyWiring(c), ApplyWiring(d))
<1>. DEFINE a == IF HasAccounts(w) THEN w.accounts.pick ELSE w.acct
            z == SelectedZone(w.zone)
            s == Read("wiring")
            x == ApplyHostname(NamedTunnel(ApplyTunnel(c)))
            y == ApplyHostname(NamedTunnel(ApplyTunnel(d)))
<1>1. /\ ApplyWiring(c) = [x EXCEPT !.key = w.key, !.zone = z, !.acct = a, !.service = s]
      /\ ApplyWiring(d) = [y EXCEPT !.key = w.key, !.zone = z, !.acct = a, !.service = s]
  BY DEF ApplyWiring
<1>2. Agree(x, y, S)
  <2>1. Agree(ApplyTunnel(c), ApplyTunnel(d), S)
    BY TunnelAgrees
  <2>2. Agree(NamedTunnel(ApplyTunnel(c)), NamedTunnel(ApplyTunnel(d)), S)
    BY <2>1, TypedAgrees
  <2>. QED
    BY <2>2, TypedAgrees
<1>3. ASSUME w \in Page, \A f \in Kept : d[f] = None
      PROVE  Explained(x, y)
  <2>1. Agree(c, d, {})
    BY DEF Agree
  <2>2. Agree(ApplyTunnel(c), ApplyTunnel(d), {})
    BY <2>1, TunnelAgrees
  <2>3. /\ Explained(ApplyTunnel(c), ApplyTunnel(d)) /\ ApplyTunnel(d).host = None
        /\ ApplyTunnel(d).tname = ApplyTunnel(c).tname \/ ApplyTunnel(d).tname = None
    BY <1>3, <2>1, TunnelExplained
  <2>. QED
    BY <1>3, <2>2, <2>3, TypedExplained
<1>. HIDE DEF a, z, s, x, y
<1>4. Agree(ApplyWiring(c), ApplyWiring(d), S \cup {"key", "zone", "acct", "service"})
  BY ZenonT(60), <1>1, <1>2 DEF Agree, Fields
<1>5. \A f \in Kept : ApplyWiring(c)[f] = x[f] /\ ApplyWiring(d)[f] = y[f]
  BY <1>1, <1>2 DEF Agree, Fields, Kept
<1>. QED
  BY <1>3, <1>4, <1>5, KeptExplained

LEMMA FieldsAre == DOMAIN DefaultConfig = Fields /\ \A f \in Kept : DefaultConfig[f] = None
BY DEF DefaultConfig, Fields, Kept

(* The command line that the pages now shown make: it does not depend on   *)
(* the FIPS options.                                                       *)
Wanted == Arguments(Before(DefaultConfig))

(* Whatever the configuration held before the pages were applied to it, of *)
(* that the command line has no more than may be left.                     *)
LEMMA OnlyPagesCount ==
  ASSUME built \in Chosen, choice = built, w \in Page,
         NEW c, DOMAIN c = Fields
  PROVE  /\ ComesFrom(Arguments(Before(c)), Wanted)
         /\ DOMAIN Before(c) = Fields /\ DOMAIN Before(DefaultConfig) = Fields
<1>. DEFINE d == DefaultConfig
            x == ApplyRole(c)
            y == ApplyRole(d)
            first == {"role", "tier", "skip"}
<1>0. DOMAIN d = Fields /\ \A f \in Kept : d[f] = None
  BY FieldsAre
<1>. HIDE DEF d
<1>1. Agree(x, y, first) /\ x.role = built.role /\ \A f \in Kept : y[f] = None
  <2>1. Agree(c, d, {})
    BY <1>0 DEF Agree
  <2>2. /\ Agree(x, y, {} \cup {"role", "tier", "skip"}) /\ x.role = choice.role
        /\ \A f \in Kept : y[f] = d[f]
    BY <2>1, RoleAgrees
  <2>3. {} \cup {"role", "tier", "skip"} = first
    OBVIOUS
  <2>. QED
    BY <1>0, <2>2, <2>3
<1>. HIDE DEF x, y
<1>2. CASE built.role = "controller"
  <2>. DEFINE p0 == ApplyWiring(x)
              q0 == ApplyWiring(y)
              p == ApplyController(p0)
              q == ApplyController(q0)
              read == {"role", "tier", "skip", "key", "zone", "acct",
                       "service", "node", "policy"}
  <2>1. Agree(p0, q0, first \cup {"key", "zone", "acct", "service"}) /\ Explained(p0, q0)
    <3>1. first \cap Kept = {}
      BY DEF Kept
    <3>. QED
      BY <1>1, <3>1, WiringAgrees
  <2>. HIDE DEF p0, q0
  <2>2. Agree(p, q, (first \cup {"key", "zone", "acct", "service"}) \cup {"node", "policy"})
    BY <2>1, FormsAgree
  <2>3. Explained(p, q)
    <3>1. \A f \in Kept : p[f] = p0[f] /\ q[f] = q0[f]
      BY <2>1 DEF ApplyController, Agree, Fields, Kept
    <3>. QED
      BY <2>1, <3>1, KeptExplained
  <2>. HIDE DEF p, q
  <2>4. Agree(p, q, read)
    BY <2>2 DEF Agree
  <2>5. Agree(ApplyTier(p), ApplyTier(q), read) /\ Explained(ApplyTier(p), ApplyTier(q))
    <3>1. \A f \in Kept : ApplyTier(p)[f] = p[f] /\ ApplyTier(q)[f] = q[f]
      BY <2>4 DEF ApplyTier, Agree, Fields, Kept
    <3>2. Agree(ApplyTier(p), ApplyTier(q), read)
      BY <2>4, FormsAgree
    <3>3. Explained(ApplyTier(p), ApplyTier(q))
      BY <2>3, <3>1, KeptExplained
    <3>. QED
      BY <3>2, <3>3
  <2>6. Agree(Before(c), Before(d), read) /\ Explained(Before(c), Before(d))
    BY <1>2, <2>3, <2>4, <2>5 DEF Before, x, y, p, q, p0, q0
  <2>7. Before(c).role = "controller"
    <3>1. p0.role = "controller"
      <4>1. x.role = "controller" /\ DOMAIN x = Fields
        BY <1>1, <1>2 DEF Agree
      <4>2. \A v : DOMAIN v = Fields =>
              /\ DOMAIN ApplyTunnel(v) = Fields /\ ApplyTunnel(v).role = v.role
              /\ DOMAIN NamedTunnel(v) = Fields /\ NamedTunnel(v).role = v.role
              /\ DOMAIN ApplyHostname(v) = Fields /\ ApplyHostname(v).role = v.role
        <5>1. \A v : DOMAIN v = Fields =>
                DOMAIN ApplyTunnel(v) = Fields /\ ApplyTunnel(v).role = v.role
          BY DEF ApplyTunnel, Fields
        <5>2. \A v : DOMAIN v = Fields =>
                DOMAIN NamedTunnel(v) = Fields /\ NamedTunnel(v).role = v.role
          BY DEF NamedTunnel, Fields
        <5>3. \A v : DOMAIN v = Fields =>
                DOMAIN ApplyHostname(v) = Fields /\ ApplyHostname(v).role = v.role
          BY DEF ApplyHostname, Fields
        <5>. QED
          BY <5>1, <5>2, <5>3
      <4>. DEFINE v == ApplyHostname(NamedTunnel(ApplyTunnel(x)))
      <4>3. v.role = "controller" /\ DOMAIN v = Fields
        BY <4>1, <4>2
      <4>. HIDE DEF v
      <4>4. ApplyWiring(x).role = v.role
        BY <4>3 DEF ApplyWiring, Fields, v
      <4>. QED
        BY <4>3, <4>4 DEF p0
    <3>2. p.role = "controller"
      BY <2>1, <3>1 DEF ApplyController, Agree, Fields, p
    <3>3. ApplyTier(p).role = "controller"
      BY <2>4, <3>2 DEF Agree, Fields, ApplyTier
    <3>. QED
      BY <1>2, <3>2, <3>3 DEF Before, x, p, p0
  <2>. HIDE DEF Before
  <2>8. Before(d).role = "controller"
    BY <2>6, <2>7 DEF Agree
  <2>9. ASSUME NEW f \in ArgumentsOf("controller")
        PROVE  /\ f \in read \cup Kept
               /\ Before(c)[f] = Before(d)[f] \/ LeftOver(Arguments(Before(d)), f)
    <3>1. f \in read \cup Kept
      BY <2>9 DEF ArgumentsOf, Kept
    <3>2. CASE f \in read
      BY <2>6, <3>1, <3>2 DEF Agree
    <3>3. CASE f \in Kept
      <4>1. \/ Before(c)[f] = Before(d)[f] \/ Before(d)[f] = None
            \/ f = "tname" /\ Before(d)[f] \in Words
        BY <2>6, <3>3 DEF Explained
      <4>2. /\ Arguments(Before(d))[f] = Before(d)[f]
            /\ Arguments(Before(d))["role"] = "controller"
        BY <2>8, <2>9 DEF Arguments, ArgumentsOf
      <4>. QED
        BY <3>3, <4>1, <4>2 DEF LeftOver, Kept
    <3>. QED
      BY <3>1, <3>2, <3>3
  <2>10. ComesFrom(Arguments(Before(c)), Arguments(Before(d)))
    <3>1. /\ Arguments(Before(c)) = [f \in ArgumentsOf("controller") |-> Before(c)[f]]
          /\ Arguments(Before(d)) = [f \in ArgumentsOf("controller") |-> Before(d)[f]]
      BY <2>7, <2>8 DEF Arguments
    <3>. QED
      BY <2>9, <3>1 DEF ComesFrom
  <2>. QED
    BY <2>6, <2>10 DEF Agree, Wanted, d
<1>3. ASSUME NEW read, read = ArgumentsOf(built.role),
             Agree(Before(c), Before(d), read), Before(c).role = built.role
      PROVE  /\ ComesFrom(Arguments(Before(c)), Arguments(Before(d)))
             /\ DOMAIN Before(c) = Fields /\ DOMAIN Before(d) = Fields
  <2>. HIDE DEF Before
  <2>1. "role" \in read
    BY <1>3 DEF ArgumentsOf
  <2>2. /\ Arguments(Before(c)) = [f \in read |-> Before(c)[f]]
        /\ Arguments(Before(d)) = [f \in read |-> Before(d)[f]]
    BY <1>3, <2>1 DEF Arguments, Agree
  <2>. QED
    BY <1>3, <2>2 DEF ComesFrom, Agree
<1>4. CASE built.role \in {"server", "client"}
  <2>. DEFINE read == first \cup {"node", "enrolment"}
  <2>1. /\ Agree(ApplyServer(x), ApplyServer(y), read)
        /\ Agree(ApplyAgent(x), ApplyAgent(y), read)
    BY <1>1, FormsAgree
  <2>2. \/ Before(c) = ApplyServer(x) /\ Before(d) = ApplyServer(y)
        \/ Before(c) = ApplyAgent(x) /\ Before(d) = ApplyAgent(y)
    BY <1>4 DEF Before, Apply, x, y
  <2>3. Before(c).role = built.role
    BY <1>1, <2>2 DEF ApplyServer, ApplyAgent, Agree, Fields
  <2>4. read = ArgumentsOf(built.role)
    BY <1>4 DEF ArgumentsOf
  <2>. HIDE DEF Before, read
  <2>5. Agree(Before(c), Before(d), read)
    BY <2>1, <2>2
  <2>. QED
    BY <1>3, <2>3, <2>4, <2>5 DEF Wanted, d
<1>5. CASE built.role = "proxy"
  <2>. DEFINE read == first \cup {"node", "enrolment", "cert", "token"}
  <2>1. Agree(ApplyProxy(x), ApplyProxy(y), read)
    BY <1>1, FormsAgree
  <2>2. Before(c) = ApplyProxy(x) /\ Before(d) = ApplyProxy(y)
    BY <1>5 DEF Before, Apply, x, y
  <2>3. Before(c).role = "proxy"
    BY <1>1, <1>5, <2>2 DEF ApplyProxy, Agree, Fields
  <2>4. read = ArgumentsOf(built.role)
    BY <1>5 DEF ArgumentsOf
  <2>. HIDE DEF Before, read
  <2>. QED
    BY <1>3, <1>5, <2>1, <2>2, <2>3, <2>4 DEF Wanted, d
<1>. QED
  BY <1>2, <1>4, <1>5, WizardAssumption DEF Chosen

-----------------------------------------------------------------------------
(* Types.  The commands ...                                                *)
LEMMA CommandType ==
  ASSUME Flights, edits \in Nat, Within, NEW p \in Page,
         NEW kind \in {"verify", "zones", "tunnels", "create", "token", "write"},
         NEW acct \in Accounts \cup {None}, NEW t \in Tunnels \cup {None}
  PROVE  Command(kind, p, acct, t) \in Commands /\ sent + 1 \in 0..Cap
<1>1. p.key \in Keys \cup {None}
  BY DEF Page
<1>2. sent + 1 \in 1..Cap /\ sent + 1 \in 0..Cap
  BY WizardWiringAssumption DEF Flights, Within
<1>. QED
  BY <1>1, <1>2 DEF Command, Commands

LEMMA IssueType ==
  ASSUME Flights, edits \in Nat, NEW p \in Page,
         NEW kind \in {"verify", "zones", "tunnels", "create", "token", "write"},
         NEW acct \in Accounts \cup {None}, NEW t \in Tunnels \cup {None},
         Issue(kind, p, acct, t) \/ NoCommand
  PROVE  Flights'
<1>1. CASE NoCommand
  BY <1>1 DEF NoCommand, Flights
<1>2. CASE Issue(kind, p, acct, t)
  BY <1>2, CommandType DEF Issue, Flights
<1>. QED
  BY <1>1, <1>2

LEMMA KeyFlights ==
  ASSUME Flights, edits \in Nat, w \in Page, OnWiringPage
  PROVE  Flights'
<1>1. /\ None \in Accounts \cup {None} /\ None \in Tunnels \cup {None}
      /\ w.acct \in Accounts \cup {None} /\ w.accounts.pick \in Accounts \cup {None}
      /\ w.cursor # CreateNew => w.cursor \in Tunnels \cup {None}
  BY PickType DEF Page
<1>2. CASE EnterKey
  <2>1. Issue("verify", w, None, None) \/ NoCommand
    BY <1>2 DEF EnterKey
  <2>. QED
    BY <1>1, <2>1, IssueType
<1>3. CASE EnterAccount
  <2>1. Issue("zones", w, w.accounts.pick, None) \/ NoCommand
    BY <1>3 DEF EnterAccount
  <2>. QED
    BY <1>1, <2>1, IssueType
<1>4. CASE EnterTunnel
  <2>1. \/ Issue("create", w, w.acct, None) \/ NoCommand
        \/ w.cursor # CreateNew /\ Issue("token", w, w.acct, w.cursor)
    BY <1>4 DEF EnterTunnel, IsCreatingNew
  <2>. QED
    BY <1>1, <2>1, IssueType
<1>5. CASE \/ EnterZone \/ Back
           \/ \E k \in Keys \cup {None} : EditKey(k)
           \/ \E a \in Accounts : MoveAccount(a) \/ TypeAccount(a)
           \/ \E z \in Zones : MoveZone(z)
           \/ \E z \in Zones \cup {None} : TypeZone(z)
           \/ \E t \in Tunnels \cup {CreateNew} : MoveTunnel(t)
           \/ \E n \in Words \cup {None} : TypeName(n) \/ TypeSubdomain(n)
  BY <1>5 DEF EnterZone, Back, TypeName, TypeSubdomain, Typing, EditKey,
     MoveAccount, TypeAccount, MoveZone, TypeZone, MoveTunnel, NoCommand, Flights
<1>. QED
  BY <1>2, <1>3, <1>4, <1>5 DEF OnWiringPage

LEMMA ShowFlights ==
  ASSUME Flights, edits \in Nat, w \in Page, NEW n, Show(n)
  PROVE  Flights'
<1>1. CASE pages[n] = "wiring"
  <2>1. Issue("verify", w, None, None) \/ NoCommand
    BY <1>1 DEF Show, FocusPage
  <2>. QED
    BY <2>1, IssueType
<1>2. CASE pages[n] # "wiring"
  BY <1>2 DEF Show, Flights
<1>. QED
  BY <1>1, <1>2

LEMMA TakenFlights ==
  ASSUME Flights, NEW c, Takes(c)
  PROVE  Flights'
BY DEF Takes, Flights

LEMMA ReplyFlights ==
  ASSUME Flights, edits \in Nat, w \in Page, NEW c \in flight, Reply(c),
         c.kind = "verify" => c.key \in Keys
  PROVE  Flights'
<1>1. ASSUME c.kind = "verify", Verified(c)
      PROVE  Flights'
  <2>1. PICK zonesToo \in BOOLEAN, first \in AccountsOf[c.key] :
          LET only == AccountsOf[c.key] = {first}
              p == [w EXCEPT !.fetching = FALSE,
                             !.accounts = Loaded(AccountsOf[c.key], first),
                             !.picking = @ /\ w.focus # 2,
                             !.acct = IF only THEN first ELSE @]
          IN IF only \/ zonesToo
             THEN /\ Within /\ sent' = sent + 1
                  /\ flight' = (flight \ {c}) \cup
                       {Command("zones", w, IF zonesToo THEN None ELSE p.acct, None)}
             ELSE flight' = flight \ {c} /\ UNCHANGED sent
    BY <1>1 DEF Verified
  <2>. DEFINE only == AccountsOf[c.key] = {first}
              acct == IF zonesToo THEN None ELSE IF only THEN first ELSE w.acct
  <2>2. first \in Accounts /\ w.acct \in Accounts \cup {None}
    BY <1>1, WizardWiringAssumption DEF Page
  <2>3. acct \in Accounts \cup {None}
    BY <2>2
  <2>4. \/ /\ Within /\ sent' = sent + 1
           /\ flight' = (flight \ {c}) \cup {Command("zones", w, acct, None)}
        \/ flight' = flight \ {c} /\ UNCHANGED sent
    BY <2>1 DEF Page
  <2>. HIDE DEF acct
  <2>. QED
    BY <2>3, <2>4, CommandType DEF Flights
<1>2. ASSUME ZonesLoaded(c)
      PROVE  Flights'
  <2>1. w.acct \in Accounts \cup {None}
    BY DEF Page
  <2>. QED
    BY <1>2, <2>1, CommandType DEF ZonesLoaded, Flights
<1>3. CASE Takes(c)
  BY <1>3, TakenFlights
<1>4. ASSUME NoneFound(c)
      PROVE  Flights'
  BY <1>4 DEF NoneFound, Flights
<1>. QED
  BY <1>1, <1>2, <1>3, <1>4 DEF Reply, ConfigWritten, ReplyCreate, ReplyOther

LEMMA AcctFlights ==
  ASSUME Flights, NEW c \in flight
  PROVE  c.acct \in Accounts \cup {None}
BY DEF Flights, Commands

(* ... the configuration ...                                               *)
LEMMA ApplyKeeps ==
  ASSUME NEW p \in PageNames, NEW c, DOMAIN c = Fields
  PROVE  DOMAIN Apply(p, c) = Fields
<1>1. Agree(c, c, {})
  BY DEF Agree
<1>2. /\ DOMAIN ApplyRole(c) = Fields /\ DOMAIN ApplyWiring(c) = Fields
      /\ DOMAIN ApplyController(c) = Fields /\ DOMAIN ApplyServer(c) = Fields
      /\ DOMAIN ApplyProxy(c) = Fields /\ DOMAIN ApplyAgent(c) = Fields
      /\ DOMAIN ApplyTier(c) = Fields /\ DOMAIN ApplyFips(c) = Fields
  <2>1. {} \cap Kept = {}
    OBVIOUS
  <2>. QED
    BY <1>1, <2>1, RoleAgrees, WiringAgrees, FormsAgree DEF Agree
<1>. QED
  BY <1>2 DEF Apply, PageNames, Forms

LEMMA AppliedKeeps ==
  ASSUME built \in Chosen, NEW c, DOMAIN c = Fields
  PROVE  DOMAIN AppliedTo(c) = Fields
<1>1. ASSUME NEW i \in 1..5, NEW d, DOMAIN d = Fields
      PROVE  DOMAIN ApplyNth(i, d) = Fields
  <2>1. CASE i < PageCount
    <3>1. pages[i] \in PageNames
      <4>1. i \in 1..Len(PageList(built))
        BY <2>1, PagesAre DEF PageCount, pages
      <4>. QED
        BY <4>1, PagesAre DEF pages
    <3>. QED
      BY <1>1, <2>1, <3>1, ApplyKeeps DEF ApplyNth
  <2>2. CASE ~(i < PageCount)
    BY <1>1, <2>2 DEF ApplyNth
  <2>. QED
    BY <2>1, <2>2
<1>. DEFINE d1 == ApplyNth(1, c)
            d2 == ApplyNth(2, d1)
            d3 == ApplyNth(3, d2)
            d4 == ApplyNth(4, d3)
<1>2. DOMAIN d1 = Fields
  BY <1>1
<1>. HIDE DEF d1
<1>3. DOMAIN d2 = Fields
  BY <1>1, <1>2
<1>. HIDE DEF d2
<1>4. DOMAIN d3 = Fields
  BY <1>1, <1>3
<1>. HIDE DEF d3
<1>5. DOMAIN d4 = Fields
  BY <1>1, <1>4
<1>. HIDE DEF d4
<1>6. DOMAIN ApplyNth(5, d4) = Fields
  BY <1>1, <1>5
<1>. QED
  BY <1>6 DEF AppliedTo, d1, d2, d3, d4

(* ... and the rest.                                                       *)
LEMMA Shows ==
  ASSUME TypeOK
  PROVE  /\ built \in Chosen /\ PageCount \in 4..6
         /\ Current \in PageNames
         /\ \A i \in 1..PageCount : /\ pages[i] = "role" <=> i = 1
                                    /\ pages[i] = "review" <=> i = PageCount
                                    /\ pages[i] = "fips" <=> i = PageCount - 1
BY PagesAre DEF TypeOK, Chosen, PageCount, pages, Current

(* What only key presses and the answers to creations change.              *)
Placed ==
  /\ choice \in Chosen /\ built \in Chosen /\ shown \in 1..PageCount
  /\ form \in [Forms -> 0..1]
  /\ DOMAIN config = Fields
  /\ review \in [writing : BOOLEAN, written : BOOLEAN]
  /\ edits \in 0..EditCap
  /\ madeIn \in [NewTunnels -> Accounts \cup {None}]

(* The type invariant in parts, now and after a step.                      *)
LEMMA TypeParts ==
  TypeOK <=> /\ w \in Page /\ creates \in Nat /\ freed \in Nat
             /\ Flights /\ Placed
BY FieldsAre DEF TypeOK, Flights, Commands, Placed, Chosen

LEMMA TypePartsNext ==
  TypeOK' <=> /\ w' \in Page /\ creates' \in Nat /\ freed' \in Nat
              /\ Flights' /\ Placed'
BY FieldsAre DEF TypeOK, Flights, Commands, Placed, Chosen

LEMMA PlacedStep ==
  ASSUME TypeOK, [Next]_vars
  PROVE  Placed'
<1>0. Placed
  BY TypeParts
<1>. USE DEF Placed
<1>1. MayEdit => edits + 1 \in 0..EditCap
  BY <1>0, WizardWiringAssumption DEF MayEdit
<1>2. CASE OnWiringPage
  BY <1>0, <1>1, <1>2 DEF OnWiringPage, Unshown, EditKey, EnterKey, EnterZone,
     EnterAccount, EnterTunnel, Back, MoveAccount, TypeAccount, MoveZone,
     TypeZone, MoveTunnel, TypeName, TypeSubdomain, Typing, Uncounted,
     PageCount, pages
<1>3. CASE AdvanceFromRole
  <2>1. DOMAIN config' = Fields
    <3>1. Agree(config, config, {})
      BY <1>0 DEF Agree
    <3>. QED
      BY <1>3, <3>1, RoleAgrees DEF AdvanceFromRole, Agree
  <2>2. built' \in Chosen /\ choice' = choice /\ shown' = 2
    BY <1>0, <1>3 DEF AdvanceFromRole, Show
  <2>3. 2 \in 1..PageCount'
    <3>1. Len(PageList(built')) \in 4..6
      BY <2>2, PagesAre
    <3>. QED
      BY <3>1 DEF PageCount, pages
  <2>4. /\ form' \in [Forms -> 0..1]
        /\ review' \in [writing : BOOLEAN, written : BOOLEAN]
        /\ UNCHANGED <<edits, madeIn>>
    <3>1. UNCHANGED <<edits, madeIn>>
      BY <1>3 DEF AdvanceFromRole
    <3>2. form' \in [Forms -> 0..1]
      BY <1>0, <1>3 DEF AdvanceFromRole, NewForm
    <3>3. review' = review \/ review' = [writing |-> FALSE, written |-> FALSE]
      BY <1>3 DEF AdvanceFromRole
    <3>5. review' \in [writing : BOOLEAN, written : BOOLEAN]
      <4>1. [writing |-> FALSE, written |-> FALSE] \in [writing : BOOLEAN, written : BOOLEAN]
        OBVIOUS
      <4>2. review \in [writing : BOOLEAN, written : BOOLEAN]
        BY <1>0
      <4>. QED
        BY <3>3, <4>1, <4>2
    <3>. QED
      BY <3>1, <3>2, <3>5
  <2>. QED
    BY <1>0, <2>1, <2>2, <2>3, <2>4
<1>4. CASE Advance
  <2>. DEFINE c == Apply(Current, config)
  <2>1. DOMAIN c = Fields
    BY <1>0, Shows, ApplyKeeps
  <2>. HIDE DEF c
  <2>2. config' = AppliedTo(c) \/ config' = c
    BY <1>4 DEF Advance, c
  <2>3. DOMAIN config' = Fields
    BY <1>0, <2>1, <2>2, AppliedKeeps
  <2>4. shown + 1 \in 1..PageCount
    <3>1. shown # PageCount
      BY <1>0, <1>4, Shows DEF Advance, Current
    <3>. QED
      BY <1>0, <3>1, Shows
  <2>. QED
    BY <1>0, <1>4, <2>3, <2>4 DEF Advance, Show, Uncounted, PageCount, pages
<1>5. CASE GoBack
  <2>1. shown - 1 \in 1..PageCount
    BY <1>0, <1>5, Shows DEF GoBack
  <2>. QED
    BY <1>0, <1>5, <2>1 DEF GoBack, Show, Uncounted, PageCount, pages
<1>6. ASSUME NEW c \in Chosen, ChooseRole(c)
      PROVE  Placed'
  BY <1>0, <1>1, <1>6 DEF ChooseRole, PageCount, pages
<1>7. CASE EditForm
  BY <1>0, <1>1, <1>7 DEF EditForm, PageCount, pages
<1>8. CASE EnterOnFips
  <2>1. DOMAIN config' = Fields
    <3>1. DOMAIN AppliedTo(config) = Fields
      BY <1>0, AppliedKeeps
    <3>. QED
      BY <1>8, <3>1 DEF EnterOnFips
  <2>2. shown + 1 \in 1..PageCount
    <3>1. shown # PageCount
      BY <1>0, <1>8, Shows DEF EnterOnFips, Current
    <3>. QED
      BY <1>0, <3>1, Shows
  <2>3. form' \in [Forms -> 0..1]
    BY <1>0, <1>8 DEF EnterOnFips
  <2>. QED
    BY <1>0, <1>1, <1>8, <2>1, <2>2, <2>3 DEF EnterOnFips, PageCount, pages
<1>9. CASE Confirm
  BY <1>0, <1>9 DEF Confirm, Uncounted, PageCount, pages
<1>10. ASSUME NEW c \in flight, Reply(c)
       PROVE  Placed'
  <2>1. CASE ConfigWritten(c)
    BY <1>0, <2>1 DEF ConfigWritten, Uncounted, PageCount, pages
  <2>2. CASE ~ConfigWritten(c)
    <3>1. c.acct \in Accounts \cup {None}
      BY TypeParts, AcctFlights
    <3>2. /\ Unshown /\ edits' = edits
          /\ \/ UNCHANGED madeIn
             \/ \E t \in NewTunnels : madeIn' = [madeIn EXCEPT ![t] = c.acct]
      BY <1>10, <2>2 DEF Reply, ReplyCreate, ReplyOther, Uncounted
    <3>. QED
      BY <1>0, <3>1, <3>2 DEF Unshown, PageCount, pages
  <2>. QED
    BY <2>1, <2>2
<1>11. CASE UNCHANGED vars
  BY <1>0, <1>11 DEF vars, wiringVars, PageCount, pages
<1>. QED
  BY <1>2, <1>3, <1>4, <1>5, <1>6, <1>7, <1>8, <1>9, <1>10, <1>11 DEF Next, Chosen

LEMMA FlightsStep ==
  ASSUME TypeOK, IInv, [Next]_vars
  PROVE  Flights'
<1>0. Flights /\ edits \in Nat /\ w \in Page
  BY TypeParts, WizardWiringAssumption DEF Placed
<1>1. CASE OnWiringPage
  BY <1>0, <1>1, KeyFlights
<1>2. CASE \E n : Show(n)
  BY <1>0, <1>2, ShowFlights
<1>3. CASE Confirm
  <2>1. Issue("write", w, None, None)
    BY <1>3 DEF Confirm, Issue
  <2>. QED
    BY <1>0, <2>1, IssueType
<1>4. ASSUME NEW c \in flight, Reply(c)
      PROVE  Flights'
  BY <1>0, <1>4, ReplyFlights DEF IInv, Typed
<1>5. CASE UNCHANGED <<flight, sent>>
  BY <1>0, <1>5 DEF Flights
<1>6. \/ OnWiringPage \/ (\E n : Show(n)) \/ Confirm
      \/ (\E c \in flight : Reply(c)) \/ UNCHANGED <<flight, sent>>
  BY DEF Next, AdvanceFromRole, Advance, GoBack, ChooseRole, EditForm,
     EnterOnFips, vars, wiringVars
<1>. QED
  BY <1>1, <1>2, <1>3, <1>4, <1>5, <1>6

LEMMA TypeStep ==
  ASSUME TypeOK, IInv, [Next]_vars
  PROVE  TypeOK'
BY InvStep, FlightsStep, PlacedStep, TypePartsNext DEF IInv, Typed

LEMMA InitType == Init => TypeOK
<1>. SUFFICES ASSUME Init
     PROVE  TypeOK
  OBVIOUS
<1>1. w \in Page
  BY NewPageForgets DEF Init, InitWiring
<1>2. Flights /\ creates \in Nat /\ freed \in Nat
  BY WizardWiringAssumption DEF Init, InitWiring, Flights
<1>3. built \in Chosen /\ choice \in Chosen
  BY WizardAssumption DEF Init, Chosen
<1>4. shown \in 1..PageCount
  BY <1>3, PagesAre DEF Init, PageCount, pages
<1>5. Placed
  BY <1>3, <1>4, FieldsAre, WizardWiringAssumption
     DEF Init, InitWiring, Placed, NewForm
<1>. QED
  BY <1>1, <1>2, <1>5, TypeParts

(* Types, of the page, the commands under way and the configuration: the   *)
(* wizard never shows a page past the review (wizard.go:210, advancePage)  *)
(* or one before the first, however the list of pages is rebuilt.          *)
THEOREM TypeCorrect == Spec => []TypeOK
<1>1. Init => TypeOK /\ IInv
  BY InitType, InitInv
<1>2. TypeOK /\ IInv /\ [Next]_vars => (TypeOK /\ IInv)'
  BY TypeStep, InvStep
<1>. QED
  BY <1>1, <1>2, PTL DEF Spec

-----------------------------------------------------------------------------
(* The review page.                                                        *)

(* BuildProvisionCommand reads no FIPS option.                             *)
LEMMA FipsUnread ==
  ASSUME NEW c, DOMAIN c = Fields, NEW v
  PROVE  Arguments([c EXCEPT !.fips = v]) = Arguments(c)
<1>. DEFINE d == [c EXCEPT !.fips = v]
<1>1. \A f \in Fields \ {"fips"} : d[f] = c[f]
  OBVIOUS
<1>2. d.role = c.role /\ "fips" \notin ArgumentsOf(c.role)
  BY <1>1 DEF Fields, ArgumentsOf
<1>3. ArgumentsOf(c.role) \subseteq Fields
  BY DEF ArgumentsOf, Fields
<1>. HIDE DEF d
<1>4. \A f \in ArgumentsOf(c.role) : d[f] = c[f]
  BY <1>1, <1>2, <1>3
<1>5. Arguments(d) = Arguments(c)
  BY <1>2, <1>4 DEF Arguments
<1>. QED
  BY <1>5 DEF d

(* All pages applied, to whatever was there, or to the default.            *)
LEMMA AppliedIsWanted ==
  ASSUME built \in Chosen, choice = built, w \in Page, NEW c, DOMAIN c = Fields
  PROVE  ComesFrom(Arguments(AppliedTo(c)), Wanted)
<1>1. DOMAIN Before(c) = Fields /\ ComesFrom(Arguments(Before(c)), Wanted)
  BY OnlyPagesCount
<1>. HIDE DEF Before
<1>2. AppliedTo(c) = [Before(c) EXCEPT !.fips = Read("fips")]
  BY AppliedInOrder DEF ApplyFips
<1>. QED
  BY <1>1, <1>2, FipsUnread

(* So with what ReviewIsShown compares, now and after a step.              *)
LEMMA DefaultIsWanted ==
  ASSUME built \in Chosen, choice = built, w \in Page
  PROVE  Arguments(AppliedTo(DefaultConfig)) = Wanted
<1>1. DOMAIN Before(DefaultConfig) = Fields
  BY FieldsAre, OnlyPagesCount
<1>. HIDE DEF Before
<1>2. AppliedTo(DefaultConfig) = [Before(DefaultConfig) EXCEPT !.fips = Read("fips")]
  BY AppliedInOrder DEF ApplyFips
<1>. QED
  BY <1>1, <1>2, FipsUnread DEF Wanted

(* It changes only with the wiring page, role and tier, and the other      *)
(* pages but that of the FIPS options.                                     *)
LEMMA WantedKept ==
  ASSUME built \in Chosen, UNCHANGED <<w, choice, built>>,
         \A p \in Forms \ {"fips"} : form'[p] = form[p]
  PROVE  Wanted' = Wanted
<1>1. /\ form'["role"] = form["role"] /\ form'["wiring"] = form["wiring"]
      /\ form'["server"] = form["server"] /\ form'["proxy"] = form["proxy"]
      /\ form'["client"] = form["client"] /\ form'["tier"] = form["tier"]
      /\ form'["controller"] = form["controller"]
  BY DEF Forms
<1>2. ApplyRole(DefaultConfig)' = ApplyRole(DefaultConfig)
  BY <1>1 DEF ApplyRole, Read
<1>3. ApplyWiring(ApplyRole(DefaultConfig))' = ApplyWiring(ApplyRole(DefaultConfig))
  <2>1. ApplyTunnel(ApplyRole(DefaultConfig))' = ApplyTunnel(ApplyRole(DefaultConfig))
    BY <1>2 DEF ApplyTunnel
  <2>. QED
    BY <1>1, <2>1 DEF ApplyWiring, ApplyHostname, NamedTunnel, SelectedZone,
       HasAccounts, HasZones, Read
<1>4. ApplyController(ApplyWiring(ApplyRole(DefaultConfig)))'
        = ApplyController(ApplyWiring(ApplyRole(DefaultConfig)))
  BY <1>1, <1>3 DEF ApplyController, Read
<1>5. ApplyTier(ApplyController(ApplyWiring(ApplyRole(DefaultConfig))))'
        = ApplyTier(ApplyController(ApplyWiring(ApplyRole(DefaultConfig))))
  BY <1>1, <1>4 DEF ApplyTier, Read
<1>6. built.role \in {"server", "proxy", "client"}
      => Apply(built.role, ApplyRole(DefaultConfig))' = Apply(built.role, ApplyRole(DefaultConfig))
  BY <1>1, <1>2 DEF Apply, ApplyServer, ApplyProxy, ApplyAgent, Read
<1>7. Before(DefaultConfig)' = Before(DefaultConfig)
  BY <1>4, <1>5, <1>6, WizardAssumption DEF Before, Chosen
<1>. QED
  BY <1>7 DEF Wanted, Arguments

(* Past the page of role and tier the list of pages is the one made for    *)
(* them, and what is reviewed is what the pages make.                      *)
Ready ==
  /\ Current # "role" => choice = built
  /\ Current = "review" => ComesFrom(Arguments(config), Wanted)

LEMMA ReadyShows ==
  ASSUME TypeOK, Ready
  PROVE  ReviewIsShown
<1>1. Current = "review" => built \in Chosen /\ choice = built /\ w \in Page
  BY Shows DEF Ready, TypeOK
<1>. QED
  BY <1>1, DefaultIsWanted DEF ReviewIsShown, Ready

(* Every step keeps it: at the review page no key changes a page, and no   *)
(* reply is given to the wiring page.                                      *)
LEMMA ReadyStep ==
  ASSUME TypeOK, Ready, [Next]_vars
  PROVE  Ready'
<1>0. /\ Placed /\ built \in Chosen /\ shown \in 1..PageCount
      /\ DOMAIN config = Fields /\ w \in Page
  BY TypeParts DEF Placed
<1>1. ASSUME UNCHANGED <<choice, built, shown, config>>,
             Current = "review" => Wanted' = Wanted
      PROVE  Ready'
  BY <1>1 DEF Ready, Current, pages
<1>2. CASE OnWiringPage
  BY <1>1, <1>2 DEF OnWiringPage, Unshown
<1>3. CASE AdvanceFromRole
  <2>1. choice' = choice /\ built' = choice /\ shown' = 2
    BY <1>3 DEF AdvanceFromRole, Show
  <2>2. pages'[2] # "review"
    <3>1. built' \in Chosen
      BY <1>0, <2>1 DEF Placed
    <3>. QED
      BY <3>1, PagesAre DEF pages
  <2>. QED
    BY <2>1, <2>2 DEF Ready, Current
<1>4. CASE Advance
  <2>1. /\ Current # "role" /\ Current # "review"
        /\ shown' = shown + 1 /\ UNCHANGED <<choice, built, form>>
    BY <1>4 DEF Advance, Show
  <2>2. choice = built
    BY <2>1 DEF Ready
  <2>3. shown + 1 \in 1..PageCount
    <3>1. shown # PageCount
      BY <1>0, <2>1, Shows DEF Current
    <3>. QED
      BY <1>0, <3>1, Shows
  <2>4. Current' = pages[shown + 1]
    BY <2>1 DEF Current, pages
  <2>5. CASE Current' = "review"
    <3>1. shown + 1 = PageCount
      BY <2>3, <2>4, <2>5, Shows
    <3>2. config' = AppliedTo(Apply(Current, config)) /\ w' = w
      BY <1>4, <2>4, <2>5, <3>1 DEF Advance, Show
    <3>3. DOMAIN Apply(Current, config) = Fields
      BY <1>0, Shows, ApplyKeeps
    <3>4. ComesFrom(Arguments(config'), Wanted)
      BY <1>0, <2>2, <3>2, <3>3, AppliedIsWanted
    <3>5. Wanted' = Wanted
      BY <1>0, <2>1, <3>2, WantedKept
    <3>. QED
      BY <2>1, <2>2, <3>4, <3>5 DEF Ready, Arguments, ComesFrom, LeftOver
  <2>6. CASE Current' # "review"
    BY <2>1, <2>2, <2>6 DEF Ready
  <2>. QED
    BY <2>5, <2>6
<1>5. CASE GoBack
  <2>1. shown > 1 /\ shown' = shown - 1 /\ UNCHANGED <<choice, built>>
    BY <1>5 DEF GoBack, Show
  <2>2. Current # "role" /\ shown - 1 \in 1..PageCount /\ shown - 1 # PageCount
    BY <1>0, <2>1, Shows DEF Current
  <2>3. Current' = pages[shown - 1] /\ Current' # "review"
    BY <2>1, <2>2, Shows DEF Current, pages
  <2>. QED
    BY <2>1, <2>2, <2>3 DEF Ready
<1>6. ASSUME NEW c \in Chosen, ChooseRole(c)
      PROVE  Ready'
  <2>1. Current = "role" /\ Current' = Current
    BY <1>6 DEF ChooseRole, Current, pages
  <2>. QED
    BY <2>1 DEF Ready
<1>7. CASE EditForm
  <2>1. Current # "review"
    BY <1>7 DEF EditForm, Forms
  <2>. QED
    BY <1>1, <1>7, <2>1 DEF EditForm
<1>8. CASE EnterOnFips
  <2>1. /\ Current # "role" /\ UNCHANGED <<w, choice, built>>
        /\ form' = [form EXCEPT !.fips = 1 - @]
        /\ config' = [AppliedTo(config) EXCEPT !.fips = <<"fips", 1 - form.fips>>]
    BY <1>8 DEF EnterOnFips
  <2>2. choice = built
    BY <2>1 DEF Ready
  <2>3. /\ DOMAIN AppliedTo(config) = Fields
        /\ ComesFrom(Arguments(AppliedTo(config)), Wanted)
    BY <1>0, <2>2, AppliedIsWanted, AppliedKeeps
  <2>4. ComesFrom(Arguments(config'), Wanted)
    BY <2>1, <2>3, FipsUnread
  <2>5. \A p \in Forms \ {"fips"} : form'[p] = form[p]
    BY <1>0, <2>1 DEF Placed
  <2>6. Wanted' = Wanted
    BY <1>0, <2>1, <2>5, WantedKept
  <2>. QED
    BY <2>1, <2>2, <2>4, <2>6 DEF Ready, Arguments, ComesFrom, LeftOver
<1>9. CASE Confirm
  <2>1. UNCHANGED <<w, choice, built, shown, form, config>>
    BY <1>9 DEF Confirm
  <2>. QED
    BY <1>0, <1>1, <2>1, WantedKept
<1>10. ASSUME NEW c \in flight, Reply(c)
       PROVE  Ready'
  <2>1. UNCHANGED <<choice, built, shown, form, config>>
    BY <1>10 DEF Reply, Unshown, ConfigWritten
  <2>2. Current = "review" => w' = w
    BY <1>10 DEF Reply, ConfigWritten, ReplyCreate, ReplyOther, Addressee
  <2>. QED
    BY <1>0, <1>1, <2>1, <2>2, WantedKept
<1>11. CASE UNCHANGED vars
  <2>1. UNCHANGED <<w, choice, built, shown, form, config>>
    BY <1>11 DEF vars, wiringVars
  <2>. QED
    BY <1>0, <1>1, <2>1, WantedKept
<1>. QED
  BY <1>2, <1>3, <1>4, <1>5, <1>6, <1>7, <1>8, <1>9, <1>10, <1>11 DEF Next, Chosen

LEMMA InitReady == Init => Ready
<1>. SUFFICES ASSUME Init
     PROVE  Ready
  OBVIOUS
<1>1. built \in Chosen /\ choice = built /\ shown = 1
  BY WizardAssumption DEF Init, Chosen
<1>2. Current # "review"
  BY <1>1, PagesAre DEF Current, pages
<1>. QED
  BY <1>1, <1>2 DEF Ready

(* wizard.go:242: whatever was entered before, on whichever pages, for     *)
(* whichever role, and whatever replies come in the meantime, the command  *)
(* line that the review page provisions the node with has what the pages   *)
(* of the role now chosen hold, but for a controller's token, tunnel, name *)
(* of the tunnel and hostname where these pages give none, and for a name  *)
(* typed now that does not replace another.                                *)
THEOREM ReviewShowsPages == Spec => []ReviewIsShown
<1>1. Init => TypeOK /\ IInv /\ Ready
  BY InitType, InitInv, InitReady
<1>2. TypeOK /\ IInv /\ Ready /\ [Next]_vars => (TypeOK /\ IInv /\ Ready)'
  BY TypeStep, InvStep, ReadyStep
<1>3. TypeOK /\ Ready => ReviewIsShown
  BY ReadyShows
<1>. QED
  BY <1>1, <1>2, <1>3, PTL DEF Spec
=============================================================================
