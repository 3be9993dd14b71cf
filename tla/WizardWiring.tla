---------------------------- MODULE WizardWiring ----------------------------
(***************************************************************************)
(* The page of the set-up wizard that discovers accounts, zones and        *)
(* tunnels (internal/tui/wizard/dashboard_wiring.go).                      *)
(*                                                                         *)
(* The page is changed by key presses and by the replies of asynchronous   *)
(* commands, one at a time; commands run concurrently, so replies come in  *)
(* any order.  A reply carries no trace of what it was asked for.  The     *)
(* wizard hands it to the page that is shown when it comes (Wizard).       *)
(***************************************************************************)
EXTENDS Integers, FiniteSets

CONSTANTS
  None,        \* an empty value
  CreateNew,   \* the first option of the tunnel picker
  Keys,        \* Cloudflare API tokens
  EnvKey,      \* the one in CF_API_TOKEN, if any
  Accounts,
  AccountsOf,  \* AccountsOf[k]: the accounts that k gives access to
  OldTunnels,  \* tunnels that exist from the start
  AccountOf,   \* AccountOf[t]: the account of an old tunnel
  NewTunnels,  \* tunnels there may be created
  Zones,       \* each stands for its ID and for its domain
  Words,       \* what is typed for a tunnel's name and for a subdomain
  Cap,         \* bound: commands issued and changes made
  EditCap      \* bound: changes of text fields, of role and forms

ASSUME WizardWiringAssumption ==
  /\ AccountsOf \in [Keys -> SUBSET Accounts]
  /\ EnvKey \in Keys \cup {None}
  /\ AccountOf \in [OldTunnels -> Accounts]
  /\ Cap \in Nat /\ EditCap \in Nat

VARIABLES
  w,       \* the page
  flight,  \* commands under way
  sent,    \* commands issued
  edits,   \* changes made
  madeIn,  \* madeIn[t]: the account a new tunnel was created in
  \* history: what CreatesAccounted counts
  creates, \* creations asked for
  freed    \* creations that the page was made to forget

wiringVars == <<w, flight, sent, edits, madeIn, creates, freed>>

Tunnels == OldTunnels \cup NewTunnels

(* A picker, of what the API was asked for.                                *)
Picker(S) == [loaded : BOOLEAN, found : SUBSET S, pick : S \cup {None}]
Unloaded == [loaded |-> FALSE, found |-> {}, pick |-> None]
Loaded(S, first) == [loaded |-> TRUE, found |-> S, pick |-> first]

(* Fields 4 to the last behave alike; 4 stands for them.                   *)
Page == [focus : 0..4, key : Keys \cup {None}, verified : Keys \cup {None},
         fetching : BOOLEAN, accounts : Picker(Accounts),
         acct : Accounts \cup {None}, zones : Picker(Zones),
         zone : Zones \cup {None}, listed : BOOLEAN, options : SUBSET Tunnels,
         cursor : Tunnels \cup {CreateNew}, picking : BOOLEAN,
         name : Words \cup {None}, sub : Words \cup {None},
         creating : BOOLEAN, created : BOOLEAN,
         id : Tunnels \cup {None}, token : Tunnels \cup {None}]

NewPage ==
  [focus |-> 0, key |-> EnvKey, verified |-> None, fetching |-> FALSE,
   accounts |-> Unloaded, acct |-> None, zones |-> Unloaded, zone |-> None,
   listed |-> FALSE, options |-> {}, cursor |-> CreateNew,
   picking |-> FALSE, name |-> None, sub |-> None, creating |-> FALSE,
   created |-> FALSE, id |-> None, token |-> None]

InitWiring ==
  /\ w = NewPage
  /\ flight = {} /\ sent = 0 /\ edits = 0
  /\ madeIn = [t \in NewTunnels |-> None]
  /\ creates = 0 /\ freed = 0

-----------------------------------------------------------------------------
IsCreatingNew(p) == p.listed /\ p.cursor = CreateNew
HasAccounts(p) == p.accounts.loaded /\ p.accounts.found # {}
HasZones(p) == p.zones.loaded /\ p.zones.found # {}

(* updateFocus: of fields 2 and 3, whether the picker has the keys.        *)
Focused(p, f) ==
  [p EXCEPT !.focus = f,
            !.picking = \/ f = 2 /\ HasAccounts(p)
                        \/ f = 3 /\ p.listed /\ p.cursor # CreateNew]

ResetDiscovery(p) ==
  [p EXCEPT !.fetching = FALSE, !.accounts = Unloaded, !.zones = Unloaded,
            !.listed = FALSE, !.options = {}, !.created = FALSE,
            !.creating = FALSE, !.id = None, !.token = None]

(* Commands remember the API token of the time they were issued.           *)
Command(kind, p, acct, t) ==
  [n |-> sent + 1, kind |-> kind, key |-> p.key, acct |-> acct, tunnel |-> t]

Within == sent + edits < Cap
MayEdit == Within /\ edits < EditCap

Issue(kind, p, acct, t) ==
  /\ Within
  /\ sent' = sent + 1
  /\ flight' = flight \cup {Command(kind, p, acct, t)}

NoCommand == UNCHANGED <<flight, sent>>

Freed == IF w.creating \/ w.created THEN freed + 1 ELSE freed

Uncounted == UNCHANGED <<edits, madeIn, creates, freed>>

(* startDiscovery: verify, list accounts or else zones.                    *)
Discovering(p) == [p EXCEPT !.fetching = TRUE, !.verified = p.key]

(* Focus.                                                                  *)
FocusPage ==
  IF w.key # None /\ ~w.accounts.loaded /\ ~w.fetching
  THEN /\ w' = Discovering(Focused(w, 0))
       /\ Issue("verify", w, None, None)
  ELSE w' = Focused(w, 0) /\ NoCommand

-----------------------------------------------------------------------------
(* Key presses.  A page that has nothing left to advance through hands     *)
(* the key back to the wizard.                                             *)

EditKey(k) ==
  /\ w.focus = 0 /\ k # w.key /\ MayEdit
  /\ edits' = edits + 1
  /\ w' = [(IF w.verified # None THEN ResetDiscovery(w) ELSE w)
             EXCEPT !.key = k]
  /\ freed' = Freed
  /\ NoCommand /\ UNCHANGED <<madeIn, creates>>

EnterKey ==
  /\ w.focus = 0
  /\ IF w.key # None /\ ~w.fetching /\ (~w.accounts.loaded \/ w.key # w.verified)
     THEN /\ w' = Discovering(Focused(ResetDiscovery(w), 1))
          /\ Issue("verify", w, None, None)
          /\ freed' = Freed
     ELSE w' = Focused(w, 1) /\ NoCommand /\ UNCHANGED freed
  /\ UNCHANGED <<edits, madeIn, creates>>

EnterZone ==
  /\ w.focus = 1
  /\ w' = Focused(IF HasZones(w) THEN [w EXCEPT !.zone = w.zones.pick] ELSE w, 2)
  /\ NoCommand /\ Uncounted

(* The zones, and with them the tunnels, are fetched once.                 *)
EnterAccount ==
  /\ w.focus = 2
  /\ LET p == IF HasAccounts(w) THEN [w EXCEPT !.acct = w.accounts.pick] ELSE w IN
     IF HasAccounts(w) /\ ~w.zones.loaded
     THEN w' = Focused(p, 1) /\ Issue("zones", w, w.accounts.pick, None)
     ELSE w' = Focused(p, 3) /\ NoCommand
  /\ Uncounted

(* Slip: a creation under way does not keep from another.                  *)
MayCreateAgain == w.name # None /\ w.acct # None /\ ~w.created

MayCreate == w.name # None /\ w.acct # None /\ ~w.creating /\ ~w.created

EnterTunnel ==
  /\ w.focus = 3
  /\ \/ /\ IsCreatingNew(w) /\ MayCreate
        /\ w' = [w EXCEPT !.creating = TRUE]
        /\ Issue("create", w, w.acct, None)
        /\ creates' = creates + 1
     \/ /\ IsCreatingNew(w) /\ ~MayCreate
        /\ w' = IF w.created THEN Focused(w, 4) ELSE w
        /\ NoCommand /\ UNCHANGED creates
     \/ /\ ~IsCreatingNew(w)
        /\ w' = Focused(w, 4)
        /\ IF w.listed /\ w.acct # None /\ w.token = None
           THEN Issue("token", w, w.acct, w.cursor) ELSE NoCommand
        /\ UNCHANGED creates
  /\ UNCHANGED <<edits, madeIn, freed>>

(* Slip: the first field has one before it.                                *)
BackPastFirst ==
  /\ w' = Focused(w, w.focus - 1)
  /\ NoCommand /\ Uncounted

Back ==
  /\ w.focus > 0
  /\ w' = Focused(w, w.focus - 1)
  /\ NoCommand /\ Uncounted

MoveZone(z) ==
  /\ w.focus = 1 /\ HasZones(w) /\ z \in w.zones.found \ {w.zones.pick}
  /\ w' = [w EXCEPT !.zones = Loaded(w.zones.found, z)]
  /\ NoCommand /\ Uncounted

MoveAccount(a) ==
  /\ w.focus = 2 /\ w.picking /\ a \in w.accounts.found \ {w.accounts.pick}
  /\ w' = [w EXCEPT !.accounts = Loaded(w.accounts.found, a)]
  /\ NoCommand /\ Uncounted

(* Without a list of accounts the account is typed.                        *)
TypeAccount(a) ==
  /\ w.focus = 2 /\ ~HasAccounts(w) /\ a # w.acct
  /\ w' = [w EXCEPT !.acct = a]
  /\ NoCommand /\ Uncounted

(* A token that was fetched is forgotten, unless a tunnel was created.     *)
MoveTunnel(t) ==
  /\ w.focus = 3 /\ w.picking
  /\ t \in (w.options \cup {CreateNew}) \ {w.cursor}
  /\ w' = [w EXCEPT !.cursor = t, !.token = IF w.created THEN @ ELSE None]
  /\ NoCommand /\ Uncounted

(* A change that counts against the bound.                                 *)
Typing ==
  /\ MayEdit /\ edits' = edits + 1
  /\ NoCommand /\ UNCHANGED <<madeIn, creates, freed>>

(* Without a list of zones the zone's ID is typed.                         *)
TypeZone(z) ==
  /\ w.focus = 1 /\ ~HasZones(w) /\ z # w.zone
  /\ w' = [w EXCEPT !.zone = z]
  /\ Typing

(* The first name is not counted.                                          *)
TypeName(n) ==
  /\ w.focus = 3 /\ ~w.picking /\ n # w.name
  /\ w.listed => IsCreatingNew(w)
  /\ w' = [w EXCEPT !.name = n]
  /\ IF w.name = None THEN NoCommand /\ Uncounted ELSE Typing

TypeSubdomain(n) ==
  /\ w.focus = 4 /\ n # w.sub
  /\ w' = [w EXCEPT !.sub = n]
  /\ Typing

-----------------------------------------------------------------------------
(* Replies, to a page that is shown.                                       *)

(* An API token without any account, nor zones to tell one by.             *)
NoneFound(c) ==
  /\ AccountsOf[c.key] = {}
  /\ w' = [w EXCEPT !.fetching = FALSE, !.accounts = Loaded({}, None),
                    !.picking = @ /\ w.focus # 2]
  /\ flight' = flight \ {c} /\ UNCHANGED sent

(* One account is chosen at once.  Zones that came along are handed in as  *)
(* a reply of their own, which cannot fail (its account is None); with     *)
(* several accounts it is open whose they are.                             *)
Verified(c) ==
  \E zonesToo \in BOOLEAN, first \in AccountsOf[c.key] :
    LET only == AccountsOf[c.key] = {first}
        p == [w EXCEPT !.fetching = FALSE,
                       !.accounts = Loaded(AccountsOf[c.key], first),
                       !.picking = @ /\ w.focus # 2,
                       !.acct = IF only THEN first ELSE @]
    IN
    /\ w' = p
    /\ IF only \/ zonesToo
       THEN /\ Within /\ sent' = sent + 1
            /\ flight' = (flight \ {c}) \cup
                 {Command("zones", w, IF zonesToo THEN None ELSE p.acct, None)}
       ELSE flight' = flight \ {c} /\ UNCHANGED sent

VerifyFailed == [w EXCEPT !.fetching = FALSE]

(* Any zones may be found, some if they came along; one is filled in at    *)
(* once.  Tunnels follow, once.                                            *)
ZonesLoaded(c) ==
  /\ \E found \in SUBSET Zones :
       \E first \in IF found = {} THEN {None} ELSE found :
         /\ c.acct = None => found # {}
         /\ w' = [w EXCEPT !.zones = Loaded(found, first),
                           !.zone = IF found = {first} THEN first ELSE @]
  /\ IF w.acct # None /\ ~w.listed
     THEN /\ Within /\ sent' = sent + 1
          /\ flight' = (flight \ {c}) \cup
               {Command("tunnels", w, w.acct, None)}
     ELSE flight' = flight \ {c} /\ UNCHANGED sent

TunnelsIn(a) ==
  {t \in OldTunnels : AccountOf[t] = a} \cup {t \in NewTunnels : madeIn[t] = a}

TunnelsLoaded(c) ==
  LET found == TunnelsIn(c.acct) IN
  \E first \in IF found = {} THEN {CreateNew} ELSE found :
    LET p == [w EXCEPT !.listed = TRUE, !.options = found, !.cursor = first]
    IN w' = IF w.focus = 3 THEN Focused(p, 3) ELSE p

TunnelCreated(t) ==
  [w EXCEPT !.creating = FALSE, !.created = TRUE, !.token = t, !.id = t]

Takes(c) == flight' = flight \ {c} /\ UNCHANGED sent

(* The API refuses what the token gives no access to.                      *)
Permitted(c) == c.key # None /\ c.acct \in AccountsOf[c.key]

(* A lost answer is an error to the page.                                  *)
ReplyCreate(c, shown) ==
  /\ c.kind = "create" /\ Takes(c)
  /\ \/ /\ \E t \in NewTunnels :
             /\ madeIn[t] = None /\ Permitted(c)
             /\ madeIn' = [madeIn EXCEPT ![t] = c.acct]
             /\ w' = IF shown THEN TunnelCreated(t) ELSE w
        /\ UNCHANGED freed
     \/ /\ \/ UNCHANGED madeIn
           \/ \E t \in NewTunnels :
                /\ madeIn[t] = None /\ Permitted(c)
                /\ madeIn' = [madeIn EXCEPT ![t] = c.acct]
        /\ w' = IF shown THEN [w EXCEPT !.creating = FALSE] ELSE w
        /\ freed' = IF shown THEN Freed ELSE freed
  /\ UNCHANGED <<edits, creates>>

(* Errors of zones, tunnels and tokens are shown and change nothing else.  *)
ReplyOther(c, shown) ==
  /\ c.kind # "create"
  /\ \/ /\ shown /\ c.kind = "verify" /\ (Verified(c) \/ NoneFound(c))
     \/ /\ shown /\ c.kind = "verify" /\ w' = VerifyFailed /\ Takes(c)
     \/ /\ shown /\ c.kind = "zones" /\ ZonesLoaded(c)
     \/ /\ shown /\ c.kind = "tunnels" /\ Permitted(c)
        /\ TunnelsLoaded(c) /\ Takes(c)
     \/ /\ shown /\ c.kind = "token" /\ c.tunnel \in TunnelsIn(c.acct)
        /\ Permitted(c)
        /\ w' = [w EXCEPT !.token = c.tunnel] /\ Takes(c)
     \/ /\ \/ ~shown
           \/ c.kind \in {"tunnels", "token"}
           \/ c.kind = "zones" /\ c.acct # None
        /\ UNCHANGED w /\ Takes(c)
  /\ Uncounted
=============================================================================
