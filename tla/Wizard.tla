------------------------------- MODULE Wizard -------------------------------
(***************************************************************************)
(* The set-up wizard (internal/tui/wizard): a list of pages that depends   *)
(* on role and tier, one configuration that the pages write into, and the  *)
(* review page that writes it to a file and builds the command line of the *)
(* provision script.                                                       *)
(*                                                                         *)
(* Replies of commands go to the page that is shown (wizard.go:258), and   *)
(* are lost on any other.  form[p] is what page p holds in the fields that *)
(* have no say in anything but what is applied: of the first page the      *)
(* switch to skip FIPS, of the wiring page the service behind the          *)
(* hostname.  The rest of the wiring page is WizardWiring's w.             *)
(***************************************************************************)
EXTENDS WizardWiring, Sequences

CONSTANTS
  Roles,    \* of "controller", "server", "proxy", "client"
  Tiers,    \* of "standard", "regional_keyless", "self_hosted"
  TypedIn   \* the tunnel whose token is typed on the proxy page

ASSUME WizardAssumption ==
  /\ "controller" \in Roles
  /\ Roles \subseteq {"controller", "server", "proxy", "client"}
  /\ "standard" \in Tiers
  /\ Tiers \subseteq {"standard", "regional_keyless", "self_hosted"}
  /\ TypedIn \in OldTunnels

VARIABLES
  choice,  \* role and tier selected on the first page
  built,   \* role and tier the list of pages was made for
  shown,   \* index of the page shown
  form,    \* form[p]: what page p holds in its plain fields
  config,  \* the configuration the pages have been applied to
  review   \* of the review page: writing, written

vars == <<wiringVars, choice, built, shown, form, config, review>>

Forms == {"role", "wiring", "server", "proxy", "client", "controller", "tier",
          "fips"}
PageNames == Forms \cup {"review"}

(* rebuildPages.                                                           *)
PageList(c) ==
  IF c.role # "controller" THEN <<"role", c.role, "fips", "review">>
  ELSE IF c.tier = "standard"
       THEN <<"role", "wiring", "controller", "fips", "review">>
       ELSE <<"role", "wiring", "controller", "tier", "fips", "review">>

pages == PageList(built)
PageCount == Len(pages)
Current == pages[shown]
NewForm == [p \in Forms |-> 0]

DefaultConfig ==
  [role |-> None, tier |-> None, key |-> None, acct |-> None, tunnel |-> None,
   token |-> None, node |-> None, enrolment |-> None, cert |-> None,
   policy |-> None, fips |-> None, skip |-> None, zone |-> None,
   tname |-> None, host |-> None, service |-> None]

Init ==
  /\ InitWiring
  /\ choice = [role |-> "controller", tier |-> "standard"]
  /\ built = choice /\ shown = 1
  /\ form = NewForm
  /\ config = DefaultConfig
  /\ review = [writing |-> FALSE, written |-> FALSE]

-----------------------------------------------------------------------------
(* Apply, page by page.  The name of a page in the configuration tells     *)
(* whose fields a value was read from.                                     *)
Read(p) == <<p, form[p]>>

ApplyRole(c) ==
  [c EXCEPT !.role = choice.role, !.skip = Read("role"),
            !.tier = CASE choice.role = "controller" -> choice.tier
                       [] choice.role = "proxy" -> "self_hosted"
                       [] OTHER -> "standard"]

(* Only a created tunnel brings its token with it for certain.  A tunnel   *)
(* stands for its name.                                                    *)
ApplyTunnel(c) ==
  CASE w.created -> [c EXCEPT !.token = w.token, !.tunnel = w.id, !.tname = w.id]
    [] ~w.created /\ w.listed /\ w.cursor # CreateNew ->
         [c EXCEPT !.tunnel = w.cursor, !.tname = w.cursor,
                   !.token = IF w.token # None THEN w.token ELSE @]
    [] OTHER -> c

(* The name that was typed, if the configuration has none yet.             *)
NamedTunnel(c) ==
  IF c.tname = None /\ w.name # None THEN [c EXCEPT !.tname = w.name] ELSE c

SelectedZone(typed) == IF HasZones(w) THEN w.zones.pick ELSE typed

(* Without a subdomain the hostname is left as it was.                     *)
ApplyHostname(c) ==
  IF w.sub # None THEN [c EXCEPT !.host = <<w.sub, SelectedZone(None)>>] ELSE c

ApplyWiring(c) ==
  [ApplyHostname(NamedTunnel(ApplyTunnel(c))) EXCEPT
     !.key = w.key, !.zone = SelectedZone(w.zone),
     !.acct = IF HasAccounts(w) THEN w.accounts.pick ELSE w.acct,
     !.service = Read("wiring")]

ApplyController(c) ==
  [c EXCEPT !.node = Read("controller"), !.policy = Read("controller")]

ApplyServer(c) ==
  [c EXCEPT !.node = Read("server"), !.enrolment = Read("server")]

ApplyProxy(c) ==
  [c EXCEPT !.node = Read("proxy"), !.enrolment = Read("proxy"),
            !.cert = Read("proxy"), !.token = TypedIn]

ApplyAgent(c) ==
  [c EXCEPT !.node = Read("client"), !.enrolment = Read("client")]

ApplyTier(c) ==
  IF choice.tier = "self_hosted" THEN [c EXCEPT !.cert = Read("tier")] ELSE c

ApplyFips(c) == [c EXCEPT !.fips = Read("fips")]

Apply(p, c) ==
  CASE p = "role" -> ApplyRole(c)
    [] p = "wiring" -> ApplyWiring(c)
    [] p = "controller" -> ApplyController(c)
    [] p = "server" -> ApplyServer(c)
    [] p = "proxy" -> ApplyProxy(c)
    [] p = "client" -> ApplyAgent(c)
    [] p = "tier" -> ApplyTier(c)
    [] p = "fips" -> ApplyFips(c)
    [] p = "review" -> c

(* All pages but the last, applied in order: of six pages at the most.     *)
ApplyNth(i, c) == IF i < PageCount THEN Apply(pages[i], c) ELSE c
AppliedTo(c) ==
  ApplyNth(5, ApplyNth(4, ApplyNth(3, ApplyNth(2, ApplyNth(1, c)))))

-----------------------------------------------------------------------------
Unshown == UNCHANGED <<choice, built, shown, form, config, review>>

(* Key presses within the wiring page.                                     *)
OnWiringPage ==
  /\ Current = "wiring"
  /\ \/ \E k \in Keys \cup {None} : EditKey(k)
     \/ EnterKey \/ EnterZone \/ EnterAccount \/ EnterTunnel \/ Back
     \/ \E a \in Accounts : MoveAccount(a) \/ TypeAccount(a)
     \/ \E z \in Zones : MoveZone(z)
     \/ \E z \in Zones \cup {None} : TypeZone(z)
     \/ \E t \in Tunnels \cup {CreateNew} : MoveTunnel(t)
     \/ \E n \in Words \cup {None} : TypeName(n) \/ TypeSubdomain(n)
  /\ Unshown

(* The page shown becomes the n-th, and has the keys.                      *)
Show(n) ==
  /\ shown' = n
  /\ IF pages[n] = "wiring" THEN FocusPage
     ELSE UNCHANGED <<w, flight, sent>>

(* advancePage from the page of role and tier: a list made anew has new    *)
(* pages.                                                                  *)
AdvanceFromRole ==
  /\ Current = "role"
  /\ config' = ApplyRole(config)
  /\ \/ /\ choice = built
        /\ Show(2)
        /\ UNCHANGED <<built, form, review, freed>>
     \/ /\ choice # built
        /\ freed' = Freed
        /\ built' = choice /\ shown' = 2
        /\ form' = [NewForm EXCEPT !["role"] = form["role"]] /\ w' = NewPage
        /\ review' = [writing |-> FALSE, written |-> FALSE]
        /\ UNCHANGED <<flight, sent>>
  /\ UNCHANGED <<choice, edits, madeIn, creates>>

(* advancePage from any other page but the last.  Before the review page   *)
(* is shown, all pages are applied again.                                  *)
Advance ==
  /\ Current \notin {"role", "review"}
  /\ Current = "wiring" => w.focus = 4
  /\ LET c == Apply(Current, config) IN
     config' = IF shown + 1 = PageCount THEN AppliedTo(c) ELSE c
  /\ Show(shown + 1)
  /\ Uncounted
  /\ UNCHANGED <<choice, built, form, review>>

(* handlePageBack at a page's first field; nothing is applied.             *)
GoBack ==
  /\ shown > 1
  /\ Current = "wiring" => w.focus = 0
  /\ Show(shown - 1)
  /\ Uncounted
  /\ UNCHANGED <<choice, built, form, config, review>>

(* The tier is selected for a controller only, and kept for other roles.   *)
ChooseRole(c) ==
  /\ Current = "role" /\ c # choice /\ MayEdit
  /\ c.tier # choice.tier => c.role = "controller" /\ choice.role = c.role
  /\ choice' = c /\ edits' = edits + 1
  /\ UNCHANGED <<w, flight, sent, madeIn, creates, freed, built, shown, form, config, review>>

EditForm ==
  /\ Current \in Forms /\ MayEdit
  /\ Current = "wiring" => w.focus = 4
  /\ form' = [form EXCEPT ![Current] = 1 - @]
  /\ edits' = edits + 1
  /\ UNCHANGED <<w, flight, sent, madeIn, creates, freed, choice, built, shown, config, review>>

(* Enter on the page of FIPS options: the option in focus is toggled, and  *)
(* as the page returns no command, the wizard advances.                    *)
EnterOnFips ==
  /\ Current = "fips" /\ MayEdit
  /\ form' = [form EXCEPT !.fips = 1 - @]
  /\ edits' = edits + 1
  /\ shown' = shown + 1
  /\ config' = [AppliedTo(config) EXCEPT !.fips = <<"fips", 1 - form.fips>>]
  /\ UNCHANGED <<w, flight, sent, madeIn, creates, freed, choice, built, review>>

-----------------------------------------------------------------------------
(* The review page: Enter writes the file, in a command of its own.        *)
Confirm ==
  /\ Current = "review" /\ ~review.written /\ ~review.writing
  /\ Within /\ sent' = sent + 1
  /\ flight' = flight \cup {Command("write", w, None, None)}
  /\ review' = [review EXCEPT !.writing = TRUE]
  /\ Uncounted
  /\ UNCHANGED <<w, choice, built, shown, form, config>>

ConfigWritten(c) ==
  /\ c.kind = "write" /\ Takes(c)
  /\ \E ok \in BOOLEAN :
       review' = IF Current = "review"
                 THEN [writing |-> FALSE, written |-> review.written \/ ok]
                 ELSE review
  /\ Uncounted
  /\ UNCHANGED <<w, choice, built, shown, form, config>>

(* Slip: a reply finds its page although another one is shown.             *)
AlwaysAddressee(p) == TRUE

(* delegateToPage: whether a reply reaches page p.                         *)
Addressee(p) == Current = p

Reply(c) ==
  \/ ConfigWritten(c)
  \/ /\ c.kind # "write"
     /\ \/ ReplyCreate(c, Addressee("wiring"))
        \/ ReplyOther(c, Addressee("wiring"))
     /\ Unshown

Next ==
  \/ OnWiringPage
  \/ AdvanceFromRole \/ Advance \/ GoBack
  \/ \E c \in [role : Roles, tier : Tiers] : ChooseRole(c)
  \/ EditForm \/ EnterOnFips
  \/ Confirm
  \/ \E c \in flight : Reply(c)

Spec == Init /\ [][Next]_vars

-----------------------------------------------------------------------------
TypeOK ==
  /\ w \in Page
  /\ flight \subseteq
       [n : 1..Cap, key : Keys \cup {None}, acct : Accounts \cup {None},
        kind : {"verify", "zones", "tunnels", "create", "token", "write"},
        tunnel : Tunnels \cup {None}]
  /\ sent \in 0..Cap /\ creates \in Nat /\ freed \in Nat
  /\ madeIn \in [NewTunnels -> Accounts \cup {None}]
  /\ choice \in [role : Roles, tier : Tiers]
  /\ built \in [role : Roles, tier : Tiers] /\ shown \in 1..PageCount
  /\ form \in [Forms -> 0..1]
  /\ DOMAIN config = DOMAIN DefaultConfig
  /\ review \in [writing : BOOLEAN, written : BOOLEAN]
  /\ edits \in 0..EditCap

(* dashboard_wiring.go:504: pressing Enter again, going back and forth or  *)
(* leaving the page while the API is slow asks for one tunnel only; a      *)
(* second is asked for only after an error, another API token or another   *)
(* role.                                                                   *)
CreatesAccounted == creates <= 1 + freed

(* BuildProvisionCommand: the command line, by what it reads of the        *)
(* configuration.                                                          *)
ArgumentsOf(role) ==
  {"role", "tier", "node", "skip"} \cup
  (CASE role = "controller" -> {"token", "policy", "host", "service", "key",
                                "zone", "acct", "tunnel", "tname"}
     [] role = "proxy" -> {"token", "cert", "enrolment"}
     [] OTHER -> {"enrolment"})

Arguments(c) == [f \in ArgumentsOf(c.role) |-> c[f]]

(* What the command line may have from pages as they were before: of a     *)
(* controller the token, the tunnel, its name and the hostname, where the  *)
(* pages now give none, and the name also where it is typed now, which     *)
(* does not replace another.                                               *)
LeftOver(now, f) ==
  /\ now["role"] = "controller"
  /\ \/ f \in {"token", "tunnel", "tname", "host"} /\ now[f] = None
     \/ f = "tname" /\ now[f] \in Words

ComesFrom(reviewed, now) ==
  /\ DOMAIN reviewed = DOMAIN now
  /\ \A f \in DOMAIN now : reviewed[f] = now[f] \/ LeftOver(now, f)

(* wizard.go:239, 'Before showing review page, apply all preceding pages': *)
(* what is reviewed, and what the node is provisioned with, is what the    *)
(* pages now hold, but for what LeftOver names.  Nothing else that a page  *)
(* held before it was changed, or dropped with a change of role, is in the *)
(* command line, and no reply changes a page behind the reviewer's back.   *)
ReviewIsShown ==
  Current = "review" =>
    ComesFrom(Arguments(config), Arguments(AppliedTo(DefaultConfig)))

(* dashboard_wiring.go:583, 'Clear fetched token when user switches to a   *)
(* different tunnel': a controller is provisioned with the tunnel it       *)
(* chose and with that tunnel's token.                                     *)
TokenFitsTunnel ==
  Current = "review" /\ config.role = "controller"
    /\ config.token # None /\ config.tunnel # None
    => config.token = config.tunnel
=============================================================================
