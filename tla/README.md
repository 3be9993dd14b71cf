# Verification of cloudflared-fips

TLA+ modules for the stateful parts of this repository, the TLC configurations
that check them, and proofs checked by TLAPS. Paths are relative to the
repository's root. `PROJECT.json` lists the runs, the lines every definition
stands for, the mutants that show each property can fail, and the hazards.

## 1. The system

`cloudflared-fips` packages a FIPS-validated Cloudflare Tunnel with a
compliance dashboard and, in fleet mode, a *controller* that many *nodes*
report to. The parts that keep state:

| Part | Source | State | Operations | What makes it correct |
|---|---|---|---|---|
| Fleet store | `pkg/fleet/sqlite.go` | tables `nodes`, `enrollment_tokens`, `compliance_reports`, `remediation_requests` | one SQL statement per method, under one mutex | each statement atomic; nothing spans two |
| Controller handlers | `internal/dashboard/fleet_handler.go` | policy pointer, event channel, SSE clients | enroll, report, heartbeat, delete, policy, routes, remediation | verdicts match the policy, counts match the report |
| Monitor | `pkg/fleet/monitor.go` | none between passes | list all nodes, mark the stale ones | silent nodes go offline; contact brings them back, and nothing else does |
| Fleet stream | `fleet_handler.go`, `dashboard/src/hooks/useFleetSSE.ts` | per-client channel, the page's list | list, register, fan out, apply | the page shows the registry |
| Enrollment | `pkg/fleet/enrollment.go` | token rows | issue, delete, check-create-count | as many nodes as the token was issued for |
| Remediation | `cmd/agent/main.go`, `pkg/fleet/remediate` | request rows; the agent's batch and job | request, poll, plan, execute, post | what is reported done was done; nothing is forgotten |
| Reporter | `pkg/fleet/reporter.go` | two tickers | report, heartbeat | a live node stays online |
| Auth middleware | `internal/dashboard/auth.go` | failures per address | look for a lockout, record, clear | few tries past the limit; a lockout holds and ends |
| Audit log and stream | `pkg/audit`, `internal/dashboard/handler.go` | ring, file, listeners, per-client channel | log, listen, send a batch, stream | the ring is the log's tail; a client gets each event once |
| Alert manager | `pkg/alerts` | cooldowns, deliveries under way | filter, pace, deliver with retries | alerts are paced, and held back for cause only |
| Tunnel set-up, teardown | `cmd/dashboard/main.go`, `pkg/cfapi` | objects in the Cloudflare account | list, create, record, ingress; find, delete | re-runnable after any failed call; one controller leaves the other's alone |
| Set-up wizard | `internal/tui/wizard` | pages, pending commands, one configuration | discover, choose, create, review, write | what is reviewed is what the pages hold, leftovers aside; one tunnel is asked for |
| Compliance report | `cmd/dashboard/main.go`, `internal/compliance`, `pkg/fipsbackend`, `internal/selftest` | the sections, computed once | scan, listen | sections agree; the dashboard comes up; mending helps |
| Edge checks | `pkg/cfapi/checker.go` | none | one call per item | a failed call is `unknown`, never a pass |
| Client detection | `pkg/clientdetect`, `internal/compliance/proxy.go` | log of inspected hellos, device reports | inspect, classify, report | the verdict follows the classification |

**Interaction.** Nodes talk HTTP to the controller; `net/http` gives each
request a goroutine. Handlers, monitor and broadcaster share the store (one
mutex, held for one statement), the unlocked policy pointer and the buffered
event channel, into which everybody sends without blocking. Only the
broadcaster receives; it copies to per-client channels, again without blocking.
Agents poll for remediation and post results. In front of all of it stands the
auth middleware, which logs to the audit log; the audit log calls the alert
manager and the audit streams. The dashboard computes its report from the host,
the Cloudflare API, the gateway proxy and reported devices before it listens.
The wizard drives the Cloudflare API from asynchronous commands and ends in a
provision script, which calls the dashboard's one-shot tunnel set-up.

**What is hard.** A handler is a sequence of statements with nothing held in
between: other requests, a monitor pass, a policy update, the client hanging up
(which cancels the context of the statements still to come, and their errors
are dropped) or a restart come in anywhere. The monitor decides from a
snapshot. Events are dropped when a channel is full. Agents lose answers and
repeat work. The middleware checks and counts in different lock sections.
Listeners of the audit log are called outside its lock. A set-up makes several
objects at a remote service, any call of which may fail, or succeed and look as
if it had failed. Replies of the wizard's commands carry no trace of what they
were asked for. `PROJECT.json` lists these hazards at the lines where they bite.

## 2. Modules

| Module | Models | Depends on |
|---|---|---|
| `FleetStore` | the node columns the logic reads and one operator per SQL statement | |
| `FleetController` | handlers, monitor, event channel over the store | `FleetStore` |
| `FleetSSE` | the stream and the page, composed with the controller | `FleetController` |
| `EnrollmentQuota` | what a token promises (abstract) | |
| `Enrollment` | tokens and the statements of `Enroll` | instance of `EnrollmentQuota` |
| `Remediation` | request rows, handlers, agent, executor, one node's machine | |
| `DashboardAuth` | the bearer-token middleware, its lockout, the node's key behind it | |
| `AuditTrail` | logger and ring, alert manager with deliveries, audit stream | |
| `TunnelSetup` | set-up and teardown runs of several controllers of one account | |
| `WizardWiring` | the wizard's discovery page and its asynchronous commands | |
| `Wizard` | the list of pages, the configuration, review and writing | `WizardWiring` |
| `LiveChecks` | crypto module, self-tests and the four sections about the host, as functions | |
| `EdgeChecks` | the sections about the zone, client devices and gateway, as functions | `LiveChecks` |
| `Scan` | the dashboard's start-up, its report, and a world that changes around it | `EdgeChecks` |
| `FleetProofs` | theorems about the controller and the stream | `FleetSSE` |
| `*Proofs` | theorems about `Enrollment`, `Remediation`, `DashboardAuth`, `AuditTrail`, `TunnelSetup`, `Wizard`, `Scan` | the module of that name |
| `MC*` | values for the constants | the module of that name |

### How state corresponds

**Fleet.** In `FleetStore`, each column is a function over node ids; `life`
tells ids never handed out, rows and deleted rows apart; `age` is
`now - last_heartbeat` in ticks, saturated one past the offline threshold, so
that time is finite and every comparison of the monitor is exact. Columns that
nothing branches on (name, region, labels, versions, pass and warning counts)
are left out, the failure count is reduced to whether it is zero.

In `FleetController`, `job[h]` is the program counter and the locals of
goroutine `h`, and each action is the code between two points where others can
run: one statement, one read of the policy, one send. `verdict[n]` is what the
running monitor pass still has to write or announce about `n`. The history
variables are read by properties only: `judged` (the report the last verdict
was drawn from), `changed` (the policy was replaced since that evaluation
began), `beaten` (contact since the monitor's snapshot), `mixed` (the last
report overlapped another or was cut short). `Kinds` selects what happens in an
instance, so that each run can spend its states on one question.

In `FleetSSE`, a connection is `closed`, `listed` (list sent, channel not
registered) or `open`; writing to the stream and applying it on the page is one
step, because a TCP stream neither loses nor reorders. `missed` and `crossed`
record the two ways a membership event is known not to arrive: dropped on the
way to this client (full channel, hang-up before the send, fan-out before the
channel is registered), or a `node_joined` that its `node_removed` does not
follow.

In `Enrollment`, `created`, `lost` and `late` are history: nodes created on a
token, uses never counted (request cut short after `CreateNode`, or the row gone
when the count is written), nodes created after the token was deleted or had
expired. `NodeCap` bounds the exploration only.

In `Remediation`, `row` is the request table of one node, `batch` the answer of
the last poll, `job` the request being worked on, `strays` results whose post
timed out and may still land. `host` is what the checks look at. Each action of
a request is a step, so that the machine changes, dies or reboots in between.
Within a second the order of `created_at` is arbitrary, so the agent may take
the requests of a batch in any order. Agent and machine death are one step and
coming back another, which lets the liveness premise name them.

Throughout the fleet modules a read of `fh.policy` sees the current pointer, and
admin and node authentication are guards (a rejected request changes nothing).
Two reports in the same second tie in `GetLatestReport`; the models speak of the
row inserted last. Foreign keys are switched on for one pooled connection only;
the rows that may survive a deletion are unreachable through any handler.

**`DashboardAuth`.** A request takes the tracker's lock at most twice, and an
action is the code from one lock section to the next: `Gate` (look for a lockout,
then the token check, which reads nothing shared), `RecordFailure`,
`ClearFailures`, `NextHandler`. `failTracker[ip]` holds the count and the ticks
since the last failure, saturated one past the window. Behind the middleware
the fleet's handlers read the same header as a node's key. `Address` is what
`extractIP` returns, which behind a proxy is one address for everybody.

**`AuditTrail`.** An event is its position in `journal`, the sequence in the
order of the lock; the file and syslog writes under that lock are part of `Log`,
and their errors are ignored as in the code. `ring`, `ringIdx`, `ringFull` are
the code's. `call[g]` is what the logging goroutine still has to call, from the
copy of the listeners taken under the lock. `OnEvent` is the alert manager's
listener (check and setting of the cooldown are one lock section), `OnStream`
that of one client (a send that does not block). `SendBatch` and `Register` are
two steps, as in `HandleAuditSSE`. No event type that alerts names a resource, so
the cooldown's key is the type. `got`, `lost`, `since` and `heard` are history.

**`TunnelSetup`.** `run[h]` is the process on controller `h`, `tunnels`,
`ingress` and `record` the Cloudflare account. Each API call is carried out, is
refused, or is carried out while its answer is lost; the client makes the same
error of both. A process is killed between any two calls. A list is read one
page deep; `OnePage` says whether that is all of it. `misled` counts the runs
whose list failed or hid some tunnels, `blind` marks a teardown whose query of the
records did. `crossed` marks a teardown that is past its look-up when a set-up
elsewhere points a new record to its tunnel, and a set-up about to configure the
ingress when a teardown takes its record away. A set-up is begun with or without
hostname and zone (`zone`), with or without hostname and service (`serve`):
without the one it makes no record, without the other it leaves the ingress
alone, and says nothing of either (`Named`, `Recorded`).

**`WizardWiring`, `Wizard`.** `w` is the discovery page, `flight` the commands
under way, with the API token and the selection they were issued for; the reply
carries neither, and is handed to the page that is shown when it comes.
Bubble Tea applies one message at a time, so an action is one key press or one
reply. `built` is the role and tier the list of pages was made for, `config` the
one configuration all pages write to, `form[p]` what page `p` holds in plain
fields, those that only `Apply` reads. In the configuration, such a field has
the page and content it was read from; API token, account, zone, tunnel, its name,
its token and the hostname have values of their own, since what `ApplyWiring`
writes to them, or leaves as it was, depends on the case. `ArgumentsOf` lists the
fields that the provision command is built from, by role. An API token may
have no account (`NoneFound`), and may come from `CF_API_TOKEN` (`EnvKey`). A zone
stands for its ID and its domain. `creates` and `freed` are history, `Cap` and
`EditCap` bounds on commands and changes.

**`LiveChecks`, `EdgeChecks`, `Scan`.** Every item is an operator from the facts
`e` to a verdict, with the code's own name and order of cases. A file, a
certificate, an age or a service is the class of it that some check tells apart
(`HostFacts`, `EdgeFacts`). `Scan` computes the sections one after the other in
the order of `main`, then listens; facts that are compiled in or read from flags
(`Fixed`) change only while the process is off, all others at any time.
`Facts` are changed one at a time, to any other value of theirs. The dashboard's
own inspector is installed on no server, so its two items see an empty log.

## 3. Runs

Bounds are the smallest at which the interesting interleavings exist: two or
three goroutines (each hazard is a pair of actors; the monitor, the clock, the
broadcaster and restarts are extra), one node where nodes do not interact,
thresholds of 0 and 1 tick, so that a fresh, a degradable and an offline-due
node are all reachable, channels of one or two so that they overflow.

| Run | Question | Distinct states |
|---|---|---|
| `fleet_policy` | is a stored verdict the policy's verdict, with evaluations interleaved with policy updates? (`VerdictSound`) | 1.98 M |
| `fleet_monitor` | stale snapshots, overlapping reports, hang-ups, deletion, restarts (`TypeOK`, `SettledCounts`, `MonitorMarksOnlyStale`, `OfflineUntilContact`) | 281 k |
| `fleet_liveness` | does a silent node settle offline, and one heard from come back? (`SilentSettlesOffline`, `LiveNodeComesBack`) | 97 k |
| `sse_page` | does the page list the registry? (`SSETypeOK`, `PageMatchesRegistry`) | 105 k |
| `enroll_quota` | accounting, overshoot and the refinement `KeepsQuota` | 1.01 M |
| `remediation` | `TypeOK`, `DoneAsReported`, `AckedNeverRerun`, `EveryRequestAnswered` | 86 k |
| `auth_lockout` | how many tries pass the limit, what ends a lockout, does it end? (`TypeOK`, `TriesBounded`, `LockoutKept`, `LockoutEnds`) | 20 k |
| `audit_trail` | the ring, what a client gets, when alerts go out, who waits (`TypeOK`, `RingIsTail`, `NoneTwice`, `StreamAccounts`, `AlertsPaced`, `HeldBackForCause`, `LogReturns`) | 179 k |
| `tunnel_setup` | can runs be repeated, what do exit codes and silence promise? (`TypeOK`, `DuplicatesBounded`, `QuietSetupServes`, `TeardownClean`, `ServedUntilTouched`) | 1.51 M |
| `wizard` | how often is a tunnel asked for, is the review what the pages hold, and what is left over from before? (`TypeOK`, `CreatesAccounted`, `ReviewIsShown`) | 2.29 M |
| `scan` | do sections agree, does mending help, does the dashboard come up? (`TypeOK`, `BackendAgrees`, `MendingHelps`, `ComesUp`) | 645 k |
| `wizard_token` | is a tunnel configured with its own token? (`TokenFitsTunnel`; violated) | stops at the trace |

**Why the bounds are enough.** `auth_lockout` has three requests against a limit
of two, so that two can pass a check that the third has made obsolete, and a
window of two ticks, so that a record can be one tick from expiry. `audit_trail`
logs three events into a ring of two (the wrap and the first overwritten slot),
with a client's channel of one (it overflows), a cooldown of two ticks within
two ticks of time, and two attempts per delivery. `tunnel_setup` has two
controllers and four runs: a set-up each, then a repeat or teardown of either; its
lists may hide any part. `wizard` has two API tokens, one with an account and in
the environment, one without any, one old tunnel, one new, one zone, one word for
names and subdomains, five commands and changes of which two may be changes:
enough to change the API token or the role while a creation is under way and to
come back, or to clear a name or a subdomain after a review. Moving between
zones or accounts (`MoveZone`, `MoveAccount`) needs two of them and is left to the
proofs, which are for any number. `wizard_token` has two old tunnels to choose
from. `scan` starts from a host where all is well,
one where nothing is and one where nothing was set up, and lets any two facts
change to any value between or during the steps of the scan.

**Deadlock** is looked for everywhere but in `tunnel_setup`, `wizard` and
`wizard_token`: one-shot runs come to an end when their number is used up, and
the user of the wizard may stop pressing keys.

**Fairness.** `FleetController!FairSpec` asks that a goroutine that can run does
run, that the monitor's ticker keeps firing and its loop goes on, that the
broadcaster receives and that time passes: the Go scheduler, `Monitor.Run` and
`BroadcastEvents`. Clients, administrators and crashes owe nothing.
`SilentSettlesOffline` assumes that restarts end, since a controller restarted
before every check of its monitor marks nobody. `LiveNodeComesBack` does not; its
premise is that from some moment on the node stays registered and is heard from
before it is past the offline threshold. `Remediation!FairSpec` asks that
the agent's loop goes on (ticker, `client.Do` gives up after ten seconds,
commands end, which the code does not bound) and, of the network, that a result
posted again and again is stored in the end; `EveryRequestAnswered` assumes that
the agent does not die for ever again.
`DashboardAuth!FairSpec` asks that time passes and that a request under way goes
on; clients need not call, and may call for ever. `AuditTrail!FairSpec` asks that
the goroutine that logs goes on; that clients read or webhooks answer is *not* asked.
`Scan!FairSpec` asks that the goroutine of `main` goes on when it can; the one
wait without a limit is a check that is not enabled, so nothing is assumed of it.
The properties of `TunnelSetup` and `Wizard` are safety properties.

### Where comments and code part

`wizard_token` violates `TokenFitsTunnel`. The comment at
`internal/tui/wizard/dashboard_wiring.go:583` has a fetched token cleared when
the user switches to a different tunnel. The token is cleared when the cursor
moves, but the reply with the token of the tunnel just left may come afterwards;
it is taken as it comes (`:449`), no other is fetched while one is held (`:524`),
and `Apply` pairs it with the tunnel now selected.

Seen while reading, without a run:

- Fleet: a heartbeat between the monitor's snapshot and its write is overwritten
  (`pkg/fleet/monitor.go:87`). A policy update re-evaluates nothing, so routes go
  on trusting old verdicts (`fleet_handler.go:527`). The policy looks for items
  `OS FIPS mode` and `Disk encryption`, the agent reports `OS FIPS Mode` and
  `Disk Encryption` (`fleet_handler.go:261`). Tokens are said to be single-use, but
  check, create and count are not atomic (`enrollment.go:94`). The stream's list is
  read before its channel is registered (`fleet_handler.go:430`) and is not sent
  when it is empty (`:425`). A heartbeat sets a node online and hides the
  `degraded` of its last report until the next one; heartbeats emit no event, so
  the page's status column lags. `--enforcement-mode` does not reach the fleet
  policy. The agent runs its checks once and reports them for ever.
  `PRAGMA foreign_keys` holds for one pooled connection.
- Authentication: the middleware wraps the whole mux, so with a dashboard token a
  node's own key counts as a wrong token and locks its address out
  (`cmd/dashboard/main.go:440`). Pages open streams with `EventSource`, which sends
  no header, and get 401.
- Report: sections are computed once, before the server listens, and served with
  a fresh time (`main.go:224`). `t-8`, `t-11` and `b-4` pass when a file merely
  exists. `ce-3` and `ce-4` are always unknown. `isFIPSCipherName` accepts two CBC
  suites that the approved list lacks (`pkg/cfapi/checker.go:424`). Whether the Go
  module is active is read from the environment only. `gw-1` counts at most what the
  log holds. `OverallStatus` is called by tests only. `cmd/selftest` prints that
  all tests passed although a signature may have failed to verify.
- Streams: the server's `WriteTimeout` ends every stream after 60 s, and each
  audit stream opened again leaves a listener behind (`main.go:451`,
  `handler.go:245`).
- Tunnels: an existing DNS record counts as success wherever it points
  (`main.go:565`). A teardown whose query fails still exits with 0 (`main.go:613`); one
  whose `DeleteTunnel` succeeded with its answer lost never exits with 0 again.
  Lists are read one page deep. Configuring the ingress replaces the whole
  configuration of the tunnel. The client's comment speaks of rate limiting,
  of which there is none.
- Wizard: replies that come while another page is shown are lost, and the page
  waits for ever (`wizard.go:258`). The ingress editor never gets the keys it needs to
  add a rule (`controller_config.go:133`). Enter on the FIPS page toggles an option
  and leaves the page. Once the file is written, changes made by going back are
  not written again. The hostname is written to the configuration only when a
  subdomain is typed (`dashboard_wiring.go:855`), so that one that was cleared, or
  dropped by a change of role and back, is provisioned all the same; tunnel and
  token are left over likewise, and a tunnel's name that is typed again after a
  review is ignored (`:848`).

## 4. Proofs

**`EnrollmentProofs`**, for any tokens, any finite set of goroutines and any
requested limits. `TypeCorrect`, `UsesAccounted`, `OvershootBounded` and
`ImplementsQuota`. The inductive invariant is

    IInv == TypeOK /\ NoPast /\ Accounting /\ BoundedOvershoot /\ LateBound

`BoundedOvershoot` counts the uses already written *and* the goroutines between
check and count, because a bound on `used` alone is not preserved when those
goroutines go on. `LateBound` does the same for nodes created after a token was
closed: each is a goroutine that had passed the check before. `NoPast` says that
a token not issued yet has no uses, which the refinement needs when it is issued.
Each action preserves each conjunct; steps that move one goroutine use the
cardinality lemmas `OneMore` and `OneLess`. `ImplementsQuota` maps node creation
to `Grant`, abandoned requests to `Excuse`, expiry and deletion to `Close` and
everything else to a stutter.

**`FleetProofs`**, for any nodes, goroutines, reports, policies, thresholds,
browsers and channel sizes; three invariants.

- `TypeCorrect`, `VerdictsAreSound`, `MonitorIsRight`, `OfflineNeedsContact`, from

      IInv == TypeOK /\ BlankRows /\ Evaluating /\ VerdictSound
                /\ PendingOffline /\ PendingDegrade

  `Evaluating` is the loop invariant of `evaluateNodeCompliance`: the running
  result is the verdict on the items already looked at, against the policy still
  in force, unless the policy has been replaced. `PendingOffline` carries the
  snapshot's finding to the moment of the write: a node with an offline write
  pending and no contact since is still past the threshold, since time only adds
  to its age. `PendingDegrade` excludes a pending degrade on an offline node,
  which is why a late monitor pass never brings one back. `BlankRows` covers the
  ids without a row.
- `CountsSettle`, from `CountsInv == TypeOK /\ Purposes /\ BlankCounts /\ Settled`.
  The property speaks of rows with no report under way and is not inductive: the
  counts come two statements after the report. `Settled` says, while a report is
  handled alone, which of its statements have taken effect at each point;
  `Purposes` says what each request is about and that it names an id handed out;
  `BlankCounts` covers the ids not handed out, which enrollment turns into rows.
- `StreamTypes` and `PagesMatch`, from

      StreamInv == SSETypeOK /\ Purposes /\ StreamTrue /\ NoLateJoin
                     /\ RemovalFollows /\ PageLosesDeleted /\ PageGetsRegistered

  `StreamTrue`: an event queued anywhere tells the truth about the registry (ids
  are never handed out twice). The last two compare the registry with what a page
  *will* show once its own channel and then the controller's are applied in order
  (`WillShow`): a registered node is there or its `node_joined` is still to be
  sent, a deleted one is not or its `node_removed` is still to be sent.
  `NoLateJoin` and `RemovalFollows` say that nothing brings a deleted node back,
  unless its two events crossed. The lemmas on queues (`ListedAppend` and those
  after it) say what an event put at one end, taken from the other or moved
  from queue to queue does to a page. `StreamObserves` is the composition: a
  behaviour of the controller with streams is one of the controller, so that all
  the theorems above hold with clients too. The assumption `EventCap # 0` is
  `cmd/dashboard/main.go:372`, where the channel is made with 256 places, its
  receiver started before the server listens (`:383`).

**`RemediationProofs`**, for any requests, any lists of actions, any machine and
any number of late posts. `TypeCorrect`, `ReportedWasDone`, `AckedIsFinal`, from

    IInv == TypeOK /\ JobSound /\ AtHandHasRow /\ RowsFaithful
              /\ StraysFaithful /\ RanAllowed /\ AckedIsOver

A result is *faithful* when it follows the request's actions and claims no
command that was not run; it is so while it grows (`JobSound`), while its post
is late (`StraysFaithful`) and once stored (`RowsFaithful`), since `ran` only
grows. `AckedIsOver` says an acknowledged request is completed and neither in the
batch nor at work, and a completed row never returns to pending.
`AtHandHasRow` is the strengthening that makes this inductive: while the node
is registered, the agent has nothing at hand without a row, so the post that is
acknowledged has been stored.

**`DashboardAuthProofs`**, for any finite set of requests, any addresses and
callers, any limit and window. `TypeCorrect`, `TriesAreBounded`, `LockoutIsKept`.
`IInv == TypeOK /\ TriesBounded` is inductive because `TriesBounded` counts, with
the failures recorded, the requests that have passed the look for a lockout and
are about to record: a bound on the count alone is not preserved when they do.
Passing the gate adds one to the sum and needs a count below the limit,
recording moves one from the second summand to the first, expiry and clearing
only take away. `LockoutIsKept` is an action property: one step per action.

**`AuditTrailProofs`**, for any loggers, streams, webhooks and kinds, any
size of ring, batch and channel, any cooldown. Four invariants; the second builds on
the first, and the last two on both:

- `RingInv`: the types of ring and journal, the ring is full when the journal has
  at least its size, the index is the journal's length while it is not, and
  `RingIsTail` itself, which is inductive with these: a write moves every event
  but the oldest one place on (`SlotsMove`). `RingIsAlwaysTail`.
- `Types /\ RingInv`: `TypeCorrect`. The ring is needed because a batch holds what
  the ring holds, and must hold positions of the journal.
- `AlertInv == LastSent /\ AlertsPaced /\ HeldBackForCause`: `LastSent` says that the cooldown of a kind is the time of its last alert
  that was sent, or that none was. `AlertsArePaced` and `HeldBackRightly` are not
  inductive without it, as both speak of pairs of past alerts and the code
  compares with the cooldown only.
- `StreamInv`, for `NothingTwice` and `StreamIsAccounted`: a registered stream is
  among the listeners once (`ListenersOnce`), an event is being announced by one
  goroutine and holds a stream at most once (`CallsOnce`), what is pending for a stream was
  logged after it was registered and has not been sent to it (`PendingNew`), the batch
  lies before the registration and what is live after it (`BatchBefore`,
  `LiveAfter`), and everything after it is accounted for (`AllAccounted`).

Both theorems about streams hold whatever the order in which two goroutines
reach a listener; that the order is the journal's is not claimed, and does not hold.

**`WizardProofs`**, for any roles, tiers, accounts, tunnels and user.

- `OneTunnelAskedFor`: `Spec => []CreatesAccounted`, from
  `IInv == Typed /\ Counted(w, creates, freed)`. `Counted` is the ledger: the
  creations asked for are at most those given up (an error came, or the page was
  made to forget its tunnel) and one more if the page is creating or has created.
  Only `EnterTunnel` asks, when neither holds; whatever ends either gives one up.
- `TypeCorrect`, where the shape of the lists of pages is needed (`PagesAre`: four
  to six, the first for the role, the last two for the FIPS options and the review).
- `ReviewShowsPages`: `Spec => []ReviewIsShown`, from

      Ready == /\ Current # "role" => choice = built
               /\ Current = "review" => ComesFrom(Arguments(config), Wanted)

  The property compares the whole command line with that of the pages applied to a
  *fresh* configuration (`Wanted`), while the one the wizard keeps is written again
  and again, by lists of pages made for other roles too. What the code leaves as it
  was is in the property, as `LeftOver`: of a controller the token, the tunnel, its
  name and the hostname where the pages now give none, and a typed name that does
  not replace another. `AppliedIsWanted` and `OnlyPagesCount` show, page by page,
  that every other field of the command line is written by some page of the
  present list whatever was in it before. The other half is that no reply changes
  a page while the review is shown, since it goes to the page shown (`Addressee`).

**`TunnelSetupProofs`**, for any finite set of controllers, any number of runs
and lists of one page or of many: all five properties of the module, which rest
on three invariants.

- `TunnelsDoNotPileUp`: `IInv == Shape /\ DuplicatesBounded` is inductive since
  `DuplicatesBounded` counts, with the tunnels, the processes about to create
  one. A process joins them only if no tunnel exists, so that the sum is the number
  of such processes, or if its list misled it, so that `misled` grows too.
- `TypeCorrect`: `Typed` has the types, the mode a process is in at each of its
  calls (`Stages`), and that records made here have an id of their own
  (`RecordIds`). `Counts` bounds each counter, the processes that may still add
  to it included, by the runs begun: each run makes one tunnel and one record at
  most.
- `QuietSetupIsGood`, `TeardownIsClean`, `ServedIsKept`: `Follow` says what a
  process may rely on while others work. Records a teardown is about to delete
  point to its tunnel (`Points`); all others that did are gone, unless it was
  blind, was crossed or has failed (`Left`); a set-up past its record has one,
  unless it has warned or was crossed (`HasRecord`).

**`ScanProofs`**, for any hosts, zones and devices, any number of changes and any
size of log.

- `MendingMakesNothingWorse`: `FairSpec => MendingHelps`, item by item. `Better`
  says that every fact is as it was or was mended; the lemmas `Mended...` turn
  that into what a check sees of it, the lemmas `...Helped` go through the items
  of one section. They allow for several facts mended at once.
- `TypeCorrect` and `SectionsAgree`, from `IInv == TypeOK /\ Shaped /\ TunnelSeen
  /\ Agreed`. The sections are computed at different moments of a changing world, so
  `BackendAgrees` needs `TunnelSeen`: what the first section said of the crypto
  module is still the case while the process runs, because what it was drawn from
  is `Fixed`. `Agreed` keeps the agreement when the process has stopped and the
  facts have moved on; `Shaped` tells which items the sections have, so that four
  failures can be counted in the summary.

The proof corrected the property. `MendingHelps` used to count the gateway's being
up as mending; an unreachable gateway makes all its items unknown, and one that
comes back shows its log, with a warning (`gw-3`) if a client in it is not capable. The
run had not met this, as no host started with its gateway down and two changes do
not take it there; such a gateway is now treated as everything else that could
not be seen, and `MCScan` starts one of its hosts with the gateway down.

The assumptions are the named `ASSUME`s of the modules (thresholds ordered,
reports and policies of the right shape, goroutines finite and at least one,
sizes at least one, no stream named like the alert manager's listener, every fact
of a host in the class the checks know).

**Only model-checked:** liveness under fairness, which is outside the prover's reach:
`SilentSettlesOffline`, `LiveNodeComesBack`, `EveryRequestAnswered`,
`LockoutEnds`, `LogReturns`, `ComesUp`. Every other property of a passing run is proved.

## 5. Not modelled

- **WebSocket hub, status TUI, React views**: the hub registers nobody
  (`HandleWS` answers 501); the others redraw the last answer and have no other
  state. Of the React code the fleet stream's list is in `FleetSSE`.
- **IPC server**: one goroutine per connection, each answering from read-only
  data.
- **Manifest, signing, deployment, build information**: reading of files, hashing
  and flags, without state; what the checks make of the results is in
  `LiveChecks`.
- **Provision scripts, packaging, CI, Terraform**: outside the program. The
  scripts are present as the caller that starts and repeats set-up runs.
- **Cache of the API client**: every client of the program lives for one scan, one
  command or one set-up. The one answer it serves is the list of Access
  applications, asked for twice in one scan (`pkg/cfapi/checker.go:65`, `:94`),
  which the checks take to be looked at in one moment anyway; no property
  depends on it.
- **JA4 fingerprints, MDM polling**: no check reads them.
- **Known-answer tests**: the cryptographic computations are one fact of the host
  (`kats`).

Left out of modelled parts: `TunnelSetup` lets no request land after its client
gave up and the next call was made, and leaves out the early exits for a
missing API token or account; `Wizard` holds valid values in its forms and leaves out
what the review page offers after writing, and the wiring page's metrics and MDM
fields, which are in the file and not in the command line; `Scan` takes the items of one section to
look at one moment, puts the files in default places in one class of modes, and
leaves out flags, audit set-up and graceful shutdown; `AuditTrail` ends with the
process, so `Close` does not occur; the reporter's two tickers are arrivals at
any time. `Agent checks` appear as far as remediation plans from them.

What remains worth doing: the safety steps the liveness properties rest on (that
what is waited for stays enabled, that each round comes closer), a composition of
agent checks, reporter and controller, and a run of `TunnelSetup` in which a late
request lands.
