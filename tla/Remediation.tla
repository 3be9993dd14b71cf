---------------------------- MODULE Remediation ----------------------------
(***************************************************************************)
(* Controller-driven remediation of one node: the request rows             *)
(* (pkg/fleet/sqlite.go), their handlers                                   *)
(* (internal/dashboard/fleet_handler.go), the agent that polls for them    *)
(* (cmd/agent/main.go) and the Executor (pkg/fleet/remediate/executor.go). *)
(*                                                                         *)
(* The agent is one goroutine: poll, then for each request of the answer   *)
(* run the checks, plan, execute, post the result.  It keeps nothing on    *)
(* disk and looks at no status code, so that a request whose result did    *)
(* not arrive is simply there again at the next poll.                      *)
(***************************************************************************)
EXTENDS Integers, Sequences, FiniteSets

CONSTANTS
  Requests,   \* ids of remediation requests
  Body,       \* Body[r]: what the administrator asks for, [actions, dry]
  Machines,   \* the states the node's machine may start in
  StrayCap    \* bound: posts the agent gave up on that are still under way

Automatic == {"enable_os_fips", "install_warp", "connect_warp"}
Manual == {"enable_disk_encryption", "enroll_mdm"}
Actions == Automatic \cup Manual \cup {"fix_min_tls"}

Host == [fips : {"off", "next_boot", "on"},
         warp : {"absent", "off", "connected"},
         disk : BOOLEAN, mdm : BOOLEAN]

ASSUME RemediationAssumption ==
  /\ Body \in [Requests -> [actions : Seq(Actions), dry : BOOLEAN]]
  /\ \A r \in Requests : Body[r].actions # <<>>   \* else answered 400
  /\ Machines \subseteq Host
  /\ StrayCap \in Nat

VARIABLES
  registered,  \* the node has its row, so its API key is accepted
  row,         \* row[r]: the request's row, or NoRow
  host,        \* what the agent's checks look at on the machine
  batch,       \* requests of the last poll the agent has not come to yet
  job,         \* the request being worked on
  strays,      \* posted results the agent no longer waits for
  \* history variables: read by properties only
  ran,         \* ran[r]: actions carried out on the host for r
  acked        \* acked[r]: the agent was told that r's result is stored

agentVars == <<batch, job>>
historyVars == <<ran, acked>>
vars == <<registered, row, host, batch, job, strays, historyVars>>

(* "executing" is set while a command runs and is never to be posted.      *)
Outcomes == {"pending", "success", "failed", "needs_reboot", "manual_only",
             "skipped"}
Results == Seq([action : Actions, outcome : Outcomes])

NoRow == [state |-> "none"]
Idle == [pc |-> "idle"]
Down == [pc |-> "down"]   \* the agent is not running
Row == [state : {"pending", "completed"}, result : Results]
Job == [pc : {"act", "post", "await"}, req : Requests, plan : SUBSET Actions,
        result : Results]

TypeOK ==
  /\ registered \in BOOLEAN
  /\ row \in [Requests -> {NoRow} \cup Row]
  /\ host \in Host
  /\ batch \subseteq Requests
  /\ job \in {Idle, Down} \cup Job
  /\ strays \subseteq [req : Requests, result : Results]
  /\ ran \in [Requests -> SUBSET Actions]
  /\ acked \in [Requests -> BOOLEAN]

Init ==
  /\ registered = TRUE
  /\ row = [r \in Requests |-> NoRow]
  /\ host \in Machines
  /\ batch = {}
  /\ job = Idle
  /\ strays = {}
  /\ ran = [r \in Requests |-> {}]
  /\ acked = [r \in Requests |-> FALSE]

-----------------------------------------------------------------------------
(* The controller.                                                         *)

(* HandleRequestRemediation.                                               *)
RequestRemediation(r) ==
  /\ registered
  /\ row[r] = NoRow
  /\ row' = [row EXCEPT ![r] = [state |-> "pending", result |-> <<>>]]
  /\ UNCHANGED <<registered, host, agentVars, strays, historyVars>>

(* HandleDeleteNode, the requests cascaded.                                *)
DeleteNode ==
  /\ registered
  /\ registered' = FALSE
  /\ row' = [r \in Requests |-> NoRow]
  /\ UNCHANGED <<host, agentVars, strays, historyVars>>

(* Slip: GetPendingRemediations without its test of the status.            *)
AllOfNode == {r \in Requests : row[r] # NoRow}

GetPendingRemediations == {r \in Requests : row[r].state = "pending"}

(* Slip: the result is stored and the status stays.                        *)
ResultStoredOnly(r, result) ==
  row' = IF row[r] = NoRow THEN row ELSE [row EXCEPT ![r].result = result]

(* Whatever the row's status was: a later result replaces an earlier one.  *)
CompleteRemediation(r, result) ==
  row' = IF row[r] = NoRow THEN row
         ELSE [row EXCEPT ![r].state = "completed", ![r].result = result]

-----------------------------------------------------------------------------
(* The Executor.                                                           *)

(* RunChecks and Plan: an action for each check that does not pass.        *)
Plan ==
     (IF host.fips # "on" THEN {"enable_os_fips"} ELSE {})
  \cup (CASE host.warp = "absent" -> {"install_warp"}
          [] host.warp = "off" -> {"connect_warp"}
          [] OTHER -> {})
  \cup (IF host.disk THEN {} ELSE {"enable_disk_encryption"})
  \cup (IF host.mdm THEN {} ELSE {"enroll_mdm"})

(* Slip: Execute does not look at the request's dry_run.                   *)
CarriesOutAnyway(a) == a \in job.plan \cap Automatic

CarriesOut(a) == a \in job.plan \cap Automatic /\ ~Body[job.req].dry

NotCarriedOut(a) ==
  IF a \notin job.plan THEN "skipped"
  ELSE IF a \in Manual THEN "manual_only"
  ELSE "pending"

Command(outcome, machine) == [outcome |-> outcome, host |-> machine]

(* Slip: a command's status is copied before the command has ended.        *)
OutcomeLeftOpen(a) ==
  {Command("failed", host), Command("executing", host)}

(* What a command may come to, on the machine as it now is.                *)
Commands(a) ==
  {Command("failed", host)} \cup
  CASE a = "enable_os_fips" ->
         {IF host.fips = "on" THEN Command("success", host)
          ELSE Command("needs_reboot", [host EXCEPT !.fips = "next_boot"])}
    [] a = "install_warp" ->
         {Command("success", IF host.warp = "absent"
                             THEN [host EXCEPT !.warp = "off"] ELSE host)}
    [] a = "connect_warp" ->
         IF host.warp = "absent" THEN {}
         ELSE {Command("success", [host EXCEPT !.warp = "connected"])}

-----------------------------------------------------------------------------
(* The agent.                                                              *)

(* A poll that is answered; one that is lost changes nothing.              *)
PollAnswered ==
  /\ job = Idle
  /\ batch = {}
  /\ registered
  /\ batch' = GetPendingRemediations
  /\ UNCHANGED <<registered, row, host, job, strays, historyVars>>

(* The answer is ordered by created_at, which is in whole seconds.         *)
RequestStarted ==
  \E r \in batch :
    /\ job = Idle
    /\ batch' = batch \ {r}
    /\ job' = [pc |-> "act", req |-> r, plan |-> Plan, result |-> <<>>]
    /\ UNCHANGED <<registered, row, host, strays, historyVars>>

NextAction == Body[job.req].actions[Len(job.result) + 1]
Recorded(outcome) ==
  LET result == Append(job.result, [action |-> NextAction,
                                    outcome |-> outcome]) IN
  job' = [job EXCEPT !.result = result,
                     !.pc = IF Len(result) = Len(Body[job.req].actions)
                            THEN "post" ELSE "act"]

ActionPassedOver ==
  /\ job.pc = "act"
  /\ ~CarriesOut(NextAction)
  /\ Recorded(NotCarriedOut(NextAction))
  /\ UNCHANGED <<registered, row, host, batch, strays, historyVars>>

ActionCarriedOut ==
  /\ job.pc = "act"
  /\ CarriesOut(NextAction)
  /\ \E c \in Commands(NextAction) :
       /\ Recorded(c.outcome)
       /\ host' = c.host
  /\ ran' = [ran EXCEPT ![job.req] = @ \cup {NextAction}]
  /\ UNCHANGED <<registered, row, batch, strays, acked>>

(* HandlePostRemediationResult, answered or with its answer lost.  An API  *)
(* key that is gone, or a request that is gone, stores nothing.            *)
ResultStored ==
  /\ job.pc = "post"
  /\ registered
  /\ CompleteRemediation(job.req, job.result)
  /\ \/ job' = Idle /\ acked' = [acked EXCEPT ![job.req] = TRUE]
     \/ job' = [job EXCEPT !.pc = "await"] /\ UNCHANGED acked
  /\ UNCHANGED <<registered, host, batch, strays, ran>>

(* Answered 403, 404 or 500: the agent goes on as if it had been a 200.    *)
ResultRefused ==
  /\ job.pc = "post"
  /\ job' = Idle
  /\ UNCHANGED <<registered, row, host, batch, strays, historyVars>>

(* Ten seconds without an answer; the post may still be under way.         *)
PostTimesOut ==
  /\ job.pc \in {"post", "await"}
  /\ job' = Idle
  /\ strays' \in IF job.pc = "post" /\ Cardinality(strays) < StrayCap
                 THEN {strays, strays \cup {[req |-> job.req,
                                             result |-> job.result]}}
                 ELSE {strays}
  /\ UNCHANGED <<registered, row, host, batch, historyVars>>

StrayLands(m) ==
  /\ m \in strays
  /\ strays' = strays \ {m}
  /\ IF registered THEN CompleteRemediation(m.req, m.result)
     ELSE UNCHANGED row
  /\ UNCHANGED <<registered, host, agentVars, historyVars>>

StrayLost(m) ==
  /\ m \in strays
  /\ strays' = strays \ {m}
  /\ UNCHANGED <<registered, row, host, agentVars, historyVars>>

-----------------------------------------------------------------------------
(* The machine: WARP comes and goes, the agent dies, the system reboots.   *)
HostChanged ==
  /\ host' \in {[host EXCEPT !.warp = w] : w \in {"absent", "off", "connected"}}
  /\ UNCHANGED <<registered, row, agentVars, strays, historyVars>>

AgentDies ==
  /\ job # Down
  /\ batch' = {}
  /\ job' = Down
  /\ UNCHANGED <<registered, row, host, strays, historyVars>>

HostReboots ==
  /\ job # Down
  /\ host' = [host EXCEPT !.fips = IF @ = "off" THEN "off" ELSE "on"]
  /\ batch' = {}
  /\ job' = Down
  /\ UNCHANGED <<registered, row, strays, historyVars>>

AgentStarts ==
  /\ job = Down
  /\ job' = Idle
  /\ UNCHANGED <<registered, row, host, batch, strays, historyVars>>

AgentStep ==
  \/ PollAnswered \/ RequestStarted
  \/ ActionPassedOver \/ ActionCarriedOut
  \/ ResultStored \/ ResultRefused \/ PostTimesOut

Next ==
  \/ \E r \in Requests : RequestRemediation(r)
  \/ DeleteNode
  \/ AgentStep
  \/ \E m \in strays : StrayLands(m) \/ StrayLost(m)
  \/ HostChanged
  \/ AgentDies
  \/ HostReboots
  \/ AgentStarts

Spec == Init /\ [][Next]_vars

(* The agent's loop goes on: its ticker fires, commands end, client.Do     *)
(* gives up after ten seconds.  Of the network and the controller: not     *)
(* every poll fails, and a result that is posted over and over is stored   *)
(* in the end.                                                             *)
Fairness ==
  /\ WF_vars(AgentStep)
  /\ WF_vars(PollAnswered)
  /\ \A r \in Requests : SF_vars(job.pc = "post" /\ job.req = r /\ ResultStored)

FairSpec == Spec /\ Fairness
-----------------------------------------------------------------------------
(* Properties.                                                             *)

(* What the controller shows as done was done: an outcome of a command in  *)
(* a completed row comes from a command run for this very request, however *)
(* late the post landed; a dry run touched nothing, and no request ever    *)
(* made the agent carry out a manual action (Executor.Execute).            *)
DoneAsReported ==
  \A r \in Requests :
    row[r].state = "completed" =>
      /\ ran[r] \subseteq Automatic
      /\ Body[r].dry => ran[r] = {}
      /\ \A k \in DOMAIN row[r].result :
           LET x == row[r].result[k] IN
           /\ x.action = Body[r].actions[k]
           /\ x.outcome \in {"success", "failed", "needs_reboot"}
                => x.action \in ran[r]

(* The agent runs a request again only when it was never told that its     *)
(* result is stored: lost answers and restarts make the execution          *)
(* at-least-once, an acknowledged request is never worked on again, not    *)
(* even from a poll answered earlier.                                      *)
AckedNeverRerun ==
  [][\A r \in Requests :
       acked[r] => ~(job'.pc \in {"act", "post"} /\ job # job' /\ job'.req = r)]_vars

(* Every request is completed, or goes away with its node, as long as the  *)
(* agent does not die for ever again: an agent that loses polls, posts or  *)
(* its memory finds the request at a later poll.                           *)
EveryRequestAnswered ==
  <>[](job # Down) =>
    \A r \in Requests : row[r].state = "pending" ~> row[r].state # "pending"
=============================================================================
