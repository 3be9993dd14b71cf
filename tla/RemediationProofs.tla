-------------------------- MODULE RemediationProofs --------------------------
(***************************************************************************)
(* Proofs about Remediation, for any requests, any lists of actions and    *)
(* any number of posts under way: types, that reported outcomes were       *)
(* carried out, and that an acknowledged request is never run again.       *)
(***************************************************************************)
EXTENDS Remediation, TLAPS

(* A result, complete or not, is about the first actions of its request,   *)
(* and the outcomes of commands in it come from commands that were run.    *)
Faithful(r, result) ==
  /\ Len(result) <= Len(Body[r].actions)
  /\ \A k \in 1 .. Len(result) :
       /\ result[k].action = Body[r].actions[k]
       /\ result[k].outcome \in {"success", "failed", "needs_reboot"}
            => result[k].action \in ran[r]

Working == job.pc \in {"act", "post", "await"}

(* What the agent works on is no longer in its batch, and has an action    *)
(* left while it is in the middle of it.                                   *)
JobSound ==
  Working => /\ job.req \notin batch
             /\ Faithful(job.req, job.result)
             /\ job.pc = "act" => Len(job.result) < Len(Body[job.req].actions)

RowsFaithful == \A r \in Requests : row[r] # NoRow => Faithful(r, row[r].result)

StraysFaithful == \A m \in strays : Faithful(m.req, m.result)

(* Only commands, and none for a dry run.                                  *)
RanAllowed ==
  \A r \in Requests : ran[r] \subseteq Automatic /\ (Body[r].dry => ran[r] = {})

(* An acknowledged request is done with: stored, and nowhere in the agent. *)
AckedIsOver ==
  \A r \in Requests :
    acked[r] => /\ registered => row[r] # NoRow /\ row[r].state = "completed"
                /\ r \notin batch
                /\ Working => job.req # r

(* As long as the node is there, so are the rows of what its agent has at  *)
(* hand: without this, an acknowledged result could have been stored       *)
(* nowhere.                                                                *)
AtHandHasRow ==
  registered => /\ \A r \in batch : row[r] # NoRow
                /\ Working => row[job.req] # NoRow

IInv ==
  /\ TypeOK
  /\ JobSound
  /\ AtHandHasRow
  /\ RowsFaithful
  /\ StraysFaithful
  /\ RanAllowed
  /\ AckedIsOver

-----------------------------------------------------------------------------
(* A row is of the two kinds the type invariant names, and so is a job.    *)
LEMMA RowKinds ==
  ASSUME TypeOK, NEW r \in Requests, row[r] # NoRow
  PROVE  row[r] \in Row
BY DEF TypeOK

(* A job that is not Idle or Down is a record with all its fields.         *)
LEMMA JobKinds ==
  ASSUME TypeOK, Working
  PROVE  job \in Job
BY DEF TypeOK, Working, Idle, Down

(* What a request asks for is a sequence of actions.                       *)
LEMMA BodyType ==
  ASSUME NEW r \in Requests
  PROVE  /\ Body[r].actions \in Seq(Actions)
         /\ Len(Body[r].actions) > 0
         /\ Body[r].dry \in BOOLEAN
<1>1. Body[r] \in [actions : Seq(Actions), dry : BOOLEAN]
  BY RemediationAssumption
<1>2. Body[r].actions # <<>>
  BY RemediationAssumption
<1>. QED
  BY <1>1, <1>2

(* Storing a result of a request keeps the rows well typed and faithful.   *)
LEMMA CompletionSound ==
  ASSUME TypeOK, RowsFaithful, NEW r \in Requests, NEW result \in Results,
         Faithful(r, result), CompleteRemediation(r, result),
         UNCHANGED ran
  PROVE  /\ row' \in [Requests -> {NoRow} \cup Row]
         /\ RowsFaithful'
         /\ \A q \in Requests : row[q] = NoRow <=> row'[q] = NoRow
         /\ row[r] # NoRow => row'[r].state = "completed"
         /\ \A q \in Requests : row[q] # NoRow /\ row[q].state = "completed"
                                  => row'[q].state = "completed"
<1>1. CASE row[r] = NoRow
  BY <1>1 DEF CompleteRemediation, TypeOK, RowsFaithful, Faithful
<1>2. CASE row[r] # NoRow
  <2>. DEFINE done == [row[r] EXCEPT !.state = "completed", !.result = result]
  <2>1. row[r] \in Row
    BY <1>2, RowKinds
  <2>2. done \in Row /\ done.state = "completed" /\ done.result = result
    BY <2>1 DEF Row
  <2>3. done # NoRow
    BY <2>2 DEF Row, NoRow
  <2>4. row' = [row EXCEPT ![r] = done]
    BY <1>2 DEF CompleteRemediation
  <2>. HIDE DEF done
  <2>5. row' \in [Requests -> {NoRow} \cup Row]
    BY <2>2, <2>4 DEF TypeOK
  <2>6. \A q \in Requests : row'[q] = IF q = r THEN done ELSE row[q]
    BY <2>4 DEF TypeOK
  <2>7. RowsFaithful'
    BY <2>2, <2>6 DEF RowsFaithful, Faithful
  <2>. QED
    BY <1>2, <2>2, <2>3, <2>5, <2>6, <2>7
<1>. QED
  BY <1>1, <1>2

(* Recording one more outcome extends the result faithfully.               *)
LEMMA RecordingSound ==
  ASSUME TypeOK, JobSound, job.pc = "act", NEW outcome \in Outcomes,
         Recorded(outcome),
         ran' = ran \/ ran' = [ran EXCEPT ![job.req] = @ \cup {NextAction}],
         outcome \in {"success", "failed", "needs_reboot"}
           => ran' = [ran EXCEPT ![job.req] = @ \cup {NextAction}]
  PROVE  /\ job' \in Job
         /\ job'.req = job.req
         /\ Faithful(job.req, job.result)'
         /\ job'.pc = "act" => Len(job'.result) < Len(Body[job'.req].actions)
<1>. DEFINE r == job.req
            n == Len(job.result)
            x == [action |-> NextAction, outcome |-> outcome]
            result == Append(job.result, x)
<1>1. /\ job \in Job /\ r \in Requests /\ job.result \in Results
      /\ r \notin batch /\ Faithful(r, job.result)
      /\ n < Len(Body[r].actions) /\ n \in Nat
  BY JobKinds DEF Working, JobSound, Job, Results
<1>2. Body[r].actions \in Seq(Actions)
  BY <1>1, BodyType
<1>3. NextAction \in Actions /\ NextAction = Body[r].actions[n + 1]
  BY <1>1, <1>2 DEF NextAction
<1>4. x \in [action : Actions, outcome : Outcomes]
  BY <1>3
<1>5. /\ result \in Results
      /\ Len(result) = n + 1
      /\ \A k \in 1 .. n : result[k] = job.result[k]
      /\ result[n + 1] = x
  BY <1>1, <1>4 DEF Results
<1>6. job' = [job EXCEPT !.result = result,
                         !.pc = IF n + 1 = Len(Body[r].actions)
                                THEN "post" ELSE "act"]
  BY <1>5 DEF Recorded
<1>7. /\ job' \in Job /\ job'.req = r /\ job'.result = result
      /\ job'.pc = "act" => n + 1 # Len(Body[r].actions)
  <2>. HIDE DEF result, n
  <2>. QED
    BY <1>1, <1>5, <1>6 DEF Job
<1>8. \A q \in Requests : ran[q] \subseteq ran'[q]
  BY DEF TypeOK
<1>9. outcome \in {"success", "failed", "needs_reboot"} => NextAction \in ran'[r]
  BY <1>1 DEF TypeOK
<1>10. \A k \in 1 .. Len(result) :
         /\ result[k].action = Body[r].actions[k]
         /\ result[k].outcome \in {"success", "failed", "needs_reboot"}
              => result[k].action \in ran'[r]
  <2>. SUFFICES ASSUME NEW k \in 1 .. Len(result)
                PROVE  /\ result[k].action = Body[r].actions[k]
                       /\ result[k].outcome \in {"success", "failed", "needs_reboot"}
                            => result[k].action \in ran'[r]
    OBVIOUS
  <2>1. CASE k = n + 1
    BY <1>3, <1>5, <1>9, <2>1
  <2>2. CASE k \in 1 .. n
    BY <1>1, <1>5, <1>8, <2>2 DEF Faithful
  <2>. QED
    BY <1>1, <1>5, <2>1, <2>2
<1>11. Len(result) <= Len(Body[r].actions)
  BY <1>1, <1>2, <1>5
<1>. HIDE DEF result, n, r
<1>12. Faithful(job.req, job.result)'
  BY <1>7, <1>10, <1>11 DEF Faithful
<1>. QED
  BY <1>1, <1>2, <1>5, <1>7, <1>11, <1>12 DEF r

-----------------------------------------------------------------------------
(* What does not depend on a variable a step changes is kept: these lemmas *)
(* are cited by every step that leaves the variables they read alone.      *)

(* Running more commands makes no row or post less faithful.               *)
LEMMA RowsKept ==
  ASSUME TypeOK, RowsFaithful, UNCHANGED row,
         \A r \in Requests : ran[r] \subseteq ran'[r]
  PROVE  RowsFaithful'
<1>. SUFFICES ASSUME NEW r \in Requests, row[r] # NoRow
              PROVE  Faithful(r, row[r].result)'
  BY DEF RowsFaithful
<1>1. Faithful(r, row[r].result) /\ ran[r] \subseteq ran'[r]
  BY DEF RowsFaithful
<1>. QED
  BY <1>1 DEF Faithful

(* The same of the posts under way, of which some may be gone.             *)
LEMMA StraysKept ==
  ASSUME TypeOK, StraysFaithful, strays' \subseteq strays,
         \A r \in Requests : ran[r] \subseteq ran'[r]
  PROVE  StraysFaithful'
<1>. SUFFICES ASSUME NEW m \in strays'
              PROVE  Faithful(m.req, m.result)'
  BY DEF StraysFaithful
<1>1. m \in strays /\ m.req \in Requests
  BY DEF TypeOK
<1>2. Faithful(m.req, m.result) /\ ran[m.req] \subseteq ran'[m.req]
  BY <1>1 DEF StraysFaithful
<1>. QED
  BY <1>2 DEF Faithful

(* A step that leaves the agent alone leaves its job sound.                *)
LEMMA JobKept ==
  ASSUME JobSound, UNCHANGED <<agentVars, ran>>
  PROVE  JobSound'
BY DEF JobSound, Working, Faithful, agentVars

(* No command was run: nothing new is to be allowed.                       *)
LEMMA RanKept ==
  ASSUME RanAllowed, UNCHANGED ran
  PROVE  RanAllowed'
BY DEF RanAllowed

(* A step that gives the agent no request, stores no acknowledgement and   *)
(* touches no completed row leaves acknowledged requests over.             *)
LEMMA AckedKept ==
  ASSUME AckedIsOver, UNCHANGED <<acked, registered>>, batch' \subseteq batch,
         \A r \in Requests : row[r] # NoRow /\ row[r].state = "completed"
            => row'[r] # NoRow /\ row'[r].state = "completed",
         Working' => Working /\ job'.req = job.req
  PROVE  AckedIsOver'
BY DEF AckedIsOver

(* Nor does it leave the agent with a request that has no row.             *)
LEMMA AtHandKept ==
  ASSUME TypeOK, AtHandHasRow, UNCHANGED registered, batch' \subseteq batch,
         \A r \in Requests : row[r] # NoRow => row'[r] # NoRow,
         Working' => Working /\ job'.req = job.req
  PROVE  AtHandHasRow'
<1>1. Working => job.req \in Requests
  BY JobKinds DEF Job
<1>2. batch \subseteq Requests
  BY DEF TypeOK
<1>. QED
  BY <1>1, <1>2 DEF AtHandHasRow

(* An idle agent, or one that is not running, works on nothing.            *)
LEMMA NotWorking ==
  ASSUME job = Idle \/ job = Down
  PROVE  ~Working
BY DEF Working, Idle, Down

(* The same in the state after a step.                                     *)
LEMMA NotWorkingNext ==
  ASSUME job' = Idle \/ job' = Down
  PROVE  ~Working' /\ JobSound'
BY DEF Working, Idle, Down, JobSound

-----------------------------------------------------------------------------
(* The initial states satisfy the invariant.                               *)
LEMMA InvInit == Init => IInv
<1>. SUFFICES ASSUME Init PROVE IInv
  OBVIOUS
<1>1. TypeOK
  BY RemediationAssumption DEF Init, TypeOK
<1>2. ~Working
  BY NotWorking DEF Init
<1>3. /\ JobSound /\ AtHandHasRow /\ RowsFaithful /\ StraysFaithful
      /\ RanAllowed /\ AckedIsOver
  BY <1>2 DEF Init, JobSound, AtHandHasRow, RowsFaithful, StraysFaithful,
              RanAllowed, AckedIsOver
<1>. QED
  BY <1>1, <1>3 DEF IInv

(* What the controller does of itself keeps the invariant.                 *)
LEMMA ControllerStep ==
  ASSUME IInv, DeleteNode \/ \E r \in Requests : RequestRemediation(r)
  PROVE  IInv'
<1>. USE DEF IInv
<1>1. CASE DeleteNode
  <2>1. UNCHANGED <<host, agentVars, strays, ran, acked>> /\ registered' = FALSE
        /\ row' = [r \in Requests |-> NoRow]
    BY <1>1 DEF DeleteNode, historyVars
  <2>2. TypeOK'
    BY <2>1 DEF TypeOK, agentVars
  <2>3. RowsFaithful' /\ StraysFaithful' /\ RanAllowed' /\ JobSound'
    BY <2>1, StraysKept, RanKept, JobKept DEF RowsFaithful
  <2>4. AckedIsOver' /\ AtHandHasRow'
    BY <2>1 DEF AckedIsOver, AtHandHasRow, agentVars, Working
  <2>. QED
    BY <2>2, <2>3, <2>4
<1>2. ASSUME NEW r \in Requests, RequestRemediation(r)
      PROVE  IInv'
  <2>. DEFINE new == [state |-> "pending", result |-> <<>>]
  <2>1. /\ UNCHANGED <<registered, host, agentVars, strays, ran, acked>>
        /\ registered /\ row[r] = NoRow
        /\ row' = [row EXCEPT ![r] = new]
    BY <1>2 DEF RequestRemediation, historyVars
  <2>2. <<>> \in Results
    BY DEF Results
  <2>3. new \in Row
    BY <2>2 DEF Row
  <2>4. row' \in [Requests -> {NoRow} \cup Row]
        /\ \A q \in Requests : row'[q] = IF q = r THEN new ELSE row[q]
    BY <2>1, <2>3 DEF TypeOK
  <2>5. TypeOK'
    BY <2>1, <2>4 DEF TypeOK, agentVars
  <2>6. Faithful(r, <<>>)'
    BY BodyType DEF Faithful
  <2>7. RowsFaithful'
    BY <2>1, <2>4, <2>6 DEF RowsFaithful, Faithful
  <2>8. StraysFaithful' /\ RanAllowed' /\ JobSound'
    BY <2>1, StraysKept, RanKept, JobKept
  <2>9. AckedIsOver' /\ AtHandHasRow'
    BY <2>1, <2>3, <2>4, AckedKept, AtHandKept DEF agentVars, Working, Row, NoRow
  <2>. QED
    BY <2>5, <2>7, <2>8, <2>9
<1>. QED
  BY <1>1, <1>2

(* What befalls the machine and the agent keeps the invariant.             *)
LEMMA MachineStep ==
  ASSUME IInv, HostChanged \/ AgentDies \/ HostReboots \/ AgentStarts
  PROVE  IInv'
<1>. USE DEF IInv
<1>1. UNCHANGED <<registered, row, strays, ran, acked>>
  BY DEF HostChanged, AgentDies, HostReboots, AgentStarts, historyVars
<1>2. RowsFaithful' /\ StraysFaithful' /\ RanAllowed'
  BY <1>1, RowsKept, StraysKept, RanKept
<1>3. CASE HostChanged
  <2>1. host' \in Host /\ UNCHANGED agentVars
    BY <1>3 DEF HostChanged, TypeOK, Host
  <2>2. TypeOK' /\ JobSound'
    BY <1>1, <2>1, JobKept DEF TypeOK, agentVars
  <2>3. AckedIsOver' /\ AtHandHasRow'
    BY <1>1, <2>1, AckedKept, AtHandKept DEF agentVars, Working
  <2>. QED
    BY <1>2, <2>2, <2>3
<1>4. CASE AgentDies \/ HostReboots \/ AgentStarts
  <2>1. /\ job' = Idle \/ job' = Down
        /\ batch' \subseteq batch
    BY <1>4 DEF AgentDies, HostReboots, AgentStarts
  <2>2. host' \in Host
    BY <1>4 DEF AgentDies, HostReboots, AgentStarts, TypeOK, Host
  <2>3. TypeOK'
    BY <1>1, <2>1, <2>2 DEF TypeOK
  <2>4. ~Working' /\ JobSound'
    BY <2>1, NotWorkingNext
  <2>5. AckedIsOver' /\ AtHandHasRow'
    BY <1>1, <2>1, <2>4, AckedKept, AtHandKept
  <2>. QED
    BY <1>2, <2>3, <2>4, <2>5
<1>. QED
  BY <1>3, <1>4

(* A command ends in an outcome that can be posted, on a real machine.     *)
LEMMA CommandsType ==
  ASSUME TypeOK, NEW a \in Automatic, NEW c \in Commands(a)
  PROVE  c.outcome \in {"success", "failed", "needs_reboot"} /\ c.host \in Host
<1>1. host \in Host
  BY DEF TypeOK
<1>2. CASE c = Command("failed", host)
  BY <1>1, <1>2 DEF Command
<1>3. CASE c # Command("failed", host) /\ a = "enable_os_fips"
  BY <1>1, <1>3 DEF Commands, Command, Host
<1>4. CASE c # Command("failed", host) /\ a = "install_warp"
  BY <1>1, <1>4 DEF Commands, Command, Host
<1>5. CASE c # Command("failed", host) /\ a = "connect_warp"
  BY <1>1, <1>5 DEF Commands, Command, Host
<1>. QED
  BY <1>2, <1>3, <1>4, <1>5 DEF Automatic

(* Taking up requests: from the answer of a poll, and one of the batch.    *)
LEMMA IntakeStep ==
  ASSUME IInv, PollAnswered \/ RequestStarted
  PROVE  IInv'
<1>. USE DEF IInv
<1>1. UNCHANGED <<registered, row, host, strays, ran, acked>>
  BY DEF PollAnswered, RequestStarted, historyVars
<1>2. RowsFaithful' /\ StraysFaithful' /\ RanAllowed'
  BY <1>1, RowsKept, StraysKept, RanKept
<1>3. CASE PollAnswered
  <2>1. /\ registered /\ job = Idle /\ job' = Idle
        /\ batch' = {r \in Requests : row[r].state = "pending"}
    BY <1>3 DEF PollAnswered, GetPendingRemediations
  <2>2. TypeOK'
    BY <1>1, <2>1 DEF TypeOK
  <2>3. ~Working' /\ JobSound'
    BY <2>1, NotWorkingNext
  <2>4. AckedIsOver' /\ AtHandHasRow'
    BY <1>1, <2>1, <2>3 DEF AckedIsOver, AtHandHasRow, NoRow
  <2>. QED
    BY <1>2, <2>2, <2>3, <2>4
<1>4. CASE RequestStarted
  <2>1. PICK r \in batch :
          /\ job = Idle
          /\ batch' = batch \ {r}
          /\ job' = [pc |-> "act", req |-> r, plan |-> Plan, result |-> <<>>]
    BY <1>4 DEF RequestStarted
  <2>2. r \in Requests /\ <<>> \in Results /\ Plan \subseteq Actions
    BY DEF TypeOK, Results, Plan, Actions, Automatic, Manual
  <2>3. job' \in Job
    BY <2>1, <2>2 DEF Job
  <2>4. TypeOK'
    BY <1>1, <2>1, <2>3 DEF TypeOK
  <2>5. JobSound'
    BY <2>1, <2>2, BodyType DEF JobSound, Faithful
  <2>6. AckedIsOver' /\ AtHandHasRow'
    BY <1>1, <2>1, <2>2 DEF AckedIsOver, AtHandHasRow
  <2>. QED
    BY <1>2, <2>4, <2>5, <2>6
<1>. QED
  BY <1>3, <1>4

(* What an action of a request leaves behind, whether a command was run    *)
(* for it or not: one outcome more, of the request the agent was at.       *)
LEMMA ActStep ==
  ASSUME IInv, ActionPassedOver \/ ActionCarriedOut
  PROVE  IInv' /\ job'.req = job.req
<1>. USE DEF IInv
<1>1. /\ UNCHANGED <<registered, row, batch, strays, acked>>
      /\ job.pc = "act"
  BY DEF ActionPassedOver, ActionCarriedOut, historyVars
<1>2. /\ Working /\ job \in Job /\ job.req \in Requests /\ job.req \notin batch
      /\ NextAction \in Actions
  <2>1. Working /\ job \in Job /\ job.req \in Requests /\ job.req \notin batch
    BY <1>1, JobKinds DEF Working, JobSound, Job
  <2>2. /\ Body[job.req].actions \in Seq(Actions)
        /\ Len(job.result) \in Nat
        /\ Len(job.result) < Len(Body[job.req].actions)
    BY <1>1, <2>1, BodyType DEF JobSound, Job, Results
  <2>. QED
    BY <2>1, <2>2 DEF NextAction
<1>3. /\ host' \in Host
      /\ ran' \in [Requests -> SUBSET Actions]
      /\ \A r \in Requests : ran[r] \subseteq ran'[r]
      /\ RanAllowed'
      /\ job' \in Job /\ job'.req = job.req
      /\ Faithful(job.req, job.result)'
      /\ job'.pc = "act" => Len(job'.result) < Len(Body[job'.req].actions)
  <2>1. CASE ActionPassedOver
    <3>1. /\ UNCHANGED <<host, ran>>
          /\ ~CarriesOut(NextAction)
          /\ Recorded(NotCarriedOut(NextAction))
      BY <2>1 DEF ActionPassedOver, historyVars
    <3>2. PICK o : o = NotCarriedOut(NextAction)
      OBVIOUS
    <3>3. o \in Outcomes /\ o \notin {"success", "failed", "needs_reboot"}
      BY <3>2 DEF NotCarriedOut, Outcomes
    <3>4. Recorded(o)
      BY <3>1, <3>2
    <3>5. /\ job' \in Job /\ job'.req = job.req
          /\ Faithful(job.req, job.result)'
          /\ job'.pc = "act" => Len(job'.result) < Len(Body[job'.req].actions)
      BY <1>1, <3>1, <3>3, <3>4, RecordingSound
    <3>6. RanAllowed'
      BY <3>1, RanKept
    <3>. QED
      BY <3>1, <3>5, <3>6 DEF TypeOK
  <2>2. CASE ActionCarriedOut
    <3>1. /\ CarriesOut(NextAction)
          /\ ran' = [ran EXCEPT ![job.req] = @ \cup {NextAction}]
      BY <2>2 DEF ActionCarriedOut
    <3>2. PICK a \in Automatic : a = NextAction
      BY <3>1 DEF CarriesOut
    <3>3. PICK c \in Commands(a) : Recorded(c.outcome) /\ host' = c.host
      BY <2>2, <3>2 DEF ActionCarriedOut
    <3>4. c.outcome \in {"success", "failed", "needs_reboot"} /\ c.host \in Host
      BY CommandsType
    <3>5. PICK o \in Outcomes : o = c.outcome
      BY <3>4 DEF Outcomes
    <3>6. Recorded(o)
      BY <3>3, <3>5
    <3>7. /\ job' \in Job /\ job'.req = job.req
          /\ Faithful(job.req, job.result)'
          /\ job'.pc = "act" => Len(job'.result) < Len(Body[job'.req].actions)
      BY <1>1, <3>1, <3>6, RecordingSound
    <3>8. /\ ran' \in [Requests -> SUBSET Actions]
          /\ \A r \in Requests :
               ran'[r] = IF r = job.req THEN ran[r] \cup {NextAction} ELSE ran[r]
      BY <1>2, <3>1 DEF TypeOK
    <3>9. ~Body[job.req].dry /\ NextAction \in Automatic
      BY <3>1, <3>2 DEF CarriesOut
    <3>10. RanAllowed'
      BY <3>8, <3>9 DEF RanAllowed
    <3>. QED
      BY <3>3, <3>4, <3>7, <3>8, <3>10
  <2>. QED
    BY <2>1, <2>2
<1>4. TypeOK'
  BY <1>1, <1>3 DEF TypeOK
<1>5. JobSound'
  BY <1>1, <1>2, <1>3 DEF JobSound
<1>6. RowsFaithful' /\ StraysFaithful'
  BY <1>1, <1>3, RowsKept, StraysKept
<1>7. AckedIsOver' /\ AtHandHasRow'
  BY <1>1, <1>2, <1>3, AckedKept, AtHandKept
<1>. QED
  BY <1>3, <1>4, <1>5, <1>6, <1>7

(* The end of a request: its result stored, refused, or given up on.       *)
LEMMA PostStep ==
  ASSUME IInv, ResultStored \/ ResultRefused \/ PostTimesOut
  PROVE  IInv'
<1>. USE DEF IInv
<1>1. /\ UNCHANGED <<registered, host, batch, ran>>
      /\ job.pc \in {"post", "await"}
  BY DEF ResultStored, ResultRefused, PostTimesOut, historyVars
<1>2. Working /\ job \in Job
  BY <1>1, JobKinds DEF Working
<1>3. PICK r \in Requests, res \in Results : r = job.req /\ res = job.result
  BY <1>2 DEF Job
<1>4. Faithful(r, res) /\ r \notin batch
  BY <1>2, <1>3 DEF JobSound
<1>5. RanAllowed'
  BY <1>1, RanKept
<1>6. CASE ResultStored
  <2>1. UNCHANGED strays /\ registered /\ CompleteRemediation(r, res)
        /\ job.pc = "post"
    BY <1>3, <1>6 DEF ResultStored
  <2>2. /\ row' \in [Requests -> {NoRow} \cup Row]
        /\ RowsFaithful'
        /\ \A q \in Requests : row[q] = NoRow <=> row'[q] = NoRow
        /\ row[r] # NoRow => row'[r].state = "completed"
        /\ \A q \in Requests : row[q] # NoRow /\ row[q].state = "completed"
                                 => row'[q].state = "completed"
    BY <1>1, <1>4, <2>1, CompletionSound
  <2>3. StraysFaithful'
    BY <1>1, <2>1, StraysKept
  <2>4. CASE job' = Idle /\ acked' = [acked EXCEPT ![job.req] = TRUE]
    <3>1. TypeOK'
      BY <1>1, <2>1, <2>2, <2>4 DEF TypeOK
    <3>2. ~Working' /\ JobSound'
      BY <2>4, NotWorkingNext
    <3>3. \A q \in Requests : acked'[q] => acked[q] \/ q = r
      BY <1>3, <2>4 DEF TypeOK
    <3>4. row'[r] # NoRow /\ row'[r].state = "completed"
      BY <1>2, <1>3, <2>1, <2>2 DEF AtHandHasRow
    <3>5. AckedIsOver'
      BY <1>1, <1>4, <2>2, <3>2, <3>3, <3>4 DEF AckedIsOver
    <3>6. AtHandHasRow'
      BY <1>1, <2>2, <3>2, AtHandKept
    <3>. QED
      BY <1>5, <2>2, <2>3, <3>1, <3>2, <3>5, <3>6
  <2>5. CASE job' = [job EXCEPT !.pc = "await"] /\ UNCHANGED acked
    <3>1. /\ job' \in Job /\ job'.pc = "await"
          /\ job'.req = r /\ job'.result = res
      BY <1>2, <1>3, <2>5 DEF Job
    <3>2. TypeOK'
      BY <1>1, <2>1, <2>2, <2>5, <3>1 DEF TypeOK
    <3>3. JobSound'
      BY <1>1, <1>4, <3>1 DEF JobSound, Faithful
    <3>4. AckedIsOver' /\ AtHandHasRow'
      BY <1>1, <1>2, <1>3, <2>2, <2>5, <3>1, AckedKept, AtHandKept
    <3>. QED
      BY <1>5, <2>2, <2>3, <3>2, <3>3, <3>4
  <2>. QED
    BY <1>6, <2>4, <2>5 DEF ResultStored
<1>7. CASE ResultRefused \/ PostTimesOut
  <2>1. UNCHANGED <<row, acked>> /\ job' = Idle
    BY <1>7 DEF ResultRefused, PostTimesOut, historyVars
  <2>2. strays' \subseteq strays \cup {[req |-> r, result |-> res]}
    BY <1>3, <1>7 DEF ResultRefused, PostTimesOut
  <2>3. TypeOK'
    BY <1>1, <1>3, <2>1, <2>2 DEF TypeOK
  <2>4. ~Working' /\ JobSound'
    BY <2>1, NotWorkingNext
  <2>5. StraysFaithful'
    BY <1>1, <1>4, <2>2 DEF StraysFaithful, Faithful
  <2>6. RowsFaithful' /\ AckedIsOver' /\ AtHandHasRow'
    BY <1>1, <2>1, <2>4, RowsKept, AckedKept, AtHandKept
  <2>. QED
    BY <1>5, <2>3, <2>4, <2>5, <2>6
<1>. QED
  BY <1>6, <1>7

(* A post nobody waits for lands, or is lost after all.                    *)
LEMMA StrayStep ==
  ASSUME IInv, NEW m \in strays, StrayLands(m) \/ StrayLost(m)
  PROVE  IInv'
<1>. USE DEF IInv
<1>1. /\ UNCHANGED <<registered, host, batch, job, ran, acked>>
      /\ strays' \subseteq strays
  BY DEF StrayLands, StrayLost, agentVars, historyVars
<1>2. /\ row' \in [Requests -> {NoRow} \cup Row]
      /\ RowsFaithful'
      /\ \A r \in Requests : row[r] # NoRow /\ row[r].state = "completed"
           => row'[r] # NoRow /\ row'[r].state = "completed"
      /\ \A r \in Requests : row[r] # NoRow => row'[r] # NoRow
  <2>1. CASE UNCHANGED row
    BY <1>1, <2>1, RowsKept DEF TypeOK
  <2>2. CASE CompleteRemediation(m.req, m.result)
    <3>1. PICK r \in Requests, res \in Results : r = m.req /\ res = m.result
      BY DEF TypeOK
    <3>2. Faithful(r, res) /\ CompleteRemediation(r, res)
      BY <2>2, <3>1 DEF StraysFaithful
    <3>. QED
      BY <1>1, <3>2, CompletionSound
  <2>. QED
    BY <2>1, <2>2 DEF StrayLands, StrayLost
<1>3. TypeOK'
  BY <1>1, <1>2 DEF TypeOK
<1>4. JobSound' /\ StraysFaithful' /\ RanAllowed'
  BY <1>1, JobKept, StraysKept, RanKept DEF agentVars
<1>5. AckedIsOver' /\ AtHandHasRow'
  BY <1>1, <1>2, AckedKept, AtHandKept DEF Working
<1>. QED
  BY <1>2, <1>3, <1>4, <1>5

(* Every step keeps the invariant.                                         *)
LEMMA InvStep == IInv /\ [Next]_vars => IInv'
<1>. SUFFICES ASSUME IInv, [Next]_vars PROVE IInv'
  OBVIOUS
<1>1. CASE DeleteNode \/ \E r \in Requests : RequestRemediation(r)
  BY <1>1, ControllerStep
<1>2. CASE AgentStep
  BY <1>2, IntakeStep, ActStep, PostStep DEF AgentStep
<1>3. CASE \E m \in strays : StrayLands(m) \/ StrayLost(m)
  BY <1>3, StrayStep
<1>4. CASE HostChanged \/ AgentDies \/ HostReboots \/ AgentStarts
  BY <1>4, MachineStep
<1>5. CASE UNCHANGED vars
  <2>1. UNCHANGED <<registered, row, host, batch, job, strays, ran, acked>>
    BY <1>5 DEF vars, historyVars
  <2>2. TypeOK' /\ JobSound' /\ RanAllowed' /\ RowsFaithful' /\ StraysFaithful'
    BY <2>1, JobKept, RanKept, RowsKept, StraysKept DEF IInv, TypeOK, agentVars
  <2>3. AckedIsOver' /\ AtHandHasRow'
    BY <2>1, AckedKept, AtHandKept DEF IInv, Working
  <2>. QED
    BY <2>2, <2>3 DEF IInv
<1>. QED
  BY <1>1, <1>2, <1>3, <1>4, <1>5 DEF Next

(* The invariant holds throughout.                                         *)
LEMMA Invariance == Spec => []IInv
BY InvInit, InvStep, PTL DEF Spec

-----------------------------------------------------------------------------
(* Types, for any requests and any number of posts under way.              *)
THEOREM TypeCorrect == Spec => []TypeOK
<1>1. IInv => TypeOK
  BY DEF IInv
<1>. QED
  BY <1>1, Invariance, PTL

(* Whatever the controller shows as done by a request was carried out for  *)
(* it on the node: nothing in a dry run, nothing manual, and no outcome of *)
(* a command that was not run, through lost answers and late posts.        *)
THEOREM ReportedWasDone == Spec => []DoneAsReported
<1>1. IInv => DoneAsReported
  <2>. SUFFICES ASSUME IInv, NEW r \in Requests, row[r].state = "completed"
                PROVE  /\ ran[r] \subseteq Automatic
                       /\ Body[r].dry => ran[r] = {}
                       /\ \A k \in DOMAIN row[r].result :
                            LET x == row[r].result[k] IN
                            /\ x.action = Body[r].actions[k]
                            /\ x.outcome \in {"success", "failed", "needs_reboot"}
                                 => x.action \in ran[r]
    BY DEF DoneAsReported
  <2>1. row[r] # NoRow
    BY DEF NoRow
  <2>2. row[r] \in Row
    BY <2>1, RowKinds DEF IInv
  <2>3. DOMAIN row[r].result = 1 .. Len(row[r].result)
    BY <2>2 DEF Row, Results
  <2>4. Faithful(r, row[r].result)
    BY <2>1 DEF IInv, RowsFaithful
  <2>. QED
    BY <2>3, <2>4 DEF IInv, RanAllowed, Faithful
<1>. QED
  BY <1>1, Invariance, PTL

(* A request whose result the agent knows to be stored is never started,   *)
(* continued or posted by it again.                                        *)
THEOREM AckedIsFinal == Spec => AckedNeverRerun
<1>. DEFINE Kept == \A r \in Requests :
       acked[r] => ~(job'.pc \in {"act", "post"} /\ job # job' /\ job'.req = r)
<1>1. IInv /\ [Next]_vars => [Kept]_vars
  <2>. SUFFICES ASSUME IInv, Next, NEW r \in Requests, acked[r],
                       job'.pc \in {"act", "post"}, job # job', job'.req = r
                PROVE  FALSE
    OBVIOUS
  <2>1. r \notin batch /\ (Working => job.req # r)
    BY DEF IInv, AckedIsOver
  <2>2. CASE RequestStarted
    BY <2>1, <2>2 DEF RequestStarted
  <2>3. CASE ActionPassedOver \/ ActionCarriedOut
    <3>1. job'.req = job.req /\ job.pc = "act"
      BY <2>3, ActStep DEF ActionPassedOver, ActionCarriedOut
    <3>. QED
      BY <2>1, <3>1 DEF Working
  <2>4. CASE PollAnswered \/ ResultRefused \/ PostTimesOut \/ AgentDies
             \/ HostReboots \/ AgentStarts
    BY <2>4 DEF PollAnswered, ResultRefused, PostTimesOut, AgentDies,
                HostReboots, AgentStarts, Idle, Down
  <2>5. CASE ResultStored
    <3>1. job \in Job
      BY <2>5, JobKinds DEF ResultStored, Working, IInv
    <3>. QED
      BY <2>5, <3>1 DEF ResultStored, Idle, Job
  <2>6. CASE \/ \E q \in Requests : RequestRemediation(q)
             \/ DeleteNode
             \/ \E m \in strays : StrayLands(m) \/ StrayLost(m)
             \/ HostChanged
    BY <2>6 DEF RequestRemediation, DeleteNode, StrayLands, StrayLost,
                HostChanged, agentVars
  <2>. QED
    BY <2>2, <2>3, <2>4, <2>5, <2>6 DEF Next, AgentStep
<1>. QED
  BY <1>1, Invariance, PTL DEF Spec, AckedNeverRerun
=============================================================================
