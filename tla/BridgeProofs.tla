------------------------------ MODULE BridgeProofs ------------------------------
(***************************************************************************)
(* Theorems about RuntimeBridge, for every set of tasks, clients and keys  *)
(* and every bound: whatever the configuration, the bridges stay within    *)
(* what module Sidecar allows a runtime, an agent's answer is heard, and a *)
(* configuration block wastes no work.                                     *)
(***************************************************************************)
EXTENDS RuntimeBridge, SidecarProofs

Posts == [invoke : Invokes, reply : Replies]

-------------------------------------------------------------------------------
(* The inductive invariant. *)

BridgeTypes ==
  /\ config \in Configs
  /\ stage  \in Stages
  /\ reply  \in Replies
  /\ heard  \in Responses
  /\ worked \in [Tasks -> SUBSET Invokes]
  /\ posted \in [Tasks -> SUBSET Posts]

\* Where submit_invoke is, the dispatcher waits for it.
StageInv ==
  /\ stage # "idle" => /\ config.kind = "cli"
                       /\ pc = "submit"
                       /\ job.invoke \in worked[job.task]
  /\ heard # "none" => stage = "wait"

\* A callback request on its way is the only one for its invocation, and its
\* result is not applied; the one submit_invoke waits for carries its reply.
PostInv ==
  /\ \A t \in Tasks : answered[t] \subseteq received[t]
  /\ config.kind = "http" => \A t \in Tasks : posted[t] = {}
  /\ \A t \in Tasks : \A request \in posted[t] :
       request.invoke \in (received[t] \cap worked[t]) \ answered[t]
  /\ \A t \in Tasks : \A a, b \in posted[t] : a.invoke = b.invoke => a = b
  /\ stage = "wait" => \A request \in posted[job.task] :
                         request.invoke = job.invoke => request.reply = reply

\* The agent is started once for an invocation, and not before its dispatch.
WorkInv ==
  /\ \A t \in Tasks : worked[t] \subseteq issued[t]
  /\ pc = "submit" /\ stage = "idle" => job.invoke \notin worked[job.task]
  /\ pc \in {"record", "fail"} /\ job.action = "block" => job.invoke \notin worked[job.task]
  /\ pc = "submit" => rows[job.task].waiting_on # "runtime_configuration"
  /\ ConfigurationBlocksBeforeWork

HeardInv ==
  /\ heard = "accepted" => job.invoke \in answered[job.task]
  /\ AgentsAreHeard

BInv == IInv /\ BridgeTypes /\ StageInv /\ PostInv /\ WorkInv /\ HeardInv

-------------------------------------------------------------------------------
(* The steps of the bridges as steps of Sidecar.                           *)

\* A submission that raises.
Raises ==
  \E action \in RecoveryActions :
    /\ SubmitRaises(action)
    /\ action = "block" => job.invoke \notin worked[job.task]
    /\ stage' = "idle" /\ reply' = NoReply /\ heard' = "none"
    /\ UNCHANGED <<config, posted, worked>>

\* Only a configuration error blocks, and it is found before any work.
LEMMA RaisesStep ==
  ASSUME BInv,
         \/ HttpFails \/ NoCallbackUrl \/ CannotStartAgent \/ AgentFails
         \/ CallbackUnreachable \/ CallbackRefused \/ CallbackLost
  PROVE  Raises
<1>1. ASSUME NEW failure, Raise(failure),
             failure = "configuration_error" => job.invoke \notin worked[job.task]
      PROVE  Raises
  <2>1. RecoveryAction(failure) \in RecoveryActions
    BY DEF RecoveryAction, RecoveryActions
  <2>2. RecoveryAction(failure) = "block" => failure = "configuration_error"
    BY DEF RecoveryAction
  <2> QED
    BY <1>1, <2>1, <2>2 DEF Raise, Raises
<1>2. CliSubmits => job.invoke \notin worked[job.task]
  BY DEF CliSubmits, BInv, WorkInv
<1>3. "configuration_error" \notin Retryable
  BY DEF Retryable
<1>4. CASE HttpFails \/ AgentFails \/ CallbackUnreachable \/ CallbackRefused \/ CallbackLost
  BY <1>1, <1>3, <1>4
  DEF HttpFails, AgentFails, CallbackUnreachable, CallbackRefused, CallbackLost
<1>5. CASE NoCallbackUrl \/ CannotStartAgent
  BY <1>1, <1>2, <1>5 DEF NoCallbackUrl, CannotStartAgent
<1> QED
  BY <1>4, <1>5

\* A request the HTTP thread refuses.
Refuses(t, request) ==
  /\ Served(t, request)
  /\ Respond(t, request, "refused")
  /\ ~config.token \/ Refusable(t, request)
  /\ UNCHANGED vars

\* Steps that leave the bridge alone.
Quiet ==
  /\ UNCHANGED bridge
  /\ \/ config.kind = "http" /\ (RuntimeReceives \/ SubmitReturns \/ Callbacks)
     \/ Elsewhere

\* The kinds of steps there are.
LEMMA BridgeSteps ==
  ASSUME BInv, [BridgeNext]_bridgeVars
  PROVE  \/ Quiet
         \/ Raises
         \/ StartAgent
         \/ AgentAnswers
         \/ PostCallback
         \/ CallbackAccepted
         \/ \E t \in Tasks : \E request \in posted[t] : Refuses(t, request)
         \/ \E t \in Tasks : \E request \in posted[t] : TakeRequest(t, request)
         \/ \E t \in Tasks : \E request \in posted[t] : AcceptResult(t, request)
         \/ BridgeCrash
         \/ UNCHANGED bridgeVars
<1>1. CASE SubmitInvoke
  BY <1>1, RaisesStep DEF SubmitInvoke, HttpReceived, HttpAccepted, Quiet
<1>2. CASE HttpResults
  BY <1>2 DEF HttpResults, Quiet
<1>3. CASE ServeCallback
  BY <1>3 DEF ServeCallback, RejectUnauthorized, RefuseResult, Refuses
<1>4. CASE Elsewhere
  BY <1>4 DEF Elsewhere, Quiet
<1> QED
  BY <1>1, <1>2, <1>3, <1>4 DEF BridgeNext

\* Each of them is a step of Sidecar or leaves its variables alone.
LEMMA BridgeStepIsStep ==
  ASSUME BInv, [BridgeNext]_bridgeVars
  PROVE  [Next]_vars
<1>1. CASE Quiet
  BY <1>1 DEF Quiet, Elsewhere, Maintenance, Next
<1>2. CASE Raises
  BY <1>2 DEF Raises, Maintenance, Next
<1>3. CASE StartAgent \/ AgentAnswers \/ UNCHANGED bridgeVars
           \/ \E t \in Tasks : \E request \in posted[t] : Refuses(t, request)
  BY <1>3 DEF StartAgent, AgentAnswers, bridgeVars, Refuses
<1>4. CASE PostCallback \/ CallbackAccepted \/ BridgeCrash
  BY <1>4 DEF PostCallback, CallbackAccepted, BridgeCrash, Maintenance, Next
<1>5. ASSUME NEW t \in Tasks, NEW request \in posted[t], AcceptResult(t, request)
      PROVE  Callbacks
  <2>1. request \in Posts
    BY DEF BInv, BridgeTypes
  <2>2. /\ request.reply.status \in Statuses
        /\ request.reply.decision \in Decisions
    BY <2>1 DEF Posts, Replies, Statuses
  <2>3. ApplyResult(t, request.invoke, request.reply.status, request.reply.decision)
    BY <1>5 DEF AcceptResult
  <2>4. request.invoke \in received[t]
    BY <2>2, <2>3, ApplyResultStep DEF BInv
  <2> QED
    BY <2>2, <2>3, <2>4 DEF Callbacks
<1>6. ASSUME NEW t \in Tasks, NEW request \in posted[t], TakeRequest(t, request)
      PROVE  Callbacks
  BY <1>6 DEF TakeRequest, TakeResult, Callbacks
<1> QED
  BY <1>1, <1>2, <1>3, <1>4, <1>5, <1>6, BridgeSteps DEF Next

-------------------------------------------------------------------------------
(* What a step of Sidecar does to what the bridge looks at.                *)

\* The log of a task grows, and only results of received invocations are
\* applied.
LEMMA LogsGrow ==
  ASSUME IInv, [Next]_vars, NEW t \in Tasks
  PROVE  /\ issued[t] \subseteq issued'[t]
         /\ received[t] \subseteq received'[t]
         /\ answered[t] \subseteq answered'[t]
         /\ answered'[t] \subseteq answered[t] \cup received[t]
<1> USE DEF IInv, TypeOK
<1>1. CASE Requests
  BY <1>1, RequestsStep
  DEF RequestUpdate, KernelUpdate, CreateTask, ReadView, database
<1>2. CASE Callbacks
  BY <1>2, ApplyResultStep DEF Callbacks, TakeResult, ApplyResult, database
<1>3. CASE Maintenance
  BY <1>3
  DEF Maintenance, StartCycle, SelectTimeouts, SelectRetries, SelectInflight, WriteRecovery,
      SelectReady, EndCycle, SkipTask, ReadTask, BuildInvoke, MarkRunning, SubmitReturns,
      SubmitRaises, CheckFailure, RecordFailure, database
<1>4. CASE RuntimeReceives \/ CrashAndRestart \/ UNCHANGED vars
  BY <1>4 DEF RuntimeReceives, CrashAndRestart, vars, database
<1> QED
  BY <1>1, <1>2, <1>3, <1>4 DEF Next

\* The runtime blocks a task for its configuration only by recording a
\* submission that failed for it; attempts never go down.
LEMMA ConfigurationBlock ==
  ASSUME IInv, [Next]_vars, NEW t \in Tasks
  PROVE  /\ rows'[t].waiting_on = "runtime_configuration" =>
              \/ rows[t].waiting_on = "runtime_configuration"
              \/ RecordFailure /\ t = job.task /\ job.action = "block"
         /\ rows'[t].dispatch_attempts >= rows[t].dispatch_attempts
<1>1. rows \in [Tasks -> Rows] /\ rows[t].dispatch_attempts \in Nat
  BY DEF IInv, TypeOK, Rows
<1>2. CASE \E u \in Tasks : \E s \in SeedStates \cup {"inbox"}, role \in Roles :
             CreateTask(u, s, role)
  <2>1. PICK u \in Tasks, s \in SeedStates \cup {"inbox"}, role \in Roles :
          CreateTask(u, s, role)
    BY <1>2
  <2>2. /\ rows' = [rows EXCEPT ![u] = NewRow(s, role)]
        /\ NewRow(s, role).waiting_on = "none"
        /\ NewRow(s, role).dispatch_attempts = 0
    <3>1. rows' = [rows EXCEPT ![u] = NewRow(s, role)]
      BY <2>1, CreateTaskRow
    <3> QED
      BY <3>1 DEF NewRow, AbsentRow
  <2>3. ~Exists(rows[u])
    BY <2>1 DEF CreateTask
  <2>4. rows[u].dispatch_attempts = 0
    BY <2>3, FS_EmptySet DEF IInv, DataInv, AbsentUntouched, AttemptsCounted
  <2> QED
    BY <1>1, <2>2, <2>4
<1>3. CASE \E u \in Tasks : \E q : KernelUpdate(u, q) /\ LifecycleStep(rows[u], q)
  BY <1>1, <1>3 DEF KernelUpdate, KernelStep, BlockKept
<1>4. CASE MarkRunning
  <2>1. /\ job.task \in Tasks
        /\ rows[job.task] \in Rows
        /\ job.role \in Roles
        /\ job.invoke \in Invokes
        /\ job.attempts = rows[job.task].dispatch_attempts
        /\ job.attempts + 1 \in Nat
    BY <1>4 DEF MarkRunning, IInv, TypeOK, Dispatching, ThreadInv, AttemptsHeld, Rows
  <2> DEFINE q == Dispatched(rows[job.task], job.role, job.attempts + 1, job.invoke)
  <2>2. q.waiting_on = rows[job.task].waiting_on /\ q.dispatch_attempts = job.attempts + 1
    BY <2>1, DispatchedStep
  <2>3. rows' = [rows EXCEPT ![job.task] = q]
    BY <1>4 DEF MarkRunning, Update
  <2> HIDE DEF q
  <2> QED
    BY <1>1, <2>1, <2>2, <2>3
<1>5. CASE RecordFailure
  <2>1. /\ \A u \in Tasks : Stopped(rows[u], rows'[u])
        /\ rows'[t].waiting_on \in {rows[t].waiting_on, "runtime_configuration"}
    BY <1>5, RecordFailureStops
  <2>2. ASSUME ~(t = job.task /\ job.action = "block")
        PROVE  rows'[t].waiting_on = rows[t].waiting_on
    <3>1. CASE t # job.task
      BY <1>1, <1>5, <3>1 DEF RecordFailure, Update
    <3>2. CASE t = job.task /\ job.action # "block"
      <4>1. /\ job \in Jobs
            /\ rows[t] \in Rows
            /\ job.role \in Roles
            /\ job.action \in RecoveryActions
            /\ job.invoke \in Invokes
        BY <1>5 DEF RecordFailure, IInv, TypeOK, Dispatching, ThreadInv, AttemptsHeld
      <4>2. job.attempts + 1 \in Nat
        BY <4>1 DEF Jobs
      <4>3. SubmitFailed(rows[t], job.role, job.attempts + 1, job.invoke,
                         job.action).waiting_on = rows[t].waiting_on
        BY <3>2, <4>1, <4>2, SubmitFailedStep
      <4> QED
        BY <1>1, <1>5, <3>2, <4>3 DEF RecordFailure, Update
    <3> QED
      BY <2>2, <3>1, <3>2
  <2>3. rows'[t].dispatch_attempts = rows[t].dispatch_attempts
    BY <2>1 DEF Stopped
  <2> QED
    BY <1>1, <1>5, <2>2, <2>3
<1>6. CASE WriteRecovery
  <2>1. rows'[t].dispatch_attempts = rows[t].dispatch_attempts
    BY <1>6, WriteRecoveryStops DEF Stopped
  <2>2. rows'[t].waiting_on \in {rows[t].waiting_on, "runtime_retry_budget"}
    <3>1. rows'[t] = Recovered(t)
      BY <1>6 DEF WriteRecovery
    <3> QED
      BY <3>1, ReleasedStep, ExhaustedStep DEF Recovered, IInv, TypeOK
  <2> QED
    BY <1>1, <2>1, <2>2
<1> QED
  BY <1>1, <1>2, <1>3, <1>4, <1>5, <1>6, RowsStep

\* submit_invoke is called for the row that was just marked.
LEMMA SubmitEntered ==
  ASSUME [Next]_vars, pc' = "submit"
  PROVE  MarkRunning \/ (pc = "submit" /\ job' = job)
<1>1. CASE Requests \/ Callbacks
  BY <1>1
  DEF Requests, Callbacks, CreateTask, ReadView, TransitionTask, ReviewTask, CancelTask,
      BlockTask, UnblockTask, HumanCancel, HumanReject, HumanConfirm, TakeResult,
      ApplyResult, maintenance
<1>2. CASE Maintenance
  BY <1>2
  DEF Maintenance, StartCycle, SelectTimeouts, SelectRetries, SelectInflight, WriteRecovery,
      SelectReady, EndCycle, SkipTask, ReadTask, BuildInvoke, SubmitReturns, SubmitRaises,
      CheckFailure, RecordFailure
<1>3. CASE RuntimeReceives \/ CrashAndRestart \/ UNCHANGED vars
  BY <1>3 DEF RuntimeReceives, CrashAndRestart, vars, maintenance
<1> QED
  BY <1>1, <1>2, <1>3 DEF Next

\* The work done stays with the dispatches made, and a configuration block
\* finds none in the dispatch it ends.
LEMMA WorkPreserved ==
  ASSUME BInv, [Next]_vars, UNCHANGED worked
  PROVE  /\ \A t \in Tasks : worked'[t] \subseteq issued'[t]
         /\ pc' = "submit" => rows'[job'.task].waiting_on # "runtime_configuration"
         /\ ConfigurationBlocksBeforeWork'
<1>1. IInv /\ WorkInv
  BY DEF BInv
<1>2. \A t \in Tasks : worked'[t] \subseteq issued'[t]
  BY <1>1, LogsGrow DEF WorkInv
<1>3. ASSUME pc' = "submit" PROVE rows'[job'.task].waiting_on # "runtime_configuration"
  <2>1. /\ pc \in {"mark", "submit"}
        /\ job' = job
        /\ rows[job.task].waiting_on # "runtime_configuration"
    BY <1>1, <1>3, SubmitEntered
    DEF MarkRunning, WorkInv, IInv, ThreadInv, NobodyElseDispatches, RuntimeReasons
  <2>2. job.task \in Tasks /\ ~RecordFailure
    BY <1>1, <2>1 DEF IInv, TypeOK, Dispatching, RecordFailure
  <2> QED
    BY <1>1, <2>1, <2>2, ConfigurationBlock
<1>4. ASSUME NEW t \in Tasks, rows'[t].waiting_on = "runtime_configuration",
             NEW inv \in worked[t]
      PROVE  inv.attempt < rows'[t].dispatch_attempts
  <2>1. /\ rows[t].dispatch_attempts \in Nat
        /\ rows'[t].dispatch_attempts \in Nat
        /\ rows'[t].dispatch_attempts >= rows[t].dispatch_attempts
        /\ inv \in issued[t]
        /\ inv.attempt \in Nat
    BY <1>1, <1>4, NextIInv, ConfigurationBlock
    DEF WorkInv, IInv, TypeOK, Rows, Invokes
  <2>2. CASE rows[t].waiting_on = "runtime_configuration"
    BY <1>1, <1>4, <2>1, <2>2 DEF WorkInv, ConfigurationBlocksBeforeWork
  <2>3. CASE RecordFailure /\ t = job.task /\ job.action = "block"
    <3>1. /\ job.invoke \in issued[t]
          /\ job.invoke.attempt = rows[t].dispatch_attempts
          /\ inv # job.invoke
      BY <1>1, <1>4, <2>3 DEF RecordFailure, WorkInv, IInv, ThreadInv, AttemptsHeld
    <3>2. inv.attempt <= rows[t].dispatch_attempts /\ inv.attempt # job.invoke.attempt
      BY <1>1, <2>1, <3>1 DEF IInv, DataInv, DispatchIdentity
    <3> QED
      BY <2>1, <3>1, <3>2
  <2> QED
    BY <1>1, <1>4, <2>2, <2>3, ConfigurationBlock
<1>5. ConfigurationBlocksBeforeWork'
  BY <1>4 DEF ConfigurationBlocksBeforeWork
<1> QED
  BY <1>2, <1>3, <1>5

-------------------------------------------------------------------------------
(* Every kind of step preserves the invariant.                             *)

\* What the steps that leave the bridge alone do to the dispatcher.
LEMMA QuietStep ==
  ASSUME BInv, Quiet
  PROVE  \/ config.kind = "http" /\ (UNCHANGED maintenance \/ SubmitReturns)
         \/ UNCHANGED <<maintenance, answered>>
         \/ MarkRunning
         \/ /\ pc # "submit" /\ pc' \notin {"submit", "record"} /\ UNCHANGED answered
            /\ pc' = "fail" => pc = "record" /\ job' = job
<1>1. CASE Requests
  BY <1>1
  DEF Requests, CreateTask, ReadView, TransitionTask, ReviewTask, CancelTask, BlockTask,
      UnblockTask, HumanCancel, HumanReject, HumanConfirm, database
<1>2. CASE config.kind = "http" /\ (RuntimeReceives \/ SubmitReturns \/ Callbacks)
  BY <1>2 DEF RuntimeReceives, Callbacks, TakeResult, ApplyResult
<1>3. CASE Elsewhere /\ ~Requests
  BY <1>3
  DEF Elsewhere, StartCycle, SelectTimeouts, SelectRetries, SelectInflight, WriteRecovery,
      SelectReady, EndCycle, SkipTask, ReadTask, BuildInvoke, CheckFailure, RecordFailure,
      database
<1> QED
  BY <1>1, <1>2, <1>3 DEF Quiet

LEMMA QuietPreserves ==
  ASSUME BInv, Quiet
  PROVE  BInv'
<1> USE DEF Quiet, bridge
<1>1. /\ [Next]_vars
      /\ IInv
      /\ IInv'
      /\ UNCHANGED worked
  BY BridgeStepIsStep, NextIInv
  DEF BInv, BridgeNext, SubmitInvoke, HttpReceived, HttpAccepted, HttpResults
<1>2. /\ stage # "idle" => UNCHANGED <<pc, job, answered>>
      /\ config.kind # "http" => UNCHANGED answered
  BY QuietStep DEF BInv, StageInv, MarkRunning, maintenance
<1>3. BridgeTypes'
  BY DEF BInv, BridgeTypes
<1>4. StageInv'
  BY <1>2 DEF BInv, StageInv
<1>5. PostInv'
  <2>1. \A t \in Tasks : /\ answered'[t] \subseteq received'[t]
                         /\ received[t] \subseteq received'[t]
    BY <1>1, LogsGrow DEF BInv, PostInv
  <2>2. /\ config.kind = "http" => \A t \in Tasks : posted[t] = {}
        /\ config.kind # "http" => UNCHANGED answered
        /\ stage = "wait" => job' = job
    BY <1>2 DEF BInv, PostInv
  <2> QED
    BY <2>1, <2>2 DEF BInv, PostInv
<1>6. WorkInv'
  <2>1. ASSUME pc' = "submit", stage' = "idle" PROVE job'.invoke \notin worked'[job'.task]
    <3>1. CASE MarkRunning
      <4>1. /\ job.task \in Tasks
            /\ rows[job.task].dispatch_attempts \in Nat
            /\ job.invoke.attempt = rows[job.task].dispatch_attempts + 1
            /\ job' = job
        BY <3>1 DEF MarkRunning, BInv, IInv, TypeOK, Dispatching, ThreadInv, AttemptsHeld, Rows
      <4>2. job.invoke \notin issued[job.task]
        BY <4>1 DEF BInv, IInv, DataInv, DispatchIdentity
      <4> QED
        BY <4>1, <4>2 DEF BInv, WorkInv
    <3>2. CASE pc = "submit" /\ job' = job
      BY <2>1, <3>2 DEF BInv, WorkInv
    <3> QED
      BY <1>1, <2>1, <3>1, <3>2, SubmitEntered
  <2>2. ASSUME pc' \in {"record", "fail"}, job'.action = "block"
        PROVE  job'.invoke \notin worked'[job'.task]
    <3>1. pc \in {"record", "fail"} /\ job' = job
      BY <2>2, QuietStep DEF maintenance, MarkRunning, SubmitReturns
    <3> QED
      BY <2>2, <3>1 DEF BInv, WorkInv
  <2> QED
    BY <1>1, <2>1, <2>2, WorkPreserved DEF WorkInv
<1>7. HeardInv'
  BY <1>2 DEF BInv, StageInv, HeardInv, AgentsAreHeard
<1> QED
  BY <1>1, <1>3, <1>4, <1>5, <1>6, <1>7 DEF BInv

LEMMA RaisesPreserves ==
  ASSUME BInv, Raises, [Next]_vars
  PROVE  BInv'
<1> USE DEF Raises, SubmitRaises, database
<1>1. IInv /\ IInv'
  BY NextIInv DEF BInv
<1>2. BridgeTypes'
  BY DEF BInv, BridgeTypes, Stages, Responses, NoReply, Replies, Decisions
<1>3. StageInv' /\ HeardInv'
  BY DEF StageInv, HeardInv, AgentsAreHeard
<1>4. PostInv'
  BY DEF BInv, PostInv
<1>5. WorkInv'
  <2>1. pc' = "record" /\ (job'.action = "block" => job'.invoke \notin worked'[job'.task])
    BY DEF BInv, IInv, TypeOK, Jobs
  <2> QED
    BY <2>1, WorkPreserved DEF WorkInv
<1> QED
  BY <1>1, <1>2, <1>3, <1>4, <1>5 DEF BInv

LEMMA StartAgentPreserves ==
  ASSUME BInv, StartAgent
  PROVE  BInv'
<1> USE DEF StartAgent, CliSubmits, vars
<1>1. /\ job.task \in Tasks
      /\ job.invoke \in Invokes
      /\ job.invoke \in issued[job.task]
      /\ job.invoke.attempt = rows[job.task].dispatch_attempts
      /\ rows[job.task].waiting_on # "runtime_configuration"
  BY DEF BInv, IInv, TypeOK, Dispatching, ThreadInv, AttemptsHeld, WorkInv
<1>2. worked' = [worked EXCEPT ![job.task] = @ \cup {job.invoke}]
  OBVIOUS
<1>3. IInv'
  BY NextIInv DEF BInv
<1>4. BridgeTypes'
  BY <1>1, <1>2 DEF BInv, BridgeTypes, Stages
<1>5. StageInv' /\ HeardInv'
  BY <1>1, <1>2 DEF BInv, BridgeTypes, StageInv, HeardInv, AgentsAreHeard
<1>6. PostInv'
  BY <1>1, <1>2 DEF BInv, BridgeTypes, PostInv
<1>7. WorkInv'
  BY <1>1, <1>2 DEF BInv, BridgeTypes, WorkInv, ConfigurationBlocksBeforeWork
<1> QED
  BY <1>3, <1>4, <1>5, <1>6, <1>7 DEF BInv

LEMMA AgentAnswersPreserves ==
  ASSUME BInv, AgentAnswers
  PROVE  BInv'
<1> USE DEF AgentAnswers, vars
<1>1. IInv'
  BY NextIInv DEF BInv
<1>2. BridgeTypes'
  BY DEF BInv, BridgeTypes, Stages
<1>3. StageInv' /\ HeardInv'
  BY DEF BInv, StageInv, HeardInv, AgentsAreHeard
<1>4. PostInv' /\ WorkInv'
  BY DEF BInv, PostInv, WorkInv, ConfigurationBlocksBeforeWork
<1> QED
  BY <1>1, <1>2, <1>3, <1>4 DEF BInv

LEMMA PostCallbackPreserves ==
  ASSUME BInv, PostCallback, [Next]_vars
  PROVE  BInv'
<1> USE DEF PostCallback, RuntimeReceives, database, maintenance
<1> DEFINE post == [invoke |-> job.invoke, reply |-> reply]
<1>1. /\ job.task \in Tasks
      /\ job.invoke \in Invokes
      /\ job.invoke \in worked[job.task]
      /\ config.kind = "cli"
  BY DEF BInv, IInv, TypeOK, Dispatching, StageInv
<1>2. IInv /\ IInv'
  BY NextIInv DEF BInv
<1>3. post \in Posts /\ post.invoke = job.invoke /\ post.reply = reply
  BY <1>1 DEF Posts, BInv, BridgeTypes
<1>4. posted' = [posted EXCEPT ![job.task] = @ \cup {post}]
  OBVIOUS
<1> HIDE DEF post
<1>5. BridgeTypes'
  BY <1>1, <1>3, <1>4 DEF BInv, BridgeTypes, Stages
<1>6. StageInv' /\ HeardInv'
  BY DEF BInv, StageInv, HeardInv, AgentsAreHeard
<1>7. PostInv'
  <2>1. received' = [received EXCEPT ![job.task] = @ \cup {job.invoke}]
    OBVIOUS
  <2>2. /\ job.invoke \notin received[job.task]
        /\ job.invoke \notin answered[job.task]
        /\ \A request \in posted[job.task] : request.invoke # job.invoke
    BY <1>1 DEF BInv, PostInv
  <2>3. \A t \in Tasks : /\ t # job.task => posted'[t] = posted[t] /\ received'[t] = received[t]
                         /\ received[t] \subseteq received'[t]
    BY <1>1, <1>4, <2>1 DEF BInv, BridgeTypes, IInv, TypeOK
  <2>4. /\ posted'[job.task] = posted[job.task] \cup {post}
        /\ job.invoke \in received'[job.task]
    BY <1>1, <1>4, <2>1 DEF BInv, BridgeTypes, IInv, TypeOK
  <2>5. \A t \in Tasks : answered'[t] \subseteq received'[t]
    BY <2>3 DEF BInv, PostInv
  <2>6. \A t \in Tasks : \A request \in posted'[t] :
          request.invoke \in (received'[t] \cap worked'[t]) \ answered'[t]
    BY <1>1, <1>3, <2>2, <2>3, <2>4 DEF BInv, PostInv
  <2>7. \A t \in Tasks : \A a, b \in posted'[t] : a.invoke = b.invoke => a = b
    BY <1>1, <1>3, <2>2, <2>3, <2>4 DEF BInv, PostInv
  <2>8. \A request \in posted'[job.task] : request.invoke = job.invoke => request.reply = reply
    BY <1>3, <2>2, <2>4
  <2> QED
    BY <1>1, <2>5, <2>6, <2>7, <2>8 DEF PostInv
<1>8. WorkInv'
  BY WorkPreserved DEF BInv, WorkInv, StageInv
<1> QED
  BY <1>2, <1>5, <1>6, <1>7, <1>8 DEF BInv

LEMMA CallbackAcceptedPreserves ==
  ASSUME BInv, CallbackAccepted, [Next]_vars
  PROVE  BInv'
<1> USE DEF CallbackAccepted, SubmitReturns, database
<1>1. IInv /\ IInv'
  BY NextIInv DEF BInv
<1>2. BridgeTypes'
  BY DEF BInv, BridgeTypes, Stages, Responses, NoReply, Replies, Decisions
<1>3. StageInv' /\ HeardInv' /\ PostInv'
  BY DEF BInv, StageInv, HeardInv, AgentsAreHeard, PostInv
<1>4. WorkInv'
  BY WorkPreserved DEF WorkInv
<1> QED
  BY <1>1, <1>2, <1>3, <1>4 DEF BInv

\* While submit_invoke waits, the row is still running its invocation.
LEMMA WaitedInvokeIsCurrent ==
  ASSUME IInv, pc = "submit"
  PROVE  CurrentInvoke(rows[job.task], job.invoke)
<1>1. /\ job.task \in Tasks
      /\ job.invoke \in issued[job.task]
      /\ job.invoke.attempt = rows[job.task].dispatch_attempts
      /\ job.invoke.role = job.role
  BY DEF IInv, TypeOK, Dispatching, ThreadInv, AttemptsHeld
<1>2. ASSUME Running(rows[job.task])
      PROVE  /\ job.invoke = rows[job.task].last_invoke_id
             /\ job.invoke.role = rows[job.task].dispatch_role
  BY <1>1, <1>2 DEF IInv, DataInv, RunningAwaitsResult, DispatchIdentity
<1> QED
  BY <1>2 DEF CurrentInvoke

\* A request that is served is gone; the others are as they were.
LEMMA ServedPosts ==
  ASSUME BInv, NEW t \in Tasks, NEW request \in posted[t], Served(t, request)
  PROVE  /\ posted' \in [Tasks -> SUBSET Posts]
         /\ \A u \in Tasks : posted'[u] \subseteq posted[u]
         /\ request \notin posted'[t]
         /\ config.kind = "http" => \A u \in Tasks : posted'[u] = {}
<1>1. posted \in [Tasks -> SUBSET Posts]
  BY DEF BInv, BridgeTypes
<1>2. posted' = [posted EXCEPT ![t] = @ \ {request}]
  BY DEF Served
<1>3. config.kind # "http"
  BY DEF BInv, PostInv
<1> QED
  BY <1>1, <1>2, <1>3

LEMMA RefusesPreserves ==
  ASSUME BInv, NEW t \in Tasks, NEW request \in posted[t], Refuses(t, request)
  PROVE  BInv'
<1> USE DEF Refuses, Served, vars
<1>1. IInv'
  BY NextIInv DEF BInv
<1>2. heard' = IF stage = "wait" /\ job.task = t /\ job.invoke = request.invoke
               THEN "refused" ELSE heard
  BY DEF Respond
<1>3. BridgeTypes'
  BY <1>2, ServedPosts DEF BInv, BridgeTypes, Responses
<1>4. StageInv'
  BY <1>2 DEF BInv, StageInv
<1>5. PostInv'
  <2>1. /\ \A u \in Tasks : posted'[u] \subseteq posted[u]
        /\ config.kind = "http" => \A u \in Tasks : posted'[u] = {}
    BY ServedPosts
  <2>2. stage = "wait" => job.task \in Tasks
    BY DEF BInv, StageInv, IInv, TypeOK, Dispatching
  <2> QED
    BY <2>1, <2>2 DEF BInv, PostInv
<1>6. WorkInv'
  BY DEF BInv, WorkInv, ConfigurationBlocksBeforeWork
<1>7. HeardInv'
  <2>1. CASE heard' = heard
    BY <2>1 DEF BInv, HeardInv, AgentsAreHeard
  <2>2. CASE stage = "wait" /\ job.task = t /\ job.invoke = request.invoke /\ heard' = "refused"
    <3>1. pc = "submit" /\ request.reply = reply /\ job.invoke.role = job.role
      BY <2>2 DEF BInv, StageInv, PostInv, IInv, ThreadInv, AttemptsHeld
    <3>2. CurrentInvoke(rows[t], request.invoke)
      BY <2>2, <3>1, WaitedInvokeIsCurrent DEF BInv
    <3> QED
      BY <2>2, <3>1, <3>2 DEF Refusable, HeardInv, AgentsAreHeard
  <2> QED
    BY <1>2, <2>1, <2>2
<1> QED
  BY <1>1, <1>3, <1>4, <1>5, <1>6, <1>7 DEF BInv

\* A request that passes the checks stays where it is until it is applied.
LEMMA TakeRequestPreserves ==
  ASSUME BInv, NEW t \in Tasks, NEW request \in posted[t], TakeRequest(t, request), [Next]_vars
  PROVE  BInv'
<1> USE DEF TakeRequest, TakeResult, database, maintenance, bridge
<1>1. IInv'
  BY NextIInv DEF BInv
<1>2. BridgeTypes' /\ StageInv' /\ PostInv'
  BY DEF BInv, BridgeTypes, StageInv, PostInv
<1>3. WorkInv' /\ HeardInv'
  BY DEF BInv, WorkInv, ConfigurationBlocksBeforeWork, HeardInv, AgentsAreHeard
<1> QED
  BY <1>1, <1>2, <1>3 DEF BInv

LEMMA AcceptResultPreserves ==
  ASSUME BInv, NEW t \in Tasks, NEW request \in posted[t], AcceptResult(t, request), [Next]_vars
  PROVE  BInv'
<1> USE DEF AcceptResult, Served
<1>1. /\ UNCHANGED <<received, maintenance, issued>>
      /\ answered' = [answered EXCEPT ![t] = @ \cup {request.invoke}]
  BY DEF ApplyResult
<1>2. IInv /\ IInv' /\ request.invoke \in received[t]
  <2>1. request.reply.status \in Statuses /\ request.reply.decision \in Decisions
    BY DEF BInv, BridgeTypes, Posts, Replies, Statuses
  <2> QED
    BY <2>1, NextIInv, ApplyResultStep DEF BInv
<1>3. heard' = IF stage = "wait" /\ job.task = t /\ job.invoke = request.invoke
               THEN "accepted" ELSE heard
  BY DEF Respond
<1>4. BridgeTypes'
  BY <1>3, ServedPosts DEF BInv, BridgeTypes, Responses
<1>5. StageInv'
  BY <1>1, <1>3 DEF BInv, StageInv, maintenance
<1>6. \A u \in Tasks : answered'[u] = IF u = t THEN answered[t] \cup {request.invoke}
                                                ELSE answered[u]
  BY <1>1, <1>2 DEF IInv, TypeOK
<1>7. PostInv'
  <2>1. /\ \A u \in Tasks : posted'[u] \subseteq posted[u]
        /\ request \notin posted'[t]
        /\ config.kind = "http" => \A u \in Tasks : posted'[u] = {}
    BY ServedPosts
  <2>2. \A u \in Tasks : answered'[u] \subseteq received'[u]
    BY <1>1, <1>2, <1>6 DEF BInv, PostInv
  <2>3. \A u \in Tasks : \A a \in posted'[u] :
          a.invoke \in (received'[u] \cap worked'[u]) \ answered'[u]
    BY <1>1, <1>6, <2>1 DEF BInv, PostInv
  <2>4. stage' = "wait" => \A a \in posted'[job'.task] :
                             a.invoke = job'.invoke => a.reply = reply'
    <3>1. stage = "wait" => job.task \in Tasks
      BY <1>2 DEF BInv, StageInv, IInv, TypeOK, Dispatching
    <3> QED
      BY <1>1, <2>1, <3>1 DEF BInv, PostInv, maintenance
  <2> QED
    BY <2>1, <2>2, <2>3, <2>4 DEF BInv, PostInv
<1>8. WorkInv'
  BY <1>1, WorkPreserved DEF BInv, WorkInv, maintenance
<1>9. HeardInv'
  <2>1. stage = "wait" => job.task \in Tasks
    BY <1>2 DEF BInv, StageInv, IInv, TypeOK, Dispatching
  <2> QED
    BY <1>1, <1>3, <1>6, <2>1 DEF BInv, StageInv, HeardInv, AgentsAreHeard, maintenance
<1> QED
  BY <1>2, <1>4, <1>5, <1>7, <1>8, <1>9 DEF BInv

LEMMA BridgeCrashPreserves ==
  ASSUME BInv, BridgeCrash, [Next]_vars
  PROVE  BInv'
<1> USE DEF BridgeCrash, CrashAndRestart, database
<1>1. IInv /\ IInv'
  BY NextIInv DEF BInv
<1>2. BridgeTypes'
  BY DEF BInv, BridgeTypes, Stages, Responses, NoReply, Replies, Decisions
<1>3. StageInv' /\ HeardInv' /\ PostInv'
  BY DEF BInv, StageInv, HeardInv, AgentsAreHeard, PostInv
<1>4. WorkInv'
  BY WorkPreserved DEF WorkInv
<1> QED
  BY <1>1, <1>2, <1>3, <1>4 DEF BInv

LEMMA BridgeInitBInv ==
  ASSUME BridgeInit
  PROVE  BInv
<1> USE DEF BridgeInit
<1>1. IInv
  BY InitIInv
<1>2. BridgeTypes /\ StageInv
  BY DEF BridgeTypes, StageInv, Stages, Responses, NoReply, Replies, Decisions
<1>3. PostInv /\ HeardInv
  BY DEF Init, PostInv, HeardInv, AgentsAreHeard
<1>4. WorkInv
  BY DEF Init, WorkInv, ConfigurationBlocksBeforeWork
<1> QED
  BY <1>1, <1>2, <1>3, <1>4 DEF BInv

LEMMA BridgeNextBInv ==
  ASSUME BInv, [BridgeNext]_bridgeVars
  PROVE  BInv'
<1>1. CASE UNCHANGED bridgeVars
  <2>1. IInv' /\ BridgeTypes' /\ StageInv'
    BY <1>1, NextIInv DEF bridgeVars, bridge, vars, BInv, BridgeTypes, StageInv
  <2>2. PostInv' /\ WorkInv' /\ HeardInv'
    BY <1>1
    DEF bridgeVars, bridge, vars, BInv, PostInv, WorkInv, ConfigurationBlocksBeforeWork,
        HeardInv, AgentsAreHeard
  <2> QED
    BY <2>1, <2>2 DEF BInv
<1> QED
  BY <1>1, BridgeSteps, BridgeStepIsStep, QuietPreserves, RaisesPreserves,
     StartAgentPreserves, AgentAnswersPreserves, PostCallbackPreserves,
     CallbackAcceptedPreserves, RefusesPreserves, TakeRequestPreserves,
     AcceptResultPreserves, BridgeCrashPreserves

-------------------------------------------------------------------------------
(* Theorems. *)

\* The inductive invariant holds in every reachable state.
THEOREM BridgeInvariance == BridgeSpec => []BInv
<1>1. BridgeInit => BInv
  BY BridgeInitBInv
<1>2. BInv /\ [BridgeNext]_bridgeVars => BInv'
  BY BridgeNextBInv
<1> QED
  BY <1>1, <1>2, PTL DEF BridgeSpec

\* With their causes spelt out, submit_invoke and the callbacks of both bridges
\* do nothing that module Sidecar does not allow: its theorems hold of them.
THEOREM BridgesImplementSidecar == BridgeSpec => ImplementsSidecar
<1>1. BridgeInit => Init
  BY DEF BridgeInit
<1>2. BInv /\ [BridgeNext]_bridgeVars => [Next]_vars
  BY BridgeStepIsStep
<1> QED
  BY <1>1, <1>2, BridgeInvariance, PTL DEF BridgeSpec, Spec, ImplementsSidecar

\* Task lifecycle and delivery hold whichever bridge submits and however it fails.
THEOREM BridgesKeepPromises == BridgeSpec => ImplementsLifecycle /\ ImplementsDelivery
  BY BridgesImplementSidecar, Refinement, DeliveryRefinement, PTL DEF ImplementsSidecar

\* A callback request on its way carries the one result of an invocation that
\* was worked on and is not answered yet.
THEOREM BridgeTypeCorrect == BridgeSpec => []BridgeTypeOK
<1>1. BInv => BridgeTypeOK
  BY DEF BInv, BridgeTypes, StageInv, PostInv, Posts, BridgeTypeOK
<1> QED
  BY <1>1, BridgeInvariance, PTL

\* The answer submit_invoke waits on is never refused because the row was taken
\* over or answered in the meantime.
THEOREM AgentsAreAlwaysHeard == BridgeSpec => []AgentsAreHeard
<1>1. BInv => AgentsAreHeard
  BY DEF BInv, HeardInv
<1> QED
  BY <1>1, BridgeInvariance, PTL

\* A task is blocked for its configuration only before the dispatch cost work.
THEOREM ConfigurationBlocksAreFree == BridgeSpec => []ConfigurationBlocksBeforeWork
<1>1. BInv => ConfigurationBlocksBeforeWork
  BY DEF BInv, WorkInv
<1> QED
  BY <1>1, BridgeInvariance, PTL

\* The CLI bridge reports a submission accepted only after its result has been
\* applied.
THEOREM AcceptedSubmissionsAreApplied == BridgeSpec => AcceptedIsApplied
<1> DEFINE Applied == config.kind = "cli" /\ pc = "submit" /\ pc' = "pick"
                        => job.invoke \in answered[job.task]
<1>1. ASSUME BInv, [BridgeNext]_bridgeVars PROVE Applied
  <2>1. CASE Quiet
    BY <2>1, <1>1, QuietStep DEF maintenance, MarkRunning, Quiet
  <2>2. CASE CallbackAccepted
    BY <1>1, <2>2 DEF CallbackAccepted, BInv, HeardInv
  <2>3. CASE \/ Raises \/ StartAgent \/ AgentAnswers \/ PostCallback \/ BridgeCrash
             \/ UNCHANGED bridgeVars
    BY <2>3
    DEF Raises, SubmitRaises, StartAgent, AgentAnswers, PostCallback, RuntimeReceives,
        BridgeCrash, CrashAndRestart, bridgeVars, vars, maintenance
  <2>4. CASE \E t \in Tasks : \E request \in posted[t] :
               Refuses(t, request) \/ TakeRequest(t, request) \/ AcceptResult(t, request)
    BY <2>4
    DEF Refuses, TakeRequest, TakeResult, AcceptResult, ApplyResult, vars, maintenance
  <2> QED
    BY <1>1, <2>1, <2>2, <2>3, <2>4, BridgeSteps
<1>2. BInv /\ [BridgeNext]_bridgeVars => [Applied]_bridgeVars
  BY <1>1
<1> QED
  BY <1>2, BridgeInvariance, PTL DEF BridgeSpec, AcceptedIsApplied
================================================================================
