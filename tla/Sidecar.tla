-------------------------------- MODULE Sidecar --------------------------------
(***************************************************************************)
(* The running sidecar: the task table, the HTTP thread that serves        *)
(* clients, humans and result callbacks, the maintenance thread that runs  *)
(* recovery and then the scheduler and dispatcher, and the external        *)
(* runtime that answers invocations in any order, late, twice or never.    *)
(*                                                                         *)
(* Grain of atomicity.  Requests are served one at a time (http_service.py *)
(* holds _lock around each) and each commits once.  What a request checks, *)
(* the state and the version of its row, only requests write, so a request *)
(* is one step; but a result is also checked against the dispatch of its   *)
(* row, before its transaction begins, so a callback is two.  The          *)
(* maintenance thread does not take the lock and is split wherever it uses *)
(* a value it read earlier: each recovery pass is a SELECT and, later, the *)
(* UPDATEs and the commit; the scheduler keeps the task ids of one SELECT; *)
(* a dispatch is read, build, mark, submit, check, record.  Steps of the   *)
(* one thread fall between any two of the other.                           *)
(***************************************************************************)
EXTENDS TaskKernel, FiniteSets

CONSTANTS
  Tasks,             \* task ids
  NoTask,            \* not a task id
  SeedStates,        \* states POST /tasks is called with, each with
  SeedRoles,         \* each of these roles
  Clients,           \* callers that read a task and later send expected_version
  Keys,              \* idempotency keys callers put in their requests
  NoKey,             \* a request without an idempotency key
  SubmitMaxAttempts, \* runtime_submit_max_attempts
  BatchLimit,        \* limit of dispatch_ready_tasks
  MaxVersion,        \* bound: no request is served to a row at this version
  MaxAttempts,       \* bound: no row is scheduled at this many attempts
  MaxCrashes         \* bound: restarts of the service

\* Any state goes with any role: the API compares neither with the other.
ASSUME SeedAssumption == SeedStates \subseteq States /\ SeedRoles \subseteq Roles

ASSUME NoTaskAssumption == NoTask \notin Tasks

ASSUME BoundsAssumption ==
  /\ SubmitMaxAttempts \in Nat
  /\ BatchLimit \in Nat \ {0}
  /\ MaxVersion \in Nat
  /\ MaxAttempts \in Nat
  /\ MaxCrashes \in Nat

VARIABLES
  (* The database. *)
  rows,      \* table tasks
  answered,  \* invoke ids among the idempotency keys of task_events: results applied
  keys,      \* idempotency keys of callers in task_events
  issued,    \* invoke ids of the task.dispatched events
  (* The external runtime. *)
  received,  \* invocations it has got; it may answer each of them at any time
  (* The HTTP thread. *)
  taken,     \* the result it is about to apply, its checks passed
  (* The maintenance thread. *)
  pc,        \* what it does next
  pass,      \* the recovery pass it is in
  scan,      \* rows the SELECT of that pass chose
  batch,     \* task ids of the scheduler's SELECT still to be dispatched
  job,       \* local variables of dispatch_task
  (* Callers and the operating system. *)
  view,      \* the row each client last read
  crashes

database    == <<rows, answered, keys, issued>>
maintenance == <<pc, pass, scan, batch, job>>
vars        == <<rows, answered, keys, issued, received,
                 pc, pass, scan, batch, job, taken, view, crashes>>

NoScan == [release |-> {}, exhaust |-> {}]

NoJob == [task |-> NoTask, role |-> NoRole, attempts |-> 0,
          invoke |-> NoInvoke, action |-> "none"]

NoResult == [task |-> NoTask, invoke |-> NoInvoke]

NoView == [task |-> NoTask, version |-> 0, state |-> Absent, review_round |-> 0]

Passes == {"executing", "reviewing", "retry", "inflight"}

Init ==
  /\ rows     = [t \in Tasks |-> AbsentRow]
  /\ answered = [t \in Tasks |-> {}]
  /\ keys     = [t \in Tasks |-> {}]
  /\ issued   = [t \in Tasks |-> {}]
  /\ received = [t \in Tasks |-> {}]
  /\ pc       = "sleep"
  /\ pass     = "executing"
  /\ scan     = NoScan
  /\ batch    = {}
  /\ job      = NoJob
  /\ taken    = NoResult
  /\ view     = [c \in Clients |-> NoView]
  /\ crashes  = 0

-------------------------------------------------------------------------------
(* HTTP thread: callers.  A request the code refuses changes nothing, so   *)
(* its early returns appear as guards.                                     *)

\* Bound: keeps version finite.
Room(t) == rows[t].version < MaxVersion

Update(t, row) == rows' = [rows EXCEPT ![t] = row]

\* _idempotent_replay answers a known key without touching the row.
Fresh(t, key) == key = NoKey \/ key \notin keys[t]

Remember(t, key) ==
  keys' = [keys EXCEPT ![t] = IF key = NoKey THEN @ ELSE @ \cup {key}]

\* POST /tasks, and IngressAdapter.ingest, which always uses the defaults (inbox
\* and the coordinator): a second insert of the same task id is refused.
CreateTask(t, s, role) ==
  /\ ~Exists(rows[t])
  /\ Update(t, NewRow(s, role))
  /\ UNCHANGED <<answered, keys, issued, received, maintenance, taken, view, crashes>>

\* GET /tasks/{id}.
ReadView(c, t) ==
  /\ Exists(rows[t])
  /\ view' = [view EXCEPT ![c] = [task |-> t, version |-> rows[t].version,
                                  state |-> rows[t].state,
                                  review_round |-> rows[t].review_round]]
  /\ UNCHANGED <<database, received, maintenance, taken, crashes>>

\* _check_expected_version with the version the client read.
VersionMatches(c, t) ==
  /\ view[c].task = t
  /\ Exists(rows[t])
  /\ view[c].version = rows[t].version

TransitionTask(c, t, actor, new) ==
  /\ Room(t)
  /\ VersionMatches(c, t)
  /\ CanActorTransition(actor, rows[t].state, new)
  /\ Update(t, Entered(rows[t], new))
  /\ UNCHANGED <<answered, keys, issued, received, maintenance, taken, view, crashes>>

ReviewTask(c, t, actor, decision, key) ==
  /\ Room(t)
  /\ VersionMatches(c, t)
  /\ Fresh(t, key)
  /\ CanActorTransition(actor, rows[t].state, DecidedState(decision))
  /\ Update(t, Reviewed(rows[t], decision))
  /\ Remember(t, key)
  /\ UNCHANGED <<answered, issued, received, maintenance, taken, view, crashes>>

CancelTask(c, t, actor, key) ==
  /\ Room(t)
  /\ VersionMatches(c, t)
  /\ Fresh(t, key)
  /\ CanActorTransition(actor, rows[t].state, "cancelled")
  /\ Update(t, Entered(rows[t], "cancelled"))
  /\ Remember(t, key)
  /\ UNCHANGED <<answered, issued, received, maintenance, taken, view, crashes>>

\* POST /tasks/{id}/block, also human-action block: no version check, any state.
BlockTask(t, key) ==
  /\ Room(t)
  /\ Exists(rows[t])
  /\ Fresh(t, key)
  /\ Update(t, BlockedByApi(rows[t]))
  /\ Remember(t, key)
  /\ UNCHANGED <<answered, issued, received, maintenance, taken, view, crashes>>

\* POST /tasks/{id}/unblock, /runtime/unblock/{id}, human-action unblock.
UnblockTask(t, key) ==
  /\ Room(t)
  /\ Exists(rows[t])
  /\ Fresh(t, key)
  /\ Update(t, UnblockedByApi(rows[t]))
  /\ Remember(t, key)
  /\ UNCHANGED <<answered, issued, received, maintenance, taken, view, crashes>>

\* human-action cancel: acts as the current role, at the current version.
HumanCancel(t, key) ==
  /\ Room(t)
  /\ Exists(rows[t])
  /\ Fresh(t, key)
  /\ CanActorTransition(rows[t].current_role, rows[t].state, "cancelled")
  /\ Update(t, Entered(rows[t], "cancelled"))
  /\ Remember(t, key)
  /\ UNCHANGED <<answered, issued, received, maintenance, taken, view, crashes>>

\* Plausible faults: the rejection is written without a new version; the state
\* is not checked first.
HumanRejectUnversioned(t) ==
  /\ Room(t)
  /\ rows[t].state = "reviewing"
  /\ Update(t, [Reviewed(rows[t], "reject") EXCEPT !.version = rows[t].version])
  /\ UNCHANGED <<answered, keys, issued, received, maintenance, taken, view, crashes>>

HumanRejectAnywhere(t) ==
  /\ Room(t)
  /\ Exists(rows[t])
  /\ Update(t, Reviewed(rows[t], "reject"))
  /\ UNCHANGED <<answered, keys, issued, received, maintenance, taken, view, crashes>>

\* human-action reject_to_rework: no version check, no idempotency key.
HumanReject(t) ==
  /\ Room(t)
  /\ rows[t].state = "reviewing"
  /\ Update(t, Reviewed(rows[t], "reject"))
  /\ UNCHANGED <<answered, keys, issued, received, maintenance, taken, view, crashes>>

\* human-action confirm_done.
HumanConfirm(t) ==
  /\ Room(t)
  /\ rows[t].state = "done"
  /\ Update(t, Bumped(rows[t]))
  /\ UNCHANGED <<answered, keys, issued, received, maintenance, taken, view, crashes>>

-------------------------------------------------------------------------------
(* HTTP thread: result callbacks.                                          *)

\* A result is checked against the current dispatch only while one is
\* marked running; at any other time every unknown invoke id is accepted.
CurrentInvoke(r, inv) ==
  Running(r) => inv = r.last_invoke_id /\ inv.role = r.dispatch_role

\* apply_result up to its transaction.  A result refused here changes nothing.
TakeResult(t, inv) ==
  /\ taken = NoResult
  /\ Room(t)
  /\ inv \in received[t]
  /\ inv \notin answered[t]
  /\ CurrentInvoke(rows[t], inv)
  /\ taken' = [task |-> t, invoke |-> inv]
  /\ UNCHANGED <<database, received, maintenance, view, crashes>>

\* The transaction; the dispatch is not looked at again.  A reviewer's success
\* outside reviewing raises and rolls everything back, the idempotency key
\* included.
ApplyResult(t, inv, status, decision) ==
  /\ taken = [task |-> t, invoke |-> inv]
  /\ (status = "succeeded" /\ inv.role = "reviewer") => rows[t].state = "reviewing"
  /\ Update(t, Settled(OutcomeOf(rows[t], inv.role, status, decision), inv))
  /\ answered' = [answered EXCEPT ![t] = @ \cup {inv}]
  /\ taken' = NoResult
  /\ UNCHANGED <<keys, issued, received, maintenance, view, crashes>>

-------------------------------------------------------------------------------
(* Maintenance thread: recovery.run_once.  The pass over blocked tasks     *)
(* only writes time stamps and events: it is in module Timers.             *)

StartCycle ==
  /\ pc = "sleep"
  /\ pc' = "select"
  /\ pass' = "executing"
  /\ UNCHANGED <<database, received, scan, batch, job, taken, view, crashes>>

\* _recover_state_timeouts: which rows of the state are overdue is up to the
\* clock.  It looks at every dispatch status.
SelectTimeouts ==
  /\ pc = "select"
  /\ pass \in {"executing", "reviewing"}
  /\ \E overdue \in SUBSET {t \in Tasks : rows[t].state = pass} :
       scan' = [release |-> overdue, exhaust |-> {}]
  /\ pc' = "write"
  /\ UNCHANGED <<database, received, pass, batch, job, taken, view, crashes>>

RetryCandidates ==
  {t \in Tasks : /\ rows[t].dispatch_status = "submit_failed"
                 /\ Open(rows[t])
                 /\ rows[t].dispatch_error_retryable}

\* Plausible fault: one attempt too early.
BudgetSpentEarly(r) == ~(r.dispatch_attempts + 1 < SubmitMaxAttempts)

BudgetSpent(r) == ~(r.dispatch_attempts < SubmitMaxAttempts)

\* Plausible fault: a task without budget is skipped instead of blocked.
SelectRetriesWithBudget ==
  /\ pc = "select"
  /\ pass = "retry"
  /\ \E waited \in SUBSET {t \in RetryCandidates : ~BudgetSpent(rows[t])} :
       scan' = [release |-> waited, exhaust |-> {}]
  /\ pc' = "write"
  /\ UNCHANGED <<database, received, pass, batch, job, taken, view, crashes>>

\* recover_retryable_submit_failures: which rows have waited long enough is
\* up to the clock; a spent budget is acted on at once.
SelectRetries ==
  /\ pc = "select"
  /\ pass = "retry"
  /\ LET spent == {t \in RetryCandidates : BudgetSpent(rows[t])}
     IN  \E waited \in SUBSET (RetryCandidates \ spent) :
           scan' = [release |-> waited, exhaust |-> spent]
  /\ pc' = "write"
  /\ UNCHANGED <<database, received, pass, batch, job, taken, view, crashes>>

\* Plausible fault: the pass finds nothing to release.
SelectNoInflight ==
  /\ pc = "select"
  /\ pass = "inflight"
  /\ scan' = NoScan
  /\ pc' = "write"
  /\ UNCHANGED <<database, received, pass, batch, job, taken, view, crashes>>

\* recover_inflight_dispatches: every running row, however recent.
SelectInflight ==
  /\ pc = "select"
  /\ pass = "inflight"
  /\ scan' = [release |-> {t \in Tasks : Running(rows[t]) /\ Open(rows[t])}, exhaust |-> {}]
  /\ pc' = "write"
  /\ UNCHANGED <<database, received, pass, batch, job, taken, view, crashes>>

Recovered(t) ==
  IF t \in scan.release THEN Released(rows[t])
  ELSE IF t \in scan.exhaust THEN Exhausted(rows[t])
  ELSE rows[t]

\* The loop over the selected rows and its commit; the rows are not read
\* again, so what a request did to them since the SELECT is overwritten.
WriteRecovery ==
  /\ pc = "write"
  /\ rows' = [t \in Tasks |-> Recovered(t)]
  /\ scan' = NoScan
  /\ \/ pass = "executing" /\ pass' = "reviewing" /\ pc' = "select"
     \/ pass = "reviewing" /\ pass' = "retry"     /\ pc' = "select"
     \/ pass = "retry"     /\ pass' = "inflight"  /\ pc' = "select"
     \/ pass = "inflight"  /\ pass' = "executing" /\ pc' = "schedule"
  /\ UNCHANGED <<answered, keys, issued, received, batch, job, taken, view, crashes>>

-------------------------------------------------------------------------------
(* Maintenance thread: scheduler.dispatch_ready_tasks.                     *)

\* The second conjunct is the bound MaxAttempts.
Schedulable ==
  {t \in Tasks : Ready(rows[t]) /\ rows[t].dispatch_attempts < MaxAttempts}

\* ORDER BY created_at LIMIT: all of them, or some BatchLimit of them.
SelectReady ==
  /\ pc = "schedule"
  /\ \E chosen \in SUBSET Schedulable :
       /\ \/ chosen = Schedulable /\ Cardinality(chosen) <= BatchLimit
          \/ Cardinality(chosen) = BatchLimit
       /\ batch' = chosen
  /\ pc' = "pick"
  /\ UNCHANGED <<database, received, pass, scan, job, taken, view, crashes>>

\* The hook and probe refresh at the end of the cycle touch no task.
EndCycle ==
  /\ pc = "pick"
  /\ batch = {}
  /\ pc' = "sleep"
  /\ UNCHANGED <<database, received, pass, scan, batch, job, taken, view, crashes>>

-------------------------------------------------------------------------------
(* Maintenance thread: dispatcher.dispatch_task.                           *)

\* Plausible fault: a task is dispatched only once.
DispatchableOnce(r) ==
  /\ ~r.blocked
  /\ Open(r)
  /\ r.current_role # NoRole
  /\ r.last_invoke_id = NoInvoke

\* The early returns: blocked, terminal, no role, already running.
Dispatchable(r) ==
  /\ ~r.blocked
  /\ Open(r)
  /\ r.current_role # NoRole
  /\ ~(Running(r) /\ r.dispatch_role = r.current_role)

SkipTask(t) ==
  /\ pc = "pick"
  /\ t \in batch
  /\ ~Dispatchable(rows[t])
  /\ batch' = batch \ {t}
  /\ UNCHANGED <<database, received, pc, pass, scan, job, taken, view, crashes>>

\* Plausible fault: the task stays in the batch.
ReadTaskAgain(t) ==
  /\ pc = "pick"
  /\ t \in batch
  /\ Dispatchable(rows[t])
  /\ job' = [NoJob EXCEPT !.task = t, !.role = rows[t].current_role,
                          !.attempts = rows[t].dispatch_attempts]
  /\ pc' = "build"
  /\ UNCHANGED <<database, received, pass, scan, batch, taken, view, crashes>>

\* The first read: role and attempts come from this row.
ReadTask(t) ==
  /\ pc = "pick"
  /\ t \in batch
  /\ Dispatchable(rows[t])
  /\ batch' = batch \ {t}
  /\ job' = [NoJob EXCEPT !.task = t, !.role = rows[t].current_role,
                          !.attempts = rows[t].dispatch_attempts]
  /\ pc' = "build"
  /\ UNCHANGED <<database, received, pass, scan, taken, view, crashes>>

\* Plausible fault: the attempt number is the one of the last dispatch.
BuildInvokeOffByOne ==
  /\ pc = "build"
  /\ job' = [job EXCEPT !.invoke =
               [role |-> job.role, version |-> rows[job.task].version,
                attempt |-> rows[job.task].dispatch_attempts]]
  /\ pc' = "mark"
  /\ UNCHANGED <<database, received, pass, scan, batch, taken, view, crashes>>

\* build_invoke reads the row again: version and attempt come from this one.
BuildInvoke ==
  /\ pc = "build"
  /\ job' = [job EXCEPT !.invoke =
               [role |-> job.role, version |-> rows[job.task].version,
                attempt |-> rows[job.task].dispatch_attempts + 1]]
  /\ pc' = "mark"
  /\ UNCHANGED <<database, received, pass, scan, batch, taken, view, crashes>>

\* The first transaction; the row is not read again.
MarkRunning ==
  /\ pc = "mark"
  /\ Update(job.task, Dispatched(rows[job.task], job.role, job.attempts + 1, job.invoke))
  /\ issued' = [issued EXCEPT ![job.task] = @ \cup {job.invoke}]
  /\ pc' = "submit"
  /\ UNCHANGED <<answered, keys, received, pass, scan, batch, job, taken, view, crashes>>

\* External: the invocation reaches the runtime, which may post its result
\* before submit_invoke returns (the CLI bridge always does).
RuntimeReceives ==
  /\ pc = "submit"
  /\ job.invoke \notin received[job.task]
  /\ received' = [received EXCEPT ![job.task] = @ \cup {job.invoke}]
  /\ UNCHANGED <<database, maintenance, taken, view, crashes>>

SubmitReturns ==
  /\ pc = "submit"
  /\ job.invoke \in received[job.task]
  /\ job' = NoJob
  /\ pc' = "pick"
  /\ UNCHANGED <<database, received, pass, scan, batch, taken, view, crashes>>

\* Plausible fault: the failure is not classified.
SubmitRaisesUnclassified(action) ==
  /\ pc = "submit"
  /\ pc' = "record"
  /\ UNCHANGED <<database, received, pass, scan, batch, job, taken, view, crashes>>

\* submit_invoke raises.  Except for a configuration error the runtime may
\* have got the invocation all the same.
SubmitRaises(action) ==
  /\ pc = "submit"
  /\ action = "block" => job.invoke \notin received[job.task]
  /\ job' = [job EXCEPT !.action = action]
  /\ pc' = "record"
  /\ UNCHANGED <<database, received, pass, scan, batch, taken, view, crashes>>

\* Plausible fault: only the invoke id is compared.
SameInvoke(r) == r.last_invoke_id = job.invoke

\* same_invoke and still_running.
StillOurs(r) ==
  /\ r.last_invoke_id = job.invoke
  /\ Running(r)
  /\ r.dispatch_role = job.role

\* The second transaction has a SELECT and a comparison before its first UPDATE,
\* which is what begins it in the database: a failure that finds the task moved
\* on is late_failure_ignored.
CheckFailure ==
  /\ pc = "record"
  /\ \/ StillOurs(rows[job.task]) /\ pc' = "fail" /\ UNCHANGED job
     \/ ~StillOurs(rows[job.task]) /\ pc' = "pick" /\ job' = NoJob
  /\ UNCHANGED <<database, received, pass, scan, batch, taken, view, crashes>>

\* The UPDATEs and the commit; the row is not read again.
RecordFailure ==
  /\ pc = "fail"
  /\ Update(job.task, SubmitFailed(rows[job.task], job.role, job.attempts + 1,
                                   job.invoke, job.action))
  /\ job' = NoJob
  /\ pc' = "pick"
  /\ UNCHANGED <<answered, keys, issued, received, pass, scan, batch, taken, view, crashes>>

-------------------------------------------------------------------------------
\* The process dies and is started again: the uncommitted work and the local
\* variables of its threads are gone, the database is not.
CrashAndRestart ==
  /\ crashes < MaxCrashes
  /\ pc # "sleep" \/ taken # NoResult
  /\ crashes' = crashes + 1
  /\ pc' = "sleep"
  /\ pass' = "executing"
  /\ scan' = NoScan
  /\ batch' = {}
  /\ job' = NoJob
  /\ taken' = NoResult
  /\ UNCHANGED <<database, received, view>>

Requests ==
  /\ taken = NoResult
  /\ \E t \in Tasks :
      \/ CreateTask(t, "inbox", "coordinator")
      \/ \E s \in SeedStates, role \in SeedRoles : CreateTask(t, s, role)
      \/ \E c \in Clients :
           \/ ReadView(c, t)
           \/ \E actor \in Roles :
                \/ \E new \in States : TransitionTask(c, t, actor, new)
                \/ \E key \in Keys \cup {NoKey} :
                     \/ \E decision \in Decisions : ReviewTask(c, t, actor, decision, key)
                     \/ CancelTask(c, t, actor, key)
      \/ \E key \in Keys \cup {NoKey} :
           BlockTask(t, key) \/ UnblockTask(t, key) \/ HumanCancel(t, key)
      \/ HumanReject(t)
      \/ HumanConfirm(t)

Callbacks ==
  \E t \in Tasks : \E inv \in received[t] :
    \/ TakeResult(t, inv)
    \/ \E status \in Statuses, decision \in Decisions : ApplyResult(t, inv, status, decision)

Maintenance ==
  \/ StartCycle
  \/ SelectTimeouts
  \/ SelectRetries
  \/ SelectInflight
  \/ WriteRecovery
  \/ SelectReady
  \/ EndCycle
  \/ \E t \in batch : SkipTask(t) \/ ReadTask(t)
  \/ BuildInvoke
  \/ MarkRunning
  \/ SubmitReturns
  \/ \E action \in RecoveryActions : SubmitRaises(action)
  \/ CheckFailure
  \/ RecordFailure

Next == Requests \/ Callbacks \/ Maintenance \/ RuntimeReceives \/ CrashAndRestart

Spec == Init /\ [][Next]_vars
================================================================================
