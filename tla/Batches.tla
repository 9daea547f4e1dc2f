------------------------------- MODULE Batches -------------------------------
(***************************************************************************)
(* Which tasks a maintenance cycle dispatches, and who waits: the passes   *)
(* of recovery.run_once put tasks back into the queue of the scheduler,    *)
(* which takes a batch of the oldest.                                      *)
(*                                                                         *)
(* Module Sidecar has the passes and the dispatcher step by step, for a    *)
(* bounded number of dispatches and without the order of the tasks.  Here  *)
(* a pass and a dispatch are one step each, of a row only its place in the *)
(* queue is kept, and neither dispatches nor results nor requests are      *)
(* bounded: that a task comes back again and again is what others wait     *)
(* for, and neither the review rounds nor the unblocking have a limit.     *)
(***************************************************************************)
EXTENDS Naturals, FiniteSets

CONSTANTS
  LastTask,          \* bound: the tasks are 1..LastTask, in the order of created_at
  BatchLimit,        \* limit (10 in the code)
  SubmitMaxAttempts  \* submit_retry_max_attempts

ASSUME BatchAssumption ==
  /\ LastTask \in Nat
  /\ BatchLimit \in Nat \ {0}
  /\ SubmitMaxAttempts \in Nat

Tasks == 1..LastTask

VARIABLES
  place,    \* "open", "aside" (blocked, or no role: waits for a human), "closed"
  status,   \* dispatch_status; "retry" and "hold" are submit_failed, retryable or not
  attempts, \* dispatch_attempts, counted up to SubmitMaxAttempts
  pc,       \* maintenance thread: the next pass
  batch     \* the selected tasks that are not yet dispatched

vars == <<place, status, attempts, pc, batch>>

Places   == {"open", "aside", "closed"}
Statuses == {"idle", "running", "retry", "hold"}

Init ==
  /\ place = [t \in Tasks |-> "open"]
  /\ status = [t \in Tasks |-> "idle"]
  /\ attempts = [t \in Tasks |-> 0]
  /\ pc = "timeouts"
  /\ batch = {}

AtMost(x, bound) == IF x < bound THEN x ELSE bound

\* The WHERE clause of dispatch_ready_tasks.
Ready == {t \in Tasks : place[t] = "open" /\ status[t] = "idle"}

Remaining == {t \in Tasks : place[t] # "closed"}

Goes(from, to) == pc = from /\ pc' = to

-------------------------------------------------------------------------------
(* recovery.run_once.                                                       *)

BackToIdle(released) == [t \in Tasks |-> IF t \in released THEN "idle" ELSE status[t]]

\* recover_execution_timeouts and recover_review_timeouts; when a task is
\* overdue is module Timers' matter.
TimeoutPass ==
  /\ Goes("timeouts", "retry")
  /\ \E overdue \in SUBSET Remaining : status' = BackToIdle(overdue)
  /\ UNCHANGED <<place, attempts, batch>>

\* Plausible fault: the budget is not looked at.
RetryPassForever ==
  /\ Goes("retry", "inflight")
  /\ \E waited \in SUBSET {t \in Remaining : status[t] = "retry"} :
       status' = BackToIdle(waited)
  /\ UNCHANGED <<place, attempts, batch>>

\* recover_retryable_submit_failures.
RetryPass ==
  LET failed == {t \in Remaining : status[t] = "retry"}
      spent  == {t \in failed : attempts[t] >= SubmitMaxAttempts}
  IN  /\ Goes("retry", "inflight")
      /\ \E waited \in SUBSET (failed \ spent) : status' = BackToIdle(waited \cup spent)
      /\ place' = [t \in Tasks |-> IF t \in spent THEN "aside" ELSE place[t]]
      /\ UNCHANGED <<attempts, batch>>

\* recover_inflight_dispatches.
InflightPass ==
  /\ Goes("inflight", "schedule")
  /\ status' = BackToIdle({t \in Remaining : status[t] = "running"})
  /\ UNCHANGED <<place, attempts, batch>>

-------------------------------------------------------------------------------
(* scheduler.dispatch_ready_tasks.                                          *)

\* ORDER BY created_at, task_id LIMIT.
Oldest == {t \in Ready : Cardinality({u \in Ready : u < t}) < BatchLimit}

SelectReady ==
  /\ Goes("schedule", "dispatch")
  /\ batch' = Oldest
  /\ UNCHANGED <<place, status, attempts>>

IsNext(t) == t \in batch /\ \A u \in batch : t <= u

\* dispatch_task: the runtime accepts, or the failure is classified.
Dispatch(t) ==
  /\ pc = "dispatch"
  /\ IsNext(t)
  /\ place[t] = "open"
  /\ batch' = batch \ {t}
  /\ attempts' = [attempts EXCEPT ![t] = AtMost(@ + 1, SubmitMaxAttempts)]
  /\ \/ \E outcome \in {"running", "retry", "hold"} :
          status' = [status EXCEPT ![t] = outcome] /\ UNCHANGED place
     \/ place' = [place EXCEPT ![t] = "aside"] /\ UNCHANGED status
  /\ UNCHANGED pc

\* Blocked or finished since it was selected.
SkipTask(t) ==
  /\ pc = "dispatch"
  /\ IsNext(t)
  /\ place[t] # "open"
  /\ batch' = batch \ {t}
  /\ UNCHANGED <<place, status, attempts, pc>>

EndCycle ==
  /\ Goes("dispatch", "timeouts")
  /\ batch = {}
  /\ UNCHANGED <<place, status, attempts, batch>>

-------------------------------------------------------------------------------
(* HTTP thread.                                                             *)

\* apply_result ends the dispatch and leaves the task to the next role, to a
\* human, blocked or done.
ApplyResult(t) ==
  /\ t \in Remaining
  /\ attempts[t] > 0
  /\ status' = [status EXCEPT ![t] = "idle"]
  /\ \E p \in Places : place' = [place EXCEPT ![t] = p]
  /\ UNCHANGED <<attempts, pc, batch>>

\* block, unblock, review, transition, confirm: they leave the dispatch alone.
ClientRequest(t) ==
  /\ t \in Remaining
  /\ \E p \in Places \ {place[t]} : place' = [place EXCEPT ![t] = p]
  /\ UNCHANGED <<status, attempts, pc, batch>>

-------------------------------------------------------------------------------
Recovery    == TimeoutPass \/ RetryPass \/ InflightPass
Scheduler   == SelectReady \/ (\E t \in batch : Dispatch(t) \/ SkipTask(t)) \/ EndCycle
Maintenance == Recovery \/ Scheduler

Next == Maintenance \/ \E t \in Tasks : ApplyResult(t) \/ ClientRequest(t)

\* The maintenance thread runs.
Spec == Init /\ [][Next]_vars /\ WF_vars(Maintenance)

-------------------------------------------------------------------------------
TypeOK ==
  /\ place \in [Tasks -> Places]
  /\ status \in [Tasks -> Statuses]
  /\ attempts \in [Tasks -> 0..SubmitMaxAttempts]
  /\ pc \in {"timeouts", "retry", "inflight", "schedule", "dispatch"}
  /\ batch \in SUBSET Tasks
  /\ Cardinality(batch) <= BatchLimit

\* A task gets (back) into the queue, and it is not the retry pass that puts it
\* there: the in-flight pass, which does not wait for an answer, a timeout, a
\* result that leaves it to the next role, or a request (unblock, confirm).
Requeued(t) == t \notin Ready /\ t \in Ready' /\ ~RetryPass

\* A ready task is passed over for ever only if at least BatchLimit older tasks
\* are requeued for ever: a task that only fails to be submitted, however it
\* fails, does not keep its place in front, and a task that comes back less often
\* than for ever does not either (scheduler.py:55-60, ORDER BY created_at LIMIT
\* 10).
PassedOverOnlyForRequeued ==
  \A t \in Tasks : \A others \in SUBSET (1..(t - 1)) :
    Cardinality(others) < BatchLimit =>
      ((\A u \in (1..(t - 1)) \ others : <>[][~Requeued(u)]_vars)
         => (t \in Ready ~> t \notin Ready))
===============================================================================
