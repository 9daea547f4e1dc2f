------------------------------ MODULE TaskKernel ------------------------------
(***************************************************************************)
(* The task row (storage.py, table tasks) and what each kernel operation   *)
(* does to it, as operators from rows to rows.  One operator stands for    *)
(* the UPDATE statements of one function of api.py, models.py, result.py,  *)
(* dispatcher.py or recovery.py; which process applies it, and when, is    *)
(* in module Sidecar.                                                      *)
(*                                                                         *)
(* Columns that only carry text or time (title, goal, evidence, block      *)
(* reason, summaries, timestamps) are left out.                            *)
(***************************************************************************)
EXTENDS Naturals, TaskStates

(***************************************************************************)
(* An invoke id is the string inv:{task}:{role}:v{version}:a{attempt}      *)
(* (agent_invoke.py); the task is the index of the row it is kept under.   *)
(***************************************************************************)
Invokes == [role : Roles, version : Nat, attempt : Nat]

NoInvoke == [role |-> NoRole, version |-> 0, attempt |-> 0]

DispatchStatuses == {"idle", "running", "submit_failed"}

\* The two values of waiting_on the runtime writes itself; "none" is NULL or
\* the text an API caller gave.
RuntimeReasons == {"runtime_configuration", "runtime_retry_budget"}

Rows ==
  [state                     : States \cup {Absent},
   current_role              : Roles \cup {NoRole},
   version                   : Nat,
   review_round              : Nat,
   rework_priority_available : BOOLEAN,
   rework_priority_used      : BOOLEAN,
   blocked                   : BOOLEAN,
   waiting_on                : RuntimeReasons \cup {"none"},
   dispatch_status           : DispatchStatuses,
   dispatch_role             : Roles \cup {NoRole},
   dispatch_attempts         : Nat,
   dispatch_error_retryable  : BOOLEAN,
   last_invoke_id            : Invokes \cup {NoInvoke}]

AbsentRow ==
  [state |-> Absent, current_role |-> NoRole, version |-> 0, review_round |-> 0,
   rework_priority_available |-> FALSE, rework_priority_used |-> FALSE,
   blocked |-> FALSE, waiting_on |-> "none",
   dispatch_status |-> "idle", dispatch_role |-> NoRole, dispatch_attempts |-> 0,
   dispatch_error_retryable |-> FALSE, last_invoke_id |-> NoInvoke]

Exists(r)  == r.state # Absent
Open(r)    == r.state \in States \ Terminal
Running(r) == r.dispatch_status = "running"

-------------------------------------------------------------------------------
(* api.py, models.py: create, move, block, unblock. *)

\* create_task with the column defaults of the schema; nothing relates the
\* role to the state.
NewRow(s, role) == [AbsentRow EXCEPT !.state = s, !.current_role = role, !.version = 1]

Bumped(r) == [r EXCEPT !.version = @ + 1]

\* _update_task_state without a review.  blocked and the dispatch columns
\* are not touched, whatever the new state is.
Entered(r, s) ==
  [r EXCEPT !.state = s,
            !.current_role = RoleForState(s),
            !.version = @ + 1,
            !.rework_priority_available =
               PriorityAvailable(r.state, s, @, r.rework_priority_used),
            !.rework_priority_used =
               PriorityUsed(r.state, s, r.rework_priority_available, @)]

Decisions == {"approve", "reject"}

DecidedState(decision) == IF decision = "approve" THEN "done" ELSE "rework"

\* _update_task_state with increment_review_round.
Reviewed(r, decision) ==
  [Entered(r, DecidedState(decision)) EXCEPT !.review_round = @ + 1]

\* mark_task_blocked: no version bump; _block_task adds it.
MarkedBlocked(r, why) == [r EXCEPT !.blocked = TRUE, !.waiting_on = why]

BlockedByApi(r) == Bumped(MarkedBlocked(r, "none"))

UnblockedByApi(r) == Bumped([r EXCEPT !.blocked = FALSE, !.waiting_on = "none"])

-------------------------------------------------------------------------------
(* result.py: what a role's result does to the row. *)

CoordinatorDone(r) ==
  LET triaging == IF r.state = "inbox" THEN Entered(r, "triaging") ELSE r
  IN  IF triaging.state = "triaging" THEN Entered(triaging, "queued") ELSE triaging

ExecutorDone(r) ==
  LET executing == IF r.state \in {"queued", "rework"} THEN Entered(r, "executing") ELSE r
  IN  IF executing.state = "executing" THEN Entered(executing, "reviewing") ELSE executing

SuccessOf(r, role, decision) ==
  CASE role = "coordinator" -> CoordinatorDone(r)
    [] role = "executor"    -> ExecutorDone(r)
    [] role = "reviewer"    -> Reviewed(r, decision)

\* "succeeded" moves the task; "blocked" and every other status block it.
Statuses == {"succeeded", "blocked", "failed"}

OutcomeOf(r, role, status, decision) ==
  IF status = "succeeded" THEN SuccessOf(r, role, decision) ELSE BlockedByApi(r)

\* Plausible fault: the dispatch is not closed with the result.
SettledStillRunning(r, inv) == [r EXCEPT !.last_invoke_id = inv]

\* The last UPDATE of apply_result.
Settled(r, inv) ==
  [r EXCEPT !.last_invoke_id = inv, !.dispatch_status = "idle", !.dispatch_role = NoRole,
            !.dispatch_error_retryable = FALSE]

-------------------------------------------------------------------------------
(* dispatcher.py, recovery.py: the dispatch columns. *)

Dispatched(r, role, attempts, inv) ==
  [r EXCEPT !.dispatch_status = "running", !.dispatch_role = role,
            !.dispatch_attempts = attempts, !.last_invoke_id = inv,
            !.dispatch_error_retryable = FALSE]

\* _submission_recovery_action: what follows a failed submission.
RecoveryActions == {"block", "retry", "hold"}

SubmitFailed(r, role, attempts, inv, action) ==
  LET failed == [r EXCEPT !.dispatch_attempts = attempts, !.last_invoke_id = inv,
                          !.dispatch_error_retryable = (action = "retry")]
  IN  IF action = "block"
      THEN MarkedBlocked([failed EXCEPT !.dispatch_status = "idle",
                                        !.dispatch_role = NoRole],
                         "runtime_configuration")
      ELSE [failed EXCEPT !.dispatch_status = "submit_failed", !.dispatch_role = role]

\* Plausible fault: a released task starts counting from zero.
ReleasedAndReset(r) ==
  [r EXCEPT !.dispatch_status = "idle", !.dispatch_role = NoRole, !.dispatch_attempts = 0]

\* _release_dispatch, and the same UPDATE in recover_retryable_submit_failures.
Released(r) == [r EXCEPT !.dispatch_status = "idle", !.dispatch_role = NoRole]

\* _block_retry_exhausted_submit_failure.
Exhausted(r) == MarkedBlocked(Released(r), "runtime_retry_budget")

\* The WHERE clause of dispatch_ready_tasks.
Ready(r) ==
  /\ ~r.blocked
  /\ r.current_role # NoRole
  /\ Open(r)
  /\ r.dispatch_status = "idle"
===============================================================================
