----------------------------- MODULE SidecarProps -----------------------------
(***************************************************************************)
(* What module Sidecar must satisfy.                                       *)
(***************************************************************************)
EXTENDS Sidecar

-------------------------------------------------------------------------------
(* Types. *)

Scans == [release : SUBSET Tasks, exhaust : SUBSET Tasks]

Jobs == [task     : Tasks \cup {NoTask},
         role     : Roles \cup {NoRole},
         attempts : Nat,
         invoke   : Invokes \cup {NoInvoke},
         action   : RecoveryActions \cup {"none"}]

Results == [task : Tasks \cup {NoTask}, invoke : Invokes \cup {NoInvoke}]

Views == [task         : Tasks \cup {NoTask},
          version      : Nat,
          state        : States \cup {Absent},
          review_round : Nat]

\* Where dispatch_task has a task in hand.
Dispatching == {"build", "mark", "submit", "record", "fail"}

Steps == {"sleep", "select", "write", "schedule", "pick"} \cup Dispatching

\* Every variable has its type; in the middle of dispatch_task there is a
\* task, and a failure that is being recorded has a recovery action.
TypeOK ==
  /\ rows     \in [Tasks -> Rows]
  /\ answered \in [Tasks -> SUBSET Invokes]
  /\ keys     \in [Tasks -> SUBSET Keys]
  /\ issued   \in [Tasks -> SUBSET Invokes]
  /\ received \in [Tasks -> SUBSET Invokes]
  /\ pc       \in Steps
  /\ pass     \in Passes
  /\ scan     \in Scans
  /\ batch    \in SUBSET Tasks
  /\ job      \in Jobs
  /\ taken    \in Results
  /\ view     \in [Clients -> Views]
  /\ crashes  \in Nat
  /\ pc \in Dispatching => job.task \in Tasks /\ job.role \in Roles
  /\ pc \in {"mark", "submit", "record", "fail"} => job.invoke \in Invokes
  /\ pc \in {"record", "fail"} => job.action \in RecoveryActions

-------------------------------------------------------------------------------
(* Safety. *)

\* An invoke id names one dispatch for ever.  It is the idempotency key of
\* the result (docs/adapter-contract.md 5.4), so two dispatches of a task
\* that shared one would have the second answer dropped as a replay.  Every
\* id handed out carries an attempt number of its own, no higher than the
\* counter of the row, across crashes, recoveries and new versions.
DispatchIdentity ==
  \A t \in Tasks :
    /\ \A i \in issued[t] : /\ i.attempt <= rows[t].dispatch_attempts
                            /\ i.version <= rows[t].version
    /\ \A i, j \in issued[t] : i.attempt = j.attempt => i = j

\* A row marked running waits for the result of its latest dispatch: that
\* dispatch was issued to the role the row names, and its result has not been
\* applied yet.  Otherwise the row would wait for an answer that apply_result
\* drops as a replay, and only recovery could free it.
RunningAwaitsResult ==
  \A t \in Tasks : Running(rows[t]) =>
    LET inv == rows[t].last_invoke_id
    IN  /\ inv \in issued[t] \ answered[t]
        /\ inv.attempt = rows[t].dispatch_attempts
        /\ inv.role = rows[t].dispatch_role

\* While dispatch_task has a task in hand, no request, result or other step
\* moves the attempt counter of its row: the attempt in the invoke id (second
\* read), the one written to the row (first read) and the one the row holds
\* until the failure is recorded are the same number, so that the record, which
\* writes the counter without reading it, sets nothing back.
AttemptsHeld ==
  LET r == rows[job.task]
  IN  /\ pc \in Dispatching => Exists(r)
      /\ pc \in {"build", "mark"} => job.attempts = r.dispatch_attempts
      /\ pc = "mark" => job.invoke.version <= r.version
      /\ pc \in {"submit", "record", "fail"} => /\ job.invoke.attempt = r.dispatch_attempts
                                                /\ job.invoke \in issued[job.task]
      /\ pc \in {"mark", "submit", "record", "fail"} =>
           /\ job.invoke.attempt = job.attempts + 1
           /\ job.invoke.role = job.role

\* The version of a row identifies its state and its review round for every
\* client: whoever read version v and finds version v sees what it read, so a
\* transition, a review or a cancel that passes _check_expected_version acts
\* on the state its caller decided on (no lost update), although block,
\* unblock, human actions, results and the maintenance thread write the row
\* without that check.
VersionIdentifiesState ==
  \A c \in Clients : view[c].task \in Tasks =>
    LET r == rows[view[c].task]
    IN  /\ view[c].version <= r.version
        /\ view[c].version = r.version => /\ view[c].state = r.state
                                          /\ view[c].review_round = r.review_round

\* Callers create a task with any state and any role (api.py:92-93), but a task
\* in a state nobody creates tasks in is dispatched to the owner of that state
\* and, once finished, to nobody, however it got there; and an open task always
\* has a role: the scheduler would never select it without one.
RoleFollowsState ==
  \A t \in Tasks :
    /\ Open(rows[t]) => rows[t].current_role # NoRole
    /\ \/ rows[t].current_role = RoleForState(rows[t].state)
       \/ rows[t].state \in SeedStates \cup {"inbox"}

\* The rework priority is granted once in the life of a task and spent on the
\* first rework: it is never both available and used, and it is available only
\* while that rework has not started (or never will, once cancelled).
ReworkPriorityOnce ==
  \A t \in Tasks : rows[t].rework_priority_available =>
    /\ ~rows[t].rework_priority_used
    /\ rows[t].state \in {"rework", "cancelled"}

\* The columns derived from the history of a row agree with its state, whichever
\* of requests, results and recovery wrote it last.
RowsConsistent == RoleFollowsState /\ ReworkPriorityOnce

\* A task the runtime itself blocked (configuration error, spent retry budget)
\* is neither running nor waiting for a retry, so that nothing dispatches it
\* again before an operator has unblocked it.
RuntimeBlockHolds ==
  \A t \in Tasks : rows[t].waiting_on \in RuntimeReasons =>
    rows[t].blocked /\ rows[t].dispatch_status = "idle"

\* Recovery blocks a task for its retry budget only when that many dispatches
\* were really made, although it decides on a row it read earlier.
BudgetReallySpent ==
  \A t \in Tasks : rows[t].waiting_on = "runtime_retry_budget" =>
    Cardinality(issued[t]) >= SubmitMaxAttempts

\* A block by the runtime is deserved, and it holds.
RuntimeBlocksSound == RuntimeBlockHolds /\ BudgetReallySpent

\* Result truth wins over a submit failure that is late enough: when the result of
\* an invocation was applied before dispatch_task looks whether its failure still
\* matters, that failure is not recorded, whatever became of the row since, another
\* result included.  (A result applied between that look and the UPDATE is lost to
\* it: README.md, section 4.)
SeenAnswerWins ==
  [][pc = "record" /\ job.invoke \in answered[job.task] => pc' # "fail"]_vars


\* A dispatch never takes over a row that another invocation is running on.
NoTakeover ==
  [][\A t \in Tasks : Running(rows[t]) /\ Running(rows'[t]) =>
       rows'[t].last_invoke_id = rows[t].last_invoke_id]_vars

-------------------------------------------------------------------------------
(* Refinement: the sidecar implements the task lifecycle. *)

Lifecycle == INSTANCE TaskLifecycle WITH
  SeedStates <- SeedStates \cup {"inbox"},
  state   <- [t \in Tasks |-> rows[t].state],
  round   <- [t \in Tasks |-> rows[t].review_round],
  version <- [t \in Tasks |-> rows[t].version]

\* Whatever order requests, callbacks, recovery and crashes come in, each task
\* obeys TaskLifecycle: no edge outside the state machine, no exit from done or
\* cancelled, recovery never forges done, one review round per decision.
ImplementsLifecycle == Lifecycle!LifecycleSpec

-------------------------------------------------------------------------------
(* Refinement: the sidecar implements the delivery of invocations. *)

Delivered == INSTANCE Delivery WITH
  current <- [t \in Tasks |-> IF Running(rows[t]) THEN rows[t].last_invoke_id
                                                  ELSE NoInvoke]

\* Whatever order dispatches, failures, results, recovery and crashes come in,
\* each task obeys Delivery: no two invocations at a time, no id used again, no
\* dispatch taken over by another, no result applied twice, no result of an
\* invocation that was never dispatched.
ImplementsDelivery == Delivered!DeliverySpec

-------------------------------------------------------------------------------
(* Liveness.  Module TimerProps states the fairness: that of the           *)
(* maintenance thread and of the clock.                                    *)

\* A dispatch left marked running (its answer lost, its process killed between
\* mark and submit) does not hold its task for ever: the task is released,
\* answered, dispatched anew or finished.  docs/plans/
\* 2026-03-13-recovery-implementation-plan.md:172.
InflightNeverStuck ==
  \A t \in Tasks, a \in 1..MaxAttempts :
    Running(rows[t]) /\ Open(rows[t]) /\ rows[t].dispatch_attempts = a
      ~> \/ ~Running(rows[t])
         \/ ~Open(rows[t])
         \/ rows[t].dispatch_attempts # a

\* dispatch_task is about to write a failure into the row of the task.
Failing(t) == pc = "fail" /\ job.task = t

\* A task that is ready is dispatched, unless it is blocked or finished first; a
\* task whose failure is about to be recorded only looks ready.
ReadyIsDispatched ==
  \A t \in Tasks, a \in 0..(MaxAttempts - 1) :
    Ready(rows[t]) /\ ~Failing(t) /\ rows[t].dispatch_attempts = a
      ~> rows[t].dispatch_attempts > a \/ rows[t].blocked \/ ~Open(rows[t])

\* A retryable submit failure is either retried or blocked for the operator:
\* it does not stay submit_failed with nobody looking at it.
RetryableNeverStuck ==
  \A t \in Tasks :
    t \in RetryCandidates /\ ~rows[t].blocked
      ~> t \notin RetryCandidates \/ rows[t].blocked
===============================================================================
