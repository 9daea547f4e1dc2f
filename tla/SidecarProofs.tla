----------------------------- MODULE SidecarProofs -----------------------------
(***************************************************************************)
(* Theorems about Sidecar, for every set of tasks, clients and keys and    *)
(* every bound.                                                            *)
(*                                                                         *)
(* The first part says what the row operators of TaskKernel do to the      *)
(* columns the invariants talk about, so that no later proof looks inside  *)
(* them.  The second part is the inductive invariant and its proof, the    *)
(* third the theorems that follow from it, the fourth the refinements, the *)
(* last one what is proved of liveness.                                    *)
(***************************************************************************)
EXTENDS SidecarProps, FiniteSetTheorems, TLAPS

-------------------------------------------------------------------------------
(* Rows. *)

\* The dispatch columns are as they were.
SameDispatch(r, q) ==
  /\ q.dispatch_status = r.dispatch_status
  /\ q.dispatch_role = r.dispatch_role
  /\ q.dispatch_attempts = r.dispatch_attempts
  /\ q.last_invoke_id = r.last_invoke_id

\* What a client that holds the version knows stays true.
Advances(r, q) ==
  /\ q.version >= r.version
  /\ q.version = r.version => q.state = r.state /\ q.review_round = r.review_round

\* RoleFollowsState and ReworkPriorityOnce, for one row.
RowOK(r) ==
  /\ Open(r) => r.current_role # NoRole
  /\ \/ r.current_role = RoleForState(r.state)
     \/ r.state \in SeedStates \cup {"inbox"}
  /\ r.rework_priority_available =>
       ~r.rework_priority_used /\ r.state \in {"rework", "cancelled"}

\* Only the maintenance thread writes its own reasons.
BlockKept(r, q) ==
  \/ q.waiting_on = "none"
  \/ q.waiting_on = r.waiting_on /\ q.blocked = r.blocked

\* What every operation of the API and every result does to a row, the
\* dispatch columns aside.
KernelStep(r, q) ==
  /\ q \in Rows
  /\ Exists(q)
  /\ Advances(r, q)
  /\ RowOK(r) => RowOK(q)
  /\ BlockKept(r, q)

\* Kernel steps compose: a result takes up to two transitions.
LEMMA KernelStepTransitive ==
  ASSUME NEW r \in Rows, NEW q, NEW p, KernelStep(r, q), KernelStep(q, p)
  PROVE  KernelStep(r, p)
  BY DEF KernelStep, Advances, BlockKept, Rows

\* A row is a kernel step away from itself.
LEMMA KernelStepReflexive ==
  ASSUME NEW r \in Rows, Exists(r)
  PROVE  KernelStep(r, r)
  BY DEF KernelStep, Advances, BlockKept, Rows

\* RowOK reads four columns.
LEMMA RowOKReads ==
  ASSUME NEW r, NEW q, RowOK(r), q.state = r.state, q.current_role = r.current_role,
         q.rework_priority_available = r.rework_priority_available,
         q.rework_priority_used = r.rework_priority_used
  PROVE  RowOK(q)
  BY DEF RowOK, Open

\* A transition along an edge of the state machine.
LEMMA EnteredStep ==
  ASSUME NEW r \in Rows, NEW s \in States, IsValidTransition(r.state, s)
  PROVE  /\ KernelStep(r, Entered(r, s))
         /\ SameDispatch(r, Entered(r, s))
         /\ Entered(r, s).state = s
         /\ Entered(r, s).version = r.version + 1
         /\ Entered(r, s).review_round = r.review_round
<1> DEFINE q == Entered(r, s)
<1>1. RoleForState(s) \in Roles \cup {NoRole}
  BY DEF RoleForState, Roles, NoRole
<1>2. /\ PriorityAvailable(r.state, s, r.rework_priority_available,
                           r.rework_priority_used) \in BOOLEAN
      /\ PriorityUsed(r.state, s, r.rework_priority_available,
                      r.rework_priority_used) \in BOOLEAN
  BY DEF PriorityAvailable, PriorityUsed, Rows
<1>3. q \in Rows
  <2>1. r.version + 1 \in Nat
    BY DEF Rows
  <2>2. ASSUME NEW v \in Nat, NEW role \in Roles \cup {NoRole},
               NEW a \in BOOLEAN, NEW u \in BOOLEAN
        PROVE  [r EXCEPT !.state = s, !.current_role = role, !.version = v,
                         !.rework_priority_available = a,
                         !.rework_priority_used = u] \in Rows
    BY DEF Rows
  <2> QED
    BY <1>1, <1>2, <2>1, <2>2, Zenon DEF Entered
<1>4. /\ q.state = s
      /\ q.version = r.version + 1
      /\ q.review_round = r.review_round
      /\ q.current_role = RoleForState(s)
      /\ q.waiting_on = r.waiting_on
      /\ q.blocked = r.blocked
      /\ SameDispatch(r, q)
  BY DEF Entered, Rows, SameDispatch
<1>5. ASSUME RowOK(r) PROVE RowOK(q)
  <2>1. /\ q.rework_priority_available =
             PriorityAvailable(r.state, s, r.rework_priority_available,
                               r.rework_priority_used)
        /\ q.rework_priority_used =
             PriorityUsed(r.state, s, r.rework_priority_available,
                          r.rework_priority_used)
    BY DEF Entered, Rows
  <2>2. /\ r.rework_priority_available \in BOOLEAN
        /\ r.rework_priority_used \in BOOLEAN
    BY DEF Rows
  <2>3. r.state \notin {"done", "cancelled"}
    BY DEF IsValidTransition, AllowedTransitions, Terminal
  <2> QED
    BY <1>4, <1>5, <2>1, <2>2, <2>3
    DEF RowOK, PriorityAvailable, PriorityUsed, IsValidTransition, AllowedTransitions,
        Terminal, States, Open, RoleForState, NoRole
<1>6. Exists(q)
  BY <1>4 DEF Exists, States, Absent
<1>7. Advances(r, q)
  BY <1>4 DEF Advances, Rows
<1> QED
  BY <1>3, <1>4, <1>5, <1>6, <1>7 DEF KernelStep, BlockKept

\* A review: approve finishes the task, reject sends it to rework.
LEMMA ReviewedStep ==
  ASSUME NEW r \in Rows, r.state = "reviewing", NEW decision \in Decisions
  PROVE  /\ KernelStep(r, Reviewed(r, decision))
         /\ SameDispatch(r, Reviewed(r, decision))
         /\ Reviewed(r, decision).state = DecidedState(decision)
         /\ Reviewed(r, decision).version = r.version + 1
         /\ Reviewed(r, decision).review_round = r.review_round + 1
<1> DEFINE e == Entered(r, DecidedState(decision))
           q == Reviewed(r, decision)
<1>1. DecidedState(decision) \in States /\ IsValidTransition(r.state, DecidedState(decision))
  BY DEF DecidedState, Decisions, States, IsValidTransition, AllowedTransitions
<1>2. /\ KernelStep(r, e)
      /\ SameDispatch(r, e)
      /\ e.state = DecidedState(decision)
      /\ e.version = r.version + 1
      /\ e.review_round = r.review_round
  BY <1>1, EnteredStep
<1>3. e \in Rows
  BY <1>2 DEF KernelStep
<1>4. q = [e EXCEPT !.review_round = e.review_round + 1]
  BY DEF Reviewed
<1>5. q \in Rows
  <2>1. e.review_round + 1 \in Nat
    BY <1>3 DEF Rows
  <2> QED
    BY <1>3, <1>4, <2>1 DEF Rows
<1>6. /\ q.state = e.state
      /\ q.version = e.version
      /\ q.review_round = r.review_round + 1
      /\ q.current_role = e.current_role
      /\ q.rework_priority_available = e.rework_priority_available
      /\ q.rework_priority_used = e.rework_priority_used
      /\ q.waiting_on = e.waiting_on
      /\ q.blocked = e.blocked
      /\ SameDispatch(e, q)
  BY <1>2, <1>3, <1>4 DEF Rows, SameDispatch
<1> HIDE DEF e, q
<1>7. Advances(r, q)
  BY <1>2, <1>6 DEF Advances, Rows
<1>8. RowOK(r) => RowOK(q)
  BY <1>2, <1>6, RowOKReads DEF KernelStep
<1>9. KernelStep(r, q)
  BY <1>2, <1>5, <1>6, <1>7, <1>8 DEF KernelStep, Exists, BlockKept
<1>10. SameDispatch(r, q)
  BY <1>2, <1>6 DEF SameDispatch
<1> QED
  BY <1>2, <1>6, <1>9, <1>10 DEF q

\* Block, unblock and confirm touch the flag and the version only.
LEMMA FlagStep ==
  ASSUME NEW r \in Rows, Exists(r),
         NEW q \in {Bumped(r), BlockedByApi(r), UnblockedByApi(r)}
  PROVE  /\ KernelStep(r, q)
         /\ SameDispatch(r, q)
         /\ q.state = r.state
         /\ q.version = r.version + 1
         /\ q.review_round = r.review_round
<1>1. r.version + 1 \in Nat
  BY DEF Rows
<1>2. q \in Rows
  <2>1. ASSUME NEW p \in Rows, p.version = r.version PROVE Bumped(p) \in Rows
    BY <1>1, <2>1 DEF Bumped, Rows
  <2>2. MarkedBlocked(r, "none") \in Rows /\ MarkedBlocked(r, "none").version = r.version
    BY DEF MarkedBlocked, Rows
  <2> DEFINE p == [r EXCEPT !.blocked = FALSE, !.waiting_on = "none"]
  <2>4. p \in Rows /\ p.version = r.version
    BY DEF Rows
  <2>5. CASE q = Bumped(r)
    BY <2>1, <2>5
  <2>6. CASE q = BlockedByApi(r)
    BY <2>1, <2>2, <2>6 DEF BlockedByApi
  <2>7. CASE q = UnblockedByApi(r)
    BY <2>1, <2>4, <2>7 DEF UnblockedByApi
  <2> QED
    BY <2>5, <2>6, <2>7
<1>3. /\ q.state = r.state
      /\ q.version = r.version + 1
      /\ q.review_round = r.review_round
      /\ q.current_role = r.current_role
      /\ q.rework_priority_available = r.rework_priority_available
      /\ q.rework_priority_used = r.rework_priority_used
      /\ SameDispatch(r, q)
      /\ BlockKept(r, q)
  <2>1. CASE q = Bumped(r)
    BY <2>1 DEF Bumped, Rows, SameDispatch, BlockKept
  <2>2. CASE q = BlockedByApi(r)
    BY <2>2 DEF Bumped, BlockedByApi, MarkedBlocked, Rows, SameDispatch, BlockKept
  <2>3. CASE q = UnblockedByApi(r)
    BY <2>3 DEF Bumped, UnblockedByApi, Rows, SameDispatch, BlockKept
  <2> QED
    BY <2>1, <2>2, <2>3
<1>4. RowOK(r) => RowOK(q)
  BY <1>3, RowOKReads
<1> QED
  BY <1>2, <1>3, <1>4 DEF KernelStep, Advances, Exists, Rows

\* The edges and double edges of TaskLifecycle, for one row.
Moved(r, q) ==
  /\ IsValidTransition(r.state, q.state)
  /\ q.state \in States
  /\ q.version = r.version + 1
  /\ \/ q.review_round = r.review_round
     \/ /\ r.state = "reviewing"
        /\ q.state \in {"done", "rework"}
        /\ q.review_round = r.review_round + 1

HandedOver(r, q) ==
  /\ \/ r.state = "inbox" /\ q.state = "queued"
     \/ r.state \in {"queued", "rework"} /\ q.state = "reviewing"
  /\ q.version = r.version + 2
  /\ q.review_round = r.review_round

Touched(r, q) ==
  /\ Exists(r)
  /\ q.state = r.state
  /\ q.version = r.version + 1
  /\ q.review_round = r.review_round

Unmoved(r, q) ==
  /\ q.state = r.state
  /\ q.version = r.version
  /\ q.review_round = r.review_round

LifecycleStep(r, q) == Moved(r, q) \/ HandedOver(r, q) \/ Touched(r, q) \/ Unmoved(r, q)

\* What a whole request or result does to a row before the dispatch columns
\* are settled.
WorkStep(r, q) == KernelStep(r, q) /\ SameDispatch(r, q) /\ LifecycleStep(r, q)

\* A transition is an edge of the lifecycle.
LEMMA EnteredWork ==
  ASSUME NEW r \in Rows, NEW s \in States, IsValidTransition(r.state, s)
  PROVE  WorkStep(r, Entered(r, s))
  BY EnteredStep DEF WorkStep, LifecycleStep, Moved

\* A review is an edge that counts a round.
LEMMA ReviewedWork ==
  ASSUME NEW r \in Rows, r.state = "reviewing", NEW decision \in Decisions
  PROVE  WorkStep(r, Reviewed(r, decision))
<1>1. /\ DecidedState(decision) \in States \cap {"done", "rework"}
      /\ IsValidTransition(r.state, DecidedState(decision))
  BY DEF DecidedState, Decisions, States, IsValidTransition, AllowedTransitions
<1> QED
  BY <1>1, ReviewedStep DEF WorkStep, LifecycleStep, Moved

\* Block, unblock and confirm only raise the version.
LEMMA FlagWork ==
  ASSUME NEW r \in Rows, Exists(r),
         NEW q \in {Bumped(r), BlockedByApi(r), UnblockedByApi(r)}
  PROVE  WorkStep(r, q)
  BY FlagStep DEF WorkStep, LifecycleStep, Touched

\* A row that does not change.
LEMMA NoWork ==
  ASSUME NEW r \in Rows, Exists(r)
  PROVE  WorkStep(r, r)
  BY KernelStepReflexive DEF WorkStep, SameDispatch, LifecycleStep, Unmoved

\* Two transitions in a row that make up a handover.
LEMMA HandoverWork ==
  ASSUME NEW r \in Rows, NEW mid \in States, NEW last \in States,
         IsValidTransition(r.state, mid), IsValidTransition(mid, last),
         \/ r.state = "inbox" /\ last = "queued"
         \/ r.state \in {"queued", "rework"} /\ last = "reviewing"
  PROVE  WorkStep(r, Entered(Entered(r, mid), last))
<1> DEFINE e == Entered(r, mid)
           q == Entered(e, last)
<1>1. KernelStep(r, e) /\ SameDispatch(r, e) /\ e.state = mid
      /\ e.version = r.version + 1 /\ e.review_round = r.review_round
  BY EnteredStep
<1>2. e \in Rows
  BY <1>1 DEF KernelStep
<1> HIDE DEF e
<1>3. KernelStep(e, q) /\ SameDispatch(e, q) /\ q.state = last
      /\ q.version = e.version + 1 /\ q.review_round = e.review_round
  BY <1>1, <1>2, EnteredStep
<1> HIDE DEF q
<1>4. KernelStep(r, q)
  BY <1>1, <1>3, KernelStepTransitive
<1>5. SameDispatch(r, q)
  BY <1>1, <1>3 DEF SameDispatch
<1>6. q.version = r.version + 2
  BY <1>1, <1>3 DEF Rows
<1>7. HandedOver(r, q)
  BY <1>1, <1>3, <1>6 DEF HandedOver
<1> QED
  BY <1>4, <1>5, <1>7 DEF WorkStep, LifecycleStep, e, q

\* A coordinator's success takes the task to queued.
LEMMA CoordinatorWork ==
  ASSUME NEW r \in Rows, Exists(r)
  PROVE  WorkStep(r, CoordinatorDone(r))
<1>1. CASE r.state = "inbox"
  <2>1. Entered(r, "triaging").state = "triaging"
    BY <1>1, EnteredStep DEF States, IsValidTransition, AllowedTransitions
  <2>2. CoordinatorDone(r) = Entered(Entered(r, "triaging"), "queued")
    BY <1>1, <2>1 DEF CoordinatorDone
  <2> QED
    BY <1>1, <2>2, HandoverWork DEF States, IsValidTransition, AllowedTransitions
<1>2. CASE r.state = "triaging"
  BY <1>2, EnteredWork DEF CoordinatorDone, States, IsValidTransition, AllowedTransitions
<1>3. CASE r.state \notin {"inbox", "triaging"}
  BY <1>3, NoWork DEF CoordinatorDone
<1> QED
  BY <1>1, <1>2, <1>3

\* An executor's success takes the task to reviewing.
LEMMA ExecutorWork ==
  ASSUME NEW r \in Rows, Exists(r)
  PROVE  WorkStep(r, ExecutorDone(r))
<1>1. CASE r.state \in {"queued", "rework"}
  <2>1. Entered(r, "executing").state = "executing"
    BY <1>1, EnteredStep DEF States, IsValidTransition, AllowedTransitions
  <2>2. ExecutorDone(r) = Entered(Entered(r, "executing"), "reviewing")
    BY <1>1, <2>1 DEF ExecutorDone
  <2> QED
    BY <1>1, <2>2, HandoverWork DEF States, IsValidTransition, AllowedTransitions
<1>2. CASE r.state = "executing"
  BY <1>2, EnteredWork DEF ExecutorDone, States, IsValidTransition, AllowedTransitions
<1>3. CASE r.state \notin {"queued", "rework", "executing"}
  BY <1>3, NoWork DEF ExecutorDone
<1> QED
  BY <1>1, <1>2, <1>3

\* Whatever a role answers.
LEMMA OutcomeWork ==
  ASSUME NEW r \in Rows, Exists(r), NEW role \in Roles, NEW status \in Statuses,
         NEW decision \in Decisions,
         (status = "succeeded" /\ role = "reviewer") => r.state = "reviewing"
  PROVE  WorkStep(r, OutcomeOf(r, role, status, decision))
<1>1. CASE status # "succeeded"
  BY <1>1, FlagWork DEF OutcomeOf
<1>2. CASE status = "succeeded" /\ role = "coordinator"
  BY <1>2, CoordinatorWork DEF OutcomeOf, SuccessOf
<1>3. CASE status = "succeeded" /\ role = "executor"
  BY <1>3, ExecutorWork DEF OutcomeOf, SuccessOf
<1>4. CASE status = "succeeded" /\ role = "reviewer"
  BY <1>4, ReviewedWork DEF OutcomeOf, SuccessOf
<1> QED
  BY <1>1, <1>2, <1>3, <1>4 DEF Roles

\* A result closes the dispatch it belongs to.
LEMMA SettledStep ==
  ASSUME NEW r \in Rows, NEW q, WorkStep(r, q), NEW inv \in Invokes
  PROVE  /\ KernelStep(r, Settled(q, inv))
         /\ LifecycleStep(r, Settled(q, inv))
         /\ ~Running(Settled(q, inv))
         /\ Settled(q, inv).dispatch_status = "idle"
         /\ Settled(q, inv).dispatch_attempts = r.dispatch_attempts
<1> DEFINE p == Settled(q, inv)
<1>1. q \in Rows
  BY DEF WorkStep, KernelStep
<1>2. p \in Rows
  BY <1>1, ZenonT(60) DEF Settled, Rows, DispatchStatuses
<1>3. /\ p.state = q.state
      /\ p.version = q.version
      /\ p.review_round = q.review_round
      /\ p.current_role = q.current_role
      /\ p.rework_priority_available = q.rework_priority_available
      /\ p.rework_priority_used = q.rework_priority_used
      /\ p.waiting_on = q.waiting_on
      /\ p.blocked = q.blocked
      /\ p.dispatch_status = "idle"
      /\ p.dispatch_attempts = q.dispatch_attempts
  BY <1>1 DEF Settled, Rows
<1> HIDE DEF p
<1>4. KernelStep(r, p)
  BY <1>2, <1>3, RowOKReads DEF WorkStep, KernelStep, Exists, Advances, BlockKept
<1>5. LifecycleStep(r, p)
  BY <1>3 DEF WorkStep, LifecycleStep, Moved, HandedOver, Touched, Unmoved
<1> QED
  BY <1>3, <1>4, <1>5 DEF WorkStep, SameDispatch, Running, p

\* What the maintenance thread never touches.
Bookkeeping(r, q) ==
  /\ q \in Rows
  /\ Unmoved(r, q)
  /\ q.current_role = r.current_role
  /\ q.rework_priority_available = r.rework_priority_available
  /\ q.rework_priority_used = r.rework_priority_used

\* A new row is idle, unblocked and assigned to somebody.
LEMMA NewRowStep ==
  ASSUME NEW s \in SeedStates \cup {"inbox"}, NEW role \in Roles
  PROVE  /\ NewRow(s, role) \in Rows
         /\ Exists(NewRow(s, role))
         /\ NewRow(s, role).state = s
         /\ NewRow(s, role).version = 1
         /\ NewRow(s, role).review_round = 0
         /\ RowOK(NewRow(s, role))
         /\ NewRow(s, role).dispatch_status = "idle"
         /\ NewRow(s, role).dispatch_attempts = 0
         /\ NewRow(s, role).waiting_on = "none"
<1>1. s \in States /\ role \in Roles \cup {NoRole} /\ role # NoRole
  BY SeedAssumption DEF States, Roles, NoRole
<1>2. AbsentRow \in Rows
  BY DEF AbsentRow, Rows, DispatchStatuses
<1>3. NewRow(s, role) \in Rows
  <2>1. ASSUME NEW r \in Rows, NEW p \in Roles \cup {NoRole}, NEW n \in Nat
        PROVE  [r EXCEPT !.state = s, !.current_role = p, !.version = n] \in Rows
    BY <1>1, ZenonT(60) DEF Rows
  <2> QED
    BY <1>1, <1>2, <2>1, ZenonT(60) DEF NewRow
<1>4. /\ NewRow(s, role).state = s
      /\ NewRow(s, role).current_role = role
      /\ NewRow(s, role).version = 1
      /\ NewRow(s, role).review_round = 0
      /\ NewRow(s, role).rework_priority_available = FALSE
      /\ NewRow(s, role).dispatch_status = "idle"
      /\ NewRow(s, role).dispatch_attempts = 0
      /\ NewRow(s, role).waiting_on = "none"
  BY DEF NewRow, AbsentRow
<1> QED
  BY <1>1, <1>3, <1>4 DEF RowOK, Exists, States, Absent

\* Marking a row running.
LEMMA DispatchedStep ==
  ASSUME NEW r \in Rows, NEW role \in Roles, NEW n \in Nat, NEW inv \in Invokes
  PROVE  /\ Bookkeeping(r, Dispatched(r, role, n, inv))
         /\ Dispatched(r, role, n, inv).dispatch_role = role
         /\ Dispatched(r, role, n, inv).dispatch_attempts = n
         /\ Dispatched(r, role, n, inv).last_invoke_id = inv
         /\ Dispatched(r, role, n, inv).waiting_on = r.waiting_on
  BY DEF Dispatched, Bookkeeping, Unmoved, Rows, DispatchStatuses

\* Recording a failed submission.
LEMMA SubmitFailedStep ==
  ASSUME NEW r \in Rows, NEW role \in Roles, NEW n \in Nat, NEW inv \in Invokes,
         NEW action \in RecoveryActions
  PROVE  LET q == SubmitFailed(r, role, n, inv, action)
         IN  /\ Bookkeeping(r, q)
             /\ ~Running(q)
             /\ q.dispatch_attempts = n
             /\ IF action = "block"
                THEN /\ q.waiting_on = "runtime_configuration"
                     /\ q.blocked
                     /\ q.dispatch_status = "idle"
                ELSE q.waiting_on = r.waiting_on
<1> DEFINE f == [r EXCEPT !.dispatch_attempts = n, !.last_invoke_id = inv,
                          !.dispatch_error_retryable = (action = "retry")]
<1>1. /\ Bookkeeping(r, f)
      /\ f.dispatch_attempts = n
      /\ f.waiting_on = r.waiting_on
  BY DEF Bookkeeping, Unmoved, Rows
<1> HIDE DEF f
<1>2. CASE action = "block"
  <2> DEFINE e == [f EXCEPT !.dispatch_status = "idle", !.dispatch_role = NoRole]
  <2>1. SubmitFailed(r, role, n, inv, action) = MarkedBlocked(e, "runtime_configuration")
    BY <1>2 DEF SubmitFailed, f
  <2>2. /\ Bookkeeping(r, e)
        /\ e.dispatch_status = "idle"
        /\ e.dispatch_attempts = n
    BY <1>1 DEF Bookkeeping, Unmoved, Rows, DispatchStatuses
  <2> HIDE DEF e
  <2> QED
    BY <1>2, <2>1, <2>2, ZenonT(60)
    DEF MarkedBlocked, Bookkeeping, Unmoved, Running, Rows, RuntimeReasons
<1>3. CASE action # "block"
  <2> DEFINE e == [f EXCEPT !.dispatch_status = "submit_failed", !.dispatch_role = role]
  <2>1. SubmitFailed(r, role, n, inv, action) = e
    BY <1>3 DEF SubmitFailed, f
  <2>2. /\ Bookkeeping(r, e)
        /\ ~Running(e)
        /\ e.dispatch_attempts = n
        /\ e.waiting_on = r.waiting_on
    BY <1>1 DEF Bookkeeping, Unmoved, Rows, Running, DispatchStatuses
  <2> HIDE DEF e
  <2> QED
    BY <1>3, <2>1, <2>2
<1> QED
  BY <1>2, <1>3

\* Releasing a dispatch.
LEMMA ReleasedStep ==
  ASSUME NEW r \in Rows
  PROVE  /\ Bookkeeping(r, Released(r))
         /\ Released(r).dispatch_status = "idle"
         /\ Released(r).dispatch_attempts = r.dispatch_attempts
         /\ Released(r).waiting_on = r.waiting_on
         /\ Released(r).blocked = r.blocked
  BY DEF Released, Bookkeeping, Unmoved, Rows, DispatchStatuses

\* Blocking a task whose retry budget is spent.
LEMMA ExhaustedStep ==
  ASSUME NEW r \in Rows
  PROVE  /\ Bookkeeping(r, Exhausted(r))
         /\ Exhausted(r).dispatch_status = "idle"
         /\ Exhausted(r).dispatch_attempts = r.dispatch_attempts
         /\ Exhausted(r).waiting_on = "runtime_retry_budget"
         /\ Exhausted(r).blocked
  BY DEF Exhausted, MarkedBlocked, Released, Bookkeeping, Unmoved, Rows, DispatchStatuses,
         RuntimeReasons

-------------------------------------------------------------------------------
(* The inductive invariant.                                                *)

\* Only dispatched invocations are received, and only those are answered.
Provenance ==
  \A t \in Tasks : answered[t] \subseteq issued[t] /\ received[t] \subseteq issued[t]

\* Every attempt has its own invoke id: the counter is their number.
AttemptsCounted ==
  \A t \in Tasks : /\ IsFiniteSet(issued[t])
                   /\ Cardinality(issued[t]) = rows[t].dispatch_attempts

\* Nothing was dispatched for, and nobody has read, a task that does not exist.
AbsentUntouched ==
  /\ \A t \in Tasks : ~Exists(rows[t]) => issued[t] = {} /\ rows[t].review_round = 0
  /\ \A c \in Clients : view[c].task \in Tasks => Exists(rows[view[c].task])

\* What the rows say, whatever the maintenance thread is doing.
DataInv ==
  /\ DispatchIdentity
  /\ RunningAwaitsResult
  /\ Provenance
  /\ AttemptsCounted
  /\ AbsentUntouched
  /\ RuntimeBlockHolds
  /\ BudgetReallySpent
  /\ VersionIdentifiesState
  /\ \A t \in Tasks : RowOK(rows[t])

\* No task in the batch, nor the one in hand before it is marked, is running; and
\* the one whose failure is about to be recorded is not blocked by the runtime.
NobodyElseDispatches ==
  /\ \A t \in batch : ~Running(rows[t])
  /\ pc \in Dispatching => job.task \notin batch
  /\ pc \in {"build", "mark"} => ~Running(rows[job.task])
  /\ pc \in {"build", "mark", "fail"} => rows[job.task].waiting_on \notin RuntimeReasons

\* A row that recovery is about to block has spent its budget.
ScanSpent ==
  pc = "write" => \A t \in scan.exhaust :
                    /\ Exists(rows[t])
                    /\ rows[t].dispatch_attempts >= SubmitMaxAttempts

\* What the maintenance thread holds in its local variables is still true.
ThreadInv == AttemptsHeld /\ NobodyElseDispatches /\ ScanSpent

\* The result the HTTP thread is about to apply is one the runtime may send,
\* and nobody has applied it meanwhile.
TakenPending ==
  taken # NoResult => /\ taken.task \in Tasks
                      /\ taken.invoke \in received[taken.task] \ answered[taken.task]

IInv == TypeOK /\ DataInv /\ ThreadInv /\ TakenPending

\* A request or a result changes one row by a kernel step, keeps the attempt
\* counter, and either leaves the dispatch alone or closes it.
KernelUpdate(t, q) ==
  /\ Exists(rows[t])
  /\ KernelStep(rows[t], q)
  /\ q.dispatch_attempts = rows[t].dispatch_attempts
  /\ rows' = [rows EXCEPT ![t] = q]
  /\ \/ SameDispatch(rows[t], q) /\ UNCHANGED answered
     \/ /\ q.dispatch_status = "idle"
        /\ \E inv \in received[t] \ answered[t] :
             answered' = [answered EXCEPT ![t] = @ \cup {inv}]
  /\ taken' = NoResult
  /\ keys' \in [Tasks -> SUBSET Keys]
  /\ UNCHANGED <<issued, received, maintenance, view, crashes>>

\* Requests and results preserve the invariant.
LEMMA KernelUpdatePreserves ==
  ASSUME IInv, NEW t \in Tasks, NEW q, KernelUpdate(t, q)
  PROVE  IInv'
<1> USE DEF KernelUpdate, maintenance
<1>1. rows \in [Tasks -> Rows] /\ rows[t] \in Rows /\ q \in Rows
  BY DEF IInv, TypeOK, KernelStep
<1>2. /\ rows' \in [Tasks -> Rows]
      /\ rows'[t] = q
      /\ \A u \in Tasks \ {t} : rows'[u] = rows[u]
      /\ \A u \in Tasks : rows'[u].dispatch_attempts = rows[u].dispatch_attempts
  BY <1>1
<1>3. /\ answered' \in [Tasks -> SUBSET Invokes]
      /\ \A u \in Tasks \ {t} : answered'[u] = answered[u]
      /\ answered'[t] \subseteq answered[t] \cup received[t]
      /\ Running(q) => SameDispatch(rows[t], q) /\ answered'[t] = answered[t]
  BY DEF IInv, TypeOK, Running
<1>4. TypeOK'
  BY <1>2, <1>3 DEF IInv, TypeOK, NoResult, Results
<1>5. \A u \in Tasks : /\ rows'[u].version >= rows[u].version
                       /\ Exists(rows[u]) <=> Exists(rows'[u])
                       /\ RowOK(rows[u]) => RowOK(rows'[u])
                       /\ Running(rows'[u]) => /\ Running(rows[u])
                                               /\ SameDispatch(rows[u], rows'[u])
                                               /\ answered'[u] = answered[u]
  BY <1>1, <1>2, <1>3 DEF KernelStep, Advances, SameDispatch, Running, Rows
<1>6. DispatchIdentity'
  BY <1>1, <1>2, <1>5 DEF IInv, DataInv, DispatchIdentity, TypeOK, Rows, Invokes
<1>7. RunningAwaitsResult'
  BY <1>5 DEF IInv, DataInv, RunningAwaitsResult, SameDispatch
<1>8. Provenance'
  BY <1>3 DEF IInv, DataInv, Provenance
<1>9. AttemptsCounted'
  BY <1>2 DEF IInv, DataInv, AttemptsCounted
<1>10. AbsentUntouched'
  BY <1>5 DEF IInv, DataInv, AbsentUntouched
<1>11. RuntimeBlockHolds'
  <2>1. q.waiting_on \in RuntimeReasons => q.blocked /\ q.dispatch_status = "idle"
    BY DEF IInv, DataInv, RuntimeBlockHolds, KernelStep, BlockKept, SameDispatch,
           RuntimeReasons
  <2> QED
    BY <1>2, <2>1 DEF IInv, DataInv, RuntimeBlockHolds
<1>12. BudgetReallySpent'
  <2>1. q.waiting_on = "runtime_retry_budget"
          => rows[t].waiting_on = "runtime_retry_budget"
    BY DEF KernelStep, BlockKept
  <2> QED
    BY <1>2, <2>1 DEF IInv, DataInv, BudgetReallySpent
<1>13. VersionIdentifiesState'
  <2>1. \A u \in Tasks : Advances(rows[u], rows'[u])
    BY <1>1, <1>2 DEF KernelStep, Advances, Rows
  <2>2. \A c \in Clients : view[c].version \in Nat
    BY DEF IInv, TypeOK, Views
  <2> QED
    BY <1>1, <1>2, <2>1, <2>2 DEF IInv, DataInv, VersionIdentifiesState, Advances, Rows
<1>14. \A u \in Tasks : RowOK(rows'[u])
  BY <1>5 DEF IInv, DataInv
<1>15. DataInv'
  BY <1>6, <1>7, <1>8, <1>9, <1>10, <1>11, <1>12, <1>13, <1>14 DEF DataInv
<1>16. AttemptsHeld'
  BY <1>1, <1>2, <1>5
  DEF IInv, TypeOK, ThreadInv, AttemptsHeld, Dispatching, Rows, Invokes
<1>17. NobodyElseDispatches'
  <2>1. q.waiting_on \in RuntimeReasons => rows[t].waiting_on \in RuntimeReasons
    BY DEF KernelStep, BlockKept, RuntimeReasons
  <2> QED
    BY <1>2, <1>5, <2>1 DEF IInv, TypeOK, ThreadInv, NobodyElseDispatches, Dispatching
<1>18. ScanSpent'
  BY <1>2, <1>5 DEF IInv, TypeOK, Scans, ThreadInv, ScanSpent
<1>19. TakenPending'
  BY DEF TakenPending
<1> QED
  BY <1>4, <1>15, <1>16, <1>17, <1>18, <1>19 DEF IInv, ThreadInv

-------------------------------------------------------------------------------
(* One step of the requests and of the callbacks is a kernel update, or    *)
(* creates a row, or reads one.                                            *)

\* A new task preserves the invariant.
LEMMA CreateTaskPreserves ==
  ASSUME IInv, NEW t \in Tasks, NEW s \in SeedStates \cup {"inbox"}, NEW role \in Roles,
         CreateTask(t, s, role)
  PROVE  IInv'
<1> USE DEF CreateTask, Update, maintenance
<1> DEFINE q == NewRow(s, role)
<1>1. /\ q \in Rows /\ Exists(q) /\ RowOK(q)
      /\ q.dispatch_status = "idle" /\ q.dispatch_attempts = 0 /\ q.waiting_on = "none"
  BY NewRowStep
<1>2. /\ rows \in [Tasks -> Rows]
      /\ rows' = [rows EXCEPT ![t] = q]
      /\ ~Exists(rows[t])
  BY DEF IInv, TypeOK
<1> HIDE DEF q
<1>3. /\ rows' \in [Tasks -> Rows]
      /\ rows'[t] = q
      /\ \A u \in Tasks \ {t} : rows'[u] = rows[u]
      /\ ~Running(rows'[t])
  BY <1>1, <1>2 DEF Running
<1>4. /\ issued[t] = {}
      /\ \A c \in Clients : view[c].task # t
      /\ pc \in Dispatching => job.task # t
      /\ pc = "write" => t \notin scan.exhaust
  BY <1>2 DEF IInv, DataInv, AbsentUntouched, ThreadInv, AttemptsHeld, ScanSpent
<1>5. TypeOK'
  BY <1>3 DEF IInv, TypeOK
<1>6. DispatchIdentity'
  BY <1>3, <1>4 DEF IInv, DataInv, DispatchIdentity
<1>7. RunningAwaitsResult'
  BY <1>3 DEF IInv, DataInv, RunningAwaitsResult
<1>8. Provenance'
  BY DEF IInv, DataInv, Provenance
<1>9. AttemptsCounted'
  BY <1>1, <1>3, <1>4, FS_EmptySet DEF IInv, DataInv, AttemptsCounted
<1>10. AbsentUntouched'
  BY <1>1, <1>3, <1>4 DEF IInv, DataInv, AbsentUntouched
<1>11. RuntimeBlockHolds' /\ BudgetReallySpent'
  BY <1>1, <1>3
  DEF IInv, DataInv, RuntimeBlockHolds, BudgetReallySpent, RuntimeReasons
<1>12. VersionIdentifiesState'
  BY <1>3, <1>4 DEF IInv, DataInv, VersionIdentifiesState
<1>13. \A u \in Tasks : RowOK(rows'[u])
  BY <1>1, <1>3 DEF IInv, DataInv
<1>14. AttemptsHeld'
  BY <1>3, <1>4 DEF IInv, TypeOK, ThreadInv, AttemptsHeld, Dispatching
<1>15. NobodyElseDispatches'
  BY <1>3, <1>4 DEF IInv, TypeOK, ThreadInv, NobodyElseDispatches, Dispatching
<1>16. ScanSpent'
  BY <1>3, <1>4 DEF IInv, TypeOK, Scans, ThreadInv, ScanSpent
<1>17. TakenPending'
  BY DEF IInv, TakenPending
<1> QED
  BY <1>5, <1>6, <1>7, <1>8, <1>9, <1>10, <1>11, <1>12, <1>13, <1>14, <1>15, <1>16, <1>17
  DEF IInv, DataInv, ThreadInv

\* A client that reads a task learns its present version.
LEMMA ReadViewPreserves ==
  ASSUME IInv, NEW t \in Tasks, NEW c \in Clients, ReadView(c, t)
  PROVE  IInv'
<1> USE DEF ReadView, database, maintenance
<1> DEFINE v == [task |-> t, version |-> rows[t].version, state |-> rows[t].state,
                 review_round |-> rows[t].review_round]
<1>1. rows[t] \in Rows
  BY DEF IInv, TypeOK
<1>2. v \in Views
  BY <1>1 DEF Views, Rows
<1>3. /\ v.task = t /\ v.version = rows[t].version /\ v.state = rows[t].state
      /\ v.review_round = rows[t].review_round
  OBVIOUS
<1>4. /\ view' = [view EXCEPT ![c] = v]
      /\ view \in [Clients -> Views]
  BY DEF IInv, TypeOK
<1> HIDE DEF v
<1>5. TypeOK'
  BY <1>2, <1>4 DEF IInv, TypeOK
<1>6. VersionIdentifiesState'
  BY <1>1, <1>3, <1>4 DEF IInv, DataInv, VersionIdentifiesState, Rows
<1>7. AbsentUntouched'
  BY <1>3, <1>4 DEF IInv, DataInv, AbsentUntouched
<1>8. DataInv'
  BY <1>6, <1>7
  DEF IInv, DataInv, DispatchIdentity, RunningAwaitsResult, Provenance, AttemptsCounted,
      RuntimeBlockHolds, BudgetReallySpent
<1> QED
  BY <1>5, <1>8
  DEF IInv, ThreadInv, AttemptsHeld, NobodyElseDispatches, ScanSpent, TakenPending

\* A request that is not a read or a create does this to its row.
RequestUpdate(t) ==
  \E q : /\ WorkStep(rows[t], q)
         /\ KernelUpdate(t, q)

\* A request that writes a worked row is a kernel update.
LEMMA WorkIsUpdate ==
  ASSUME IInv, NEW t \in Tasks, Exists(rows[t]), NEW q, WorkStep(rows[t], q), Update(t, q),
         UNCHANGED keys \/ \E key \in Keys \cup {NoKey} : Remember(t, key),
         taken = NoResult,
         UNCHANGED <<answered, issued, received, maintenance, taken, view, crashes>>
  PROVE  RequestUpdate(t)
<1>1. keys' \in [Tasks -> SUBSET Keys]
  BY DEF IInv, TypeOK, Remember
<1>2. q.dispatch_attempts = rows[t].dispatch_attempts /\ SameDispatch(rows[t], q)
  BY DEF WorkStep, SameDispatch
<1> QED
  BY <1>1, <1>2 DEF RequestUpdate, KernelUpdate, WorkStep, Update

\* A task that may take a transition exists.
LEMMA TransitionExists ==
  ASSUME NEW r, NEW s, IsValidTransition(r.state, s)
  PROVE  Exists(r) /\ s \in States
  BY DEF IsValidTransition, AllowedTransitions, Exists, States, Terminal, Absent

\* Every request creates, reads, or updates one row.
LEMMA RequestsStep ==
  ASSUME IInv, Requests
  PROVE  \/ \E t \in Tasks : \E s \in SeedStates \cup {"inbox"}, role \in Roles :
              CreateTask(t, s, role)
         \/ \E t \in Tasks, c \in Clients : ReadView(c, t)
         \/ \E t \in Tasks : RequestUpdate(t)
<1> PICK t \in Tasks :
      \/ CreateTask(t, "inbox", "coordinator")
      \/ \E s \in SeedStates, role \in SeedRoles : CreateTask(t, s, role)
      \/ \E c \in Clients :
           \/ ReadView(c, t)
           \/ \E actor \in Roles :
                \/ \E new \in States : TransitionTask(c, t, actor, new)
                \/ \E key \in Keys \cup {NoKey} :
                     \/ \E decision \in Decisions : ReviewTask(c, t, actor, decision, key)
                     \/ CancelTask(c, t, actor, key)
      \/ \E key \in Keys \cup {NoKey} :
           BlockTask(t, key) \/ UnblockTask(t, key) \/ HumanCancel(t, key)
      \/ HumanReject(t)
      \/ HumanConfirm(t)
  BY DEF Requests
<1> rows[t] \in Rows /\ taken = NoResult
  BY DEF IInv, TypeOK, Requests
<1>1. ASSUME NEW c \in Clients, NEW actor \in Roles, NEW new \in States,
             TransitionTask(c, t, actor, new)
      PROVE  RequestUpdate(t)
  <2>1. IsValidTransition(rows[t].state, new)
    BY <1>1 DEF TransitionTask, CanActorTransition
  <2> QED
    BY <1>1, <2>1, EnteredWork, TransitionExists, WorkIsUpdate DEF TransitionTask
<1>2. ASSUME NEW c \in Clients, NEW actor \in Roles, NEW decision \in Decisions,
             NEW key \in Keys \cup {NoKey}, ReviewTask(c, t, actor, decision, key)
      PROVE  RequestUpdate(t)
  <2>1. IsValidTransition(rows[t].state, DecidedState(decision))
    BY <1>2 DEF ReviewTask, CanActorTransition
  <2>2. rows[t].state = "reviewing"
    BY <2>1 DEF IsValidTransition, AllowedTransitions, DecidedState, Decisions
  <2> QED
    BY <1>2, <2>1, <2>2, ReviewedWork, TransitionExists, WorkIsUpdate DEF ReviewTask
<1>3. ASSUME NEW c \in Clients, NEW actor \in Roles, NEW key \in Keys \cup {NoKey},
             CancelTask(c, t, actor, key)
      PROVE  RequestUpdate(t)
  <2>1. IsValidTransition(rows[t].state, "cancelled")
    BY <1>3 DEF CancelTask, CanActorTransition
  <2> QED
    BY <1>3, <2>1, EnteredWork, TransitionExists, WorkIsUpdate DEF CancelTask
<1>4. ASSUME NEW key \in Keys \cup {NoKey}, BlockTask(t, key)
      PROVE  RequestUpdate(t)
  BY <1>4, FlagWork, WorkIsUpdate DEF BlockTask
<1>5. ASSUME NEW key \in Keys \cup {NoKey}, UnblockTask(t, key)
      PROVE  RequestUpdate(t)
  BY <1>5, FlagWork, WorkIsUpdate DEF UnblockTask
<1>6. ASSUME NEW key \in Keys \cup {NoKey}, HumanCancel(t, key)
      PROVE  RequestUpdate(t)
  <2>1. IsValidTransition(rows[t].state, "cancelled")
    BY <1>6 DEF HumanCancel, CanActorTransition
  <2> QED
    BY <1>6, <2>1, EnteredWork, TransitionExists, WorkIsUpdate DEF HumanCancel
<1>7. ASSUME HumanReject(t)
      PROVE  RequestUpdate(t)
  BY <1>7, ReviewedWork, WorkIsUpdate DEF HumanReject, Decisions, Exists, Absent
<1>8. ASSUME HumanConfirm(t)
      PROVE  RequestUpdate(t)
  BY <1>8, FlagWork, WorkIsUpdate DEF HumanConfirm, Exists, Absent
<1>9. ASSUME NEW s \in SeedStates \cup {"inbox"}, NEW role \in SeedRoles \cup {"coordinator"},
             CreateTask(t, s, role)
      PROVE  role \in Roles
  BY <1>9, SeedAssumption DEF Roles
<1>10. CASE CreateTask(t, "inbox", "coordinator")
  BY <1>9, <1>10
<1>11. CASE \E s \in SeedStates, role \in SeedRoles : CreateTask(t, s, role)
  BY <1>9, <1>11
<1>12. CASE \E c \in Clients : ReadView(c, t)
  BY <1>12
<1> QED
  BY <1>1, <1>2, <1>3, <1>4, <1>5, <1>6, <1>7, <1>8, <1>10, <1>11, <1>12

\* Steps that write no row.
LEMMA DataInvStutters ==
  ASSUME DataInv, UNCHANGED <<rows, answered, issued, received, view>>
  PROVE  DataInv'
  BY DEF DataInv, DispatchIdentity, RunningAwaitsResult, Provenance, AttemptsCounted,
         AbsentUntouched, RuntimeBlockHolds, BudgetReallySpent, VersionIdentifiesState

\* A result moves its row along the lifecycle and closes its dispatch.
LEMMA ApplyResultStep ==
  ASSUME IInv, NEW t \in Tasks, NEW inv, NEW status \in Statuses,
         NEW decision \in Decisions, ApplyResult(t, inv, status, decision)
  PROVE  /\ \E q : KernelUpdate(t, q) /\ LifecycleStep(rows[t], q)
         /\ inv \in received[t] \ answered[t]
<1> DEFINE o == OutcomeOf(rows[t], inv.role, status, decision)
           q == Settled(o, inv)
<1>0. inv \in received[t] \ answered[t]
  <2>1. taken # NoResult /\ taken.task = t /\ taken.invoke = inv
    BY NoTaskAssumption DEF ApplyResult, NoResult
  <2> QED
    BY <2>1 DEF IInv, TakenPending
<1>1. rows[t] \in Rows /\ inv \in Invokes /\ inv.role \in Roles
  BY <1>0 DEF IInv, TypeOK, Invokes
<1>2. Exists(rows[t])
  BY <1>0 DEF IInv, DataInv, AbsentUntouched, Provenance
<1>3. WorkStep(rows[t], o)
  BY <1>1, <1>2, OutcomeWork DEF ApplyResult
<1> HIDE DEF o
<1>4. /\ KernelStep(rows[t], q)
      /\ LifecycleStep(rows[t], q)
      /\ q.dispatch_status = "idle"
      /\ q.dispatch_attempts = rows[t].dispatch_attempts
  BY <1>1, <1>3, SettledStep
<1> HIDE DEF q
<1>5. rows' = [rows EXCEPT ![t] = q]
  BY DEF ApplyResult, Update, o, q
<1>6. keys' \in [Tasks -> SUBSET Keys]
  BY DEF ApplyResult, IInv, TypeOK
<1>7. KernelUpdate(t, q)
  BY <1>0, <1>2, <1>4, <1>5, <1>6 DEF ApplyResult, KernelUpdate
<1> QED
  BY <1>0, <1>4, <1>7

\* A result that passes the checks is pending until it is applied.
LEMMA TakeResultPreserves ==
  ASSUME IInv, NEW t \in Tasks, NEW inv, TakeResult(t, inv)
  PROVE  IInv'
<1> USE DEF TakeResult, database, maintenance
<1>1. inv \in Invokes /\ inv \in received[t] \ answered[t]
  BY DEF IInv, TypeOK
<1>2. TypeOK'
  BY <1>1 DEF IInv, TypeOK, Results
<1>3. DataInv'
  BY DataInvStutters DEF IInv
<1>4. ThreadInv'
  BY DEF IInv, ThreadInv, AttemptsHeld, NobodyElseDispatches, ScanSpent
<1>5. TakenPending'
  BY <1>1 DEF TakenPending
<1> QED
  BY <1>2, <1>3, <1>4, <1>5 DEF IInv

-------------------------------------------------------------------------------
(* The maintenance thread.                                                 *)

\* The SELECT of a recovery pass.
LEMMA SelectPreserves ==
  ASSUME IInv, SelectTimeouts \/ SelectRetries \/ SelectInflight
  PROVE  IInv'
<1> USE DEF database
<1>1. UNCHANGED <<rows, answered, keys, issued, received, pass, batch, job, taken, view,
                  crashes>>
      /\ pc' = "write"
  BY DEF SelectTimeouts, SelectRetries, SelectInflight
<1>2. /\ scan' \in Scans
      /\ \A t \in scan'.exhaust :
           Exists(rows[t]) /\ rows[t].dispatch_attempts >= SubmitMaxAttempts
  <2>1. CASE SelectTimeouts
    BY <2>1 DEF SelectTimeouts, Scans
  <2>2. CASE SelectRetries
    <3>1. \A t \in Tasks : rows[t].dispatch_attempts \in Nat
      BY DEF IInv, TypeOK, Rows
    <3>2. \A t \in RetryCandidates :
            /\ t \in Tasks
            /\ Exists(rows[t])
            /\ BudgetSpent(rows[t]) => rows[t].dispatch_attempts >= SubmitMaxAttempts
      BY <3>1, BoundsAssumption
      DEF RetryCandidates, BudgetSpent, Open, Exists, States, Absent
    <3> QED
      BY <2>2, <3>2 DEF SelectRetries, Scans
  <2>3. CASE SelectInflight
    BY <2>3 DEF SelectInflight, Scans
  <2> QED
    BY <2>1, <2>2, <2>3
<1>3. TypeOK'
  BY <1>1, <1>2 DEF IInv, TypeOK, Steps, Dispatching
<1>4. DataInv'
  BY <1>1, DataInvStutters DEF IInv
<1>5. ThreadInv' /\ TakenPending'
  BY <1>1, <1>2
  DEF IInv, ThreadInv, AttemptsHeld, NobodyElseDispatches, ScanSpent, Dispatching,
      TakenPending
<1> QED
  BY <1>3, <1>4, <1>5 DEF IInv

\* The scheduler between two tasks.
LEMMA BetweenTasksPreserves ==
  ASSUME IInv, \/ StartCycle
               \/ SelectReady
               \/ EndCycle
               \/ \E t \in batch : SkipTask(t)
  PROVE  IInv'
<1> USE DEF database
<1>1. /\ UNCHANGED <<rows, answered, keys, issued, received, scan, job, taken, view,
                     crashes>>
      /\ pc' \in {"select", "pick", "sleep"}
      /\ pass' \in Passes
  BY DEF StartCycle, SelectReady, EndCycle, SkipTask, Passes, IInv, TypeOK
<1>2. /\ batch' \in SUBSET Tasks
      /\ \A t \in batch' : ~Running(rows[t])
  <2>1. CASE SelectReady
    BY <2>1 DEF SelectReady, Schedulable, Ready, Running
  <2>2. CASE ~SelectReady
    BY <2>2 DEF StartCycle, EndCycle, SkipTask, IInv, TypeOK, ThreadInv,
                NobodyElseDispatches
  <2> QED
    BY <2>1, <2>2
<1>3. TypeOK'
  BY <1>1, <1>2 DEF IInv, TypeOK, Steps, Dispatching
<1>4. DataInv'
  BY <1>1, DataInvStutters DEF IInv
<1>5. ThreadInv' /\ TakenPending'
  BY <1>1, <1>2
  DEF IInv, ThreadInv, AttemptsHeld, NobodyElseDispatches, ScanSpent, Dispatching,
      TakenPending
<1> QED
  BY <1>3, <1>4, <1>5 DEF IInv

\* dispatch_task takes a task in hand.
LEMMA ReadTaskPreserves ==
  ASSUME IInv, NEW t \in batch, ReadTask(t)
  PROVE  IInv'
<1> USE DEF database, ReadTask
<1>1. /\ t \in Tasks
      /\ rows[t] \in Rows
      /\ ~Running(rows[t])
  BY DEF IInv, TypeOK, ThreadInv, NobodyElseDispatches
<1>2. /\ rows[t].current_role \in Roles
      /\ Exists(rows[t])
      /\ rows[t].waiting_on \notin RuntimeReasons
  BY <1>1
  DEF Dispatchable, Open, Exists, States, Absent, Rows, IInv, DataInv, RuntimeBlockHolds
<1>3. /\ job' \in Jobs
      /\ job'.task = t
      /\ job'.role = rows[t].current_role
      /\ job'.attempts = rows[t].dispatch_attempts
  BY <1>1, <1>2 DEF NoJob, Jobs, Rows
<1>4. TypeOK'
  BY <1>1, <1>2, <1>3 DEF IInv, TypeOK, Steps, Dispatching
<1>5. DataInv'
  BY DataInvStutters DEF IInv
<1>6. ThreadInv' /\ TakenPending'
  BY <1>1, <1>2, <1>3
  DEF IInv, ThreadInv, AttemptsHeld, NobodyElseDispatches, ScanSpent, Dispatching,
      TakenPending
<1> QED
  BY <1>4, <1>5, <1>6 DEF IInv

\* build_invoke numbers the next attempt.
LEMMA BuildInvokePreserves ==
  ASSUME IInv, BuildInvoke
  PROVE  IInv'
<1> USE DEF database, BuildInvoke
<1> DEFINE r == rows[job.task]
           inv == [role |-> job.role, version |-> r.version,
                   attempt |-> r.dispatch_attempts + 1]
<1>1. /\ job.task \in Tasks
      /\ job.role \in Roles
      /\ job \in Jobs
      /\ r.version \in Nat
      /\ r.dispatch_attempts \in Nat
      /\ job.attempts = r.dispatch_attempts
  BY DEF IInv, TypeOK, Dispatching, Rows, ThreadInv, AttemptsHeld
<1>2. /\ inv \in Invokes
      /\ inv.role = job.role
      /\ inv.version = r.version
      /\ inv.attempt = job.attempts + 1
  BY <1>1 DEF Invokes
<1>3. job' = [job EXCEPT !.invoke = inv]
  OBVIOUS
<1> HIDE DEF inv
<1>4. /\ job' \in Jobs
      /\ job'.invoke = inv
      /\ job'.task = job.task
      /\ job'.role = job.role
      /\ job'.attempts = job.attempts
  BY <1>1, <1>2, <1>3 DEF Jobs
<1>5. TypeOK'
  BY <1>1, <1>2, <1>4 DEF IInv, TypeOK, Steps, Dispatching
<1>6. DataInv'
  BY DataInvStutters DEF IInv
<1>7. ThreadInv' /\ TakenPending'
  BY <1>1, <1>2, <1>4
  DEF IInv, ThreadInv, AttemptsHeld, NobodyElseDispatches, ScanSpent, Dispatching,
      TakenPending
<1> QED
  BY <1>5, <1>6, <1>7 DEF IInv

\* What the maintenance thread writes is invisible to clients.
LEMMA BookkeepingHarmless ==
  ASSUME DataInv, \A t \in Tasks : Bookkeeping(rows[t], rows'[t]), UNCHANGED view
  PROVE  /\ VersionIdentifiesState'
         /\ \A t \in Tasks : RowOK(rows'[t])
         /\ \A t \in Tasks : /\ Exists(rows'[t]) <=> Exists(rows[t])
                             /\ rows'[t].review_round = rows[t].review_round
<1>1. VersionIdentifiesState'
  BY DEF DataInv, VersionIdentifiesState, Bookkeeping, Unmoved
<1>2. \A t \in Tasks : RowOK(rows'[t])
  BY RowOKReads DEF DataInv, Bookkeeping, Unmoved
<1> QED
  BY <1>1, <1>2 DEF Bookkeeping, Unmoved, Exists

\* A row that is not written.
LEMMA BookkeepingReflexive ==
  ASSUME NEW r \in Rows
  PROVE  Bookkeeping(r, r)
  BY DEF Bookkeeping, Unmoved

\* Marking a row running issues an invoke id nobody had.
LEMMA MarkRunningPreserves ==
  ASSUME IInv, MarkRunning
  PROVE  IInv'
<1> USE DEF MarkRunning, Update
<1> DEFINE t == job.task
           q == Dispatched(rows[t], job.role, job.attempts + 1, job.invoke)
<1>1. /\ t \in Tasks
      /\ rows \in [Tasks -> Rows]
      /\ rows[t] \in Rows
      /\ job.role \in Roles
      /\ job.invoke \in Invokes
      /\ job.invoke.role = job.role
      /\ job.attempts \in Nat
      /\ job.attempts = rows[t].dispatch_attempts
      /\ job.invoke.attempt = job.attempts + 1
      /\ job.invoke.version <= rows[t].version
      /\ Exists(rows[t])
      /\ ~Running(rows[t])
      /\ rows[t].waiting_on \notin RuntimeReasons
      /\ t \notin batch
  BY DEF IInv, TypeOK, Dispatching, Rows, ThreadInv, AttemptsHeld, NobodyElseDispatches
<1>2. /\ Bookkeeping(rows[t], q)
      /\ q.dispatch_role = job.role
      /\ q.dispatch_attempts = job.attempts + 1
      /\ q.last_invoke_id = job.invoke
      /\ q.waiting_on = rows[t].waiting_on
  <2>1. job.attempts + 1 \in Nat
    BY <1>1
  <2> QED
    BY <1>1, <2>1, DispatchedStep
<1>3. rows' = [rows EXCEPT ![t] = q]
  OBVIOUS
<1> HIDE DEF q, t
<1>4. /\ rows' \in [Tasks -> Rows]
      /\ rows'[t] = q
      /\ \A u \in Tasks \ {t} : rows'[u] = rows[u]
      /\ q \in Rows
      /\ q.version = rows[t].version
  BY <1>1, <1>2, <1>3 DEF Bookkeeping, Unmoved
<1>5. /\ issued \in [Tasks -> SUBSET Invokes]
      /\ issued' = [issued EXCEPT ![t] = @ \cup {job.invoke}]
      /\ issued' \in [Tasks -> SUBSET Invokes]
      /\ issued'[t] = issued[t] \cup {job.invoke}
      /\ \A u \in Tasks \ {t} : issued'[u] = issued[u]
  BY <1>1 DEF IInv, TypeOK, t
<1>6. /\ \A i \in issued[t] : i.attempt < job.invoke.attempt /\ i.version <= rows[t].version
      /\ job.invoke \notin issued[t]
  <2>1. \A i \in issued[t] : i.attempt \in Nat /\ i.attempt <= rows[t].dispatch_attempts
                             /\ i.version <= rows[t].version
    BY <1>1, <1>5 DEF IInv, DataInv, DispatchIdentity, Invokes
  <2> QED
    BY <1>1, <2>1
<1>7. /\ \A u \in Tasks : Bookkeeping(rows[u], rows'[u])
      /\ UNCHANGED <<answered, keys, received, pass, scan, batch, job, taken, view, crashes>>
      /\ pc = "mark" /\ pc' = "submit"
  BY <1>1, <1>2, <1>4, BookkeepingReflexive
<1>8. TypeOK'
  BY <1>4, <1>5, <1>7 DEF IInv, TypeOK, Steps, Dispatching
<1>9. DispatchIdentity'
  <2>1. \A u \in Tasks \ {t} : /\ rows'[u] = rows[u]
                                /\ issued'[u] = issued[u]
    BY <1>4, <1>5
  <2>2. ASSUME NEW i \in issued'[t]
        PROVE  i.attempt <= rows'[t].dispatch_attempts /\ i.version <= rows'[t].version
    BY <1>1, <1>2, <1>4, <1>5, <1>6 DEF Invokes
  <2>3. ASSUME NEW i \in issued'[t], NEW j \in issued'[t], i.attempt = j.attempt
        PROVE  i = j
    BY <1>1, <1>5, <1>6, <2>3 DEF IInv, DataInv, DispatchIdentity, Invokes
  <2> QED
    BY <2>1, <2>2, <2>3 DEF IInv, DataInv, DispatchIdentity
<1>10. RunningAwaitsResult'
  <2>1. job.invoke \in issued'[t] \ answered'[t]
    BY <1>1, <1>5, <1>6, <1>7 DEF IInv, DataInv, Provenance
  <2> QED
    BY <1>1, <1>2, <1>4, <1>5, <1>7, <2>1 DEF IInv, DataInv, RunningAwaitsResult
<1>11. Provenance'
  BY <1>5, <1>7 DEF IInv, DataInv, Provenance
<1>12. AttemptsCounted'
  <2>1. /\ IsFiniteSet(issued[t])
        /\ Cardinality(issued[t]) = job.attempts
    BY <1>1 DEF IInv, DataInv, AttemptsCounted
  <2>2. /\ IsFiniteSet(issued[t] \cup {job.invoke})
        /\ Cardinality(issued[t] \cup {job.invoke}) = job.attempts + 1
    BY <1>6, <2>1, FS_AddElement
  <2>3. \A u \in Tasks \ {t} : /\ IsFiniteSet(issued'[u])
                                /\ Cardinality(issued'[u]) = rows'[u].dispatch_attempts
    BY <1>4, <1>5 DEF IInv, DataInv, AttemptsCounted
  <2> QED
    BY <1>2, <1>4, <1>5, <2>2, <2>3 DEF AttemptsCounted
<1>13. AbsentUntouched'
  BY <1>1, <1>4, <1>5, <1>7, BookkeepingHarmless DEF IInv, DataInv, AbsentUntouched
<1>14. RuntimeBlockHolds'
  BY <1>1, <1>2, <1>4 DEF IInv, DataInv, RuntimeBlockHolds
<1>15. BudgetReallySpent'
  BY <1>1, <1>2, <1>4, <1>5 DEF IInv, DataInv, BudgetReallySpent, RuntimeReasons
<1>16. DataInv'
  BY <1>7, <1>9, <1>10, <1>11, <1>12, <1>13, <1>14, <1>15, BookkeepingHarmless
  DEF IInv, DataInv
<1>17. ThreadInv'
  <2>1. AttemptsHeld'
    BY <1>1, <1>2, <1>4, <1>5, <1>7 DEF AttemptsHeld, Dispatching, t, Bookkeeping, Unmoved, Exists
  <2>2. NobodyElseDispatches'
    BY <1>1, <1>4, <1>7 DEF IInv, TypeOK, ThreadInv, NobodyElseDispatches, Dispatching, t
  <2>3. ScanSpent'
    BY <1>7 DEF ScanSpent
  <2> QED
    BY <2>1, <2>2, <2>3 DEF ThreadInv
<1>18. TakenPending'
  BY <1>7 DEF IInv, TakenPending
<1> QED
  BY <1>8, <1>16, <1>17, <1>18 DEF IInv

\* submit_invoke, whatever becomes of it.
LEMMA SubmissionPreserves ==
  ASSUME IInv, \/ RuntimeReceives
               \/ SubmitReturns
               \/ \E action \in RecoveryActions : SubmitRaises(action)
  PROVE  IInv'
<1> USE DEF database, maintenance
<1>1. /\ pc = "submit"
      /\ job \in Jobs
      /\ job.task \in Tasks
      /\ job.role \in Roles
      /\ job.invoke \in Invokes
      /\ job.invoke \in issued[job.task]
  BY DEF RuntimeReceives, SubmitReturns, SubmitRaises, IInv, TypeOK, Dispatching,
         ThreadInv, AttemptsHeld
<1>2. CASE RuntimeReceives
  <2>1. received' \in [Tasks -> SUBSET Invokes] /\ Provenance'
    BY <1>1, <1>2 DEF RuntimeReceives, IInv, TypeOK, DataInv, Provenance
  <2>2. TypeOK'
    BY <1>2, <2>1 DEF RuntimeReceives, IInv, TypeOK
  <2>3. DataInv'
    BY <1>2, <2>1
    DEF RuntimeReceives, IInv, DataInv, DispatchIdentity, RunningAwaitsResult,
        AttemptsCounted, AbsentUntouched, RuntimeBlockHolds, BudgetReallySpent,
        VersionIdentifiesState
  <2>4. ThreadInv'
    BY <1>2
    DEF RuntimeReceives, IInv, ThreadInv, AttemptsHeld, NobodyElseDispatches, ScanSpent
  <2>5. TakenPending'
    BY <1>1, <1>2 DEF RuntimeReceives, IInv, TypeOK, TakenPending
  <2> QED
    BY <2>2, <2>3, <2>4, <2>5 DEF IInv
<1>3. CASE SubmitReturns
  <2>1. TypeOK'
    BY <1>3 DEF SubmitReturns, IInv, TypeOK, Steps, Dispatching, NoJob, Jobs
  <2>2. DataInv'
    BY <1>3, DataInvStutters DEF SubmitReturns, IInv
  <2>3. ThreadInv' /\ TakenPending'
    BY <1>3
    DEF SubmitReturns, IInv, ThreadInv, AttemptsHeld, NobodyElseDispatches, ScanSpent,
        Dispatching, TakenPending
  <2> QED
    BY <2>1, <2>2, <2>3 DEF IInv
<1>4. ASSUME NEW action \in RecoveryActions, SubmitRaises(action)
      PROVE  IInv'
  <2>1. /\ job' \in Jobs
        /\ job'.action = action
        /\ job'.task = job.task
        /\ job'.role = job.role
        /\ job'.invoke = job.invoke
    BY <1>1, <1>4 DEF SubmitRaises, Jobs
  <2>2. TypeOK'
    BY <1>1, <1>4, <2>1 DEF SubmitRaises, IInv, TypeOK, Steps, Dispatching
  <2>3. DataInv'
    BY <1>4, DataInvStutters DEF SubmitRaises, IInv
  <2>4. ThreadInv' /\ TakenPending'
    BY <1>1, <1>4, <2>1
    DEF SubmitRaises, IInv, ThreadInv, AttemptsHeld, NobodyElseDispatches, ScanSpent,
        Dispatching, TakenPending
  <2> QED
    BY <2>2, <2>3, <2>4 DEF IInv
<1> QED
  BY <1>2, <1>3, <1>4

\* What the second transaction and a recovery pass have in common: they stop
\* dispatches, count nothing, and block a row only when it is left idle.
Stopped(r, q) ==
  /\ Bookkeeping(r, q)
  /\ q.dispatch_attempts = r.dispatch_attempts
  /\ Running(q) => q = r
  /\ \/ q = r
     \/ q.waiting_on \in RuntimeReasons => q.blocked /\ q.dispatch_status = "idle"

\* Stopping dispatches keeps every invariant of the rows but the budget.
LEMMA StoppedPreserves ==
  ASSUME IInv, rows' \in [Tasks -> Rows],
         \A t \in Tasks : Stopped(rows[t], rows'[t]),
         UNCHANGED <<answered, keys, issued, received, batch, view, crashes>>
  PROVE  /\ DispatchIdentity'
         /\ RunningAwaitsResult'
         /\ Provenance'
         /\ AttemptsCounted'
         /\ AbsentUntouched'
         /\ RuntimeBlockHolds'
         /\ VersionIdentifiesState'
         /\ \A t \in Tasks : RowOK(rows'[t])
         /\ \A t \in batch' : ~Running(rows'[t])
<1>1. DataInv
  BY DEF IInv
<1>2. \A t \in Tasks : Bookkeeping(rows[t], rows'[t])
  BY DEF Stopped
<1>3. /\ VersionIdentifiesState'
      /\ \A t \in Tasks : RowOK(rows'[t])
      /\ \A t \in Tasks : /\ Exists(rows'[t]) <=> Exists(rows[t])
                          /\ rows'[t].review_round = rows[t].review_round
  BY <1>1, <1>2, BookkeepingHarmless
<1>4. \A t \in Tasks : /\ rows'[t].version = rows[t].version
                       /\ rows'[t].dispatch_attempts = rows[t].dispatch_attempts
                       /\ Running(rows'[t]) => rows'[t] = rows[t]
  BY DEF Stopped, Bookkeeping, Unmoved
<1>5. DispatchIdentity' /\ Provenance' /\ AttemptsCounted' /\ AbsentUntouched'
  BY <1>1, <1>3, <1>4
  DEF DataInv, DispatchIdentity, Provenance, AttemptsCounted, AbsentUntouched
<1>6. RunningAwaitsResult'
  BY <1>1, <1>4 DEF DataInv, RunningAwaitsResult
<1>7. RuntimeBlockHolds'
  BY <1>1 DEF DataInv, RuntimeBlockHolds, Stopped
<1>8. \A t \in batch' : ~Running(rows'[t])
  BY <1>4 DEF IInv, TypeOK, ThreadInv, NobodyElseDispatches
<1> QED
  BY <1>3, <1>5, <1>6, <1>7, <1>8

\* A recorded failure stops whatever its row is doing.
LEMMA RecordFailureStops ==
  ASSUME IInv, RecordFailure
  PROVE  /\ rows' \in [Tasks -> Rows]
         /\ \A u \in Tasks : Stopped(rows[u], rows'[u])
         /\ \A u \in Tasks :
              rows'[u].waiting_on \in {rows[u].waiting_on, "runtime_configuration"}
<1> USE DEF RecordFailure
<1> DEFINE t == job.task
           q == SubmitFailed(rows[t], job.role, job.attempts + 1, job.invoke, job.action)
<1>1. /\ t \in Tasks
      /\ rows \in [Tasks -> Rows]
      /\ rows[t] \in Rows
      /\ job.role \in Roles
      /\ job.invoke \in Invokes
      /\ job.attempts + 1 \in Nat
      /\ job.attempts + 1 = rows[t].dispatch_attempts
      /\ job.action \in RecoveryActions
  BY DEF IInv, TypeOK, Dispatching, Jobs, ThreadInv, AttemptsHeld
<1>2. /\ Stopped(rows[t], q)
      /\ q.waiting_on \in {rows[t].waiting_on, "runtime_configuration"}
  <2>1. /\ Bookkeeping(rows[t], q)
        /\ ~Running(q)
        /\ q.dispatch_attempts = rows[t].dispatch_attempts
        /\ IF job.action = "block"
           THEN /\ q.waiting_on = "runtime_configuration"
                /\ q.blocked
                /\ q.dispatch_status = "idle"
           ELSE q.waiting_on = rows[t].waiting_on
    BY <1>1, SubmitFailedStep
  <2>2. rows[t].waiting_on \notin RuntimeReasons
    BY DEF IInv, ThreadInv, NobodyElseDispatches
  <2> HIDE DEF q
  <2> QED
    BY <2>1, <2>2 DEF Stopped
<1>3. rows' = [rows EXCEPT ![t] = q]
  BY <1>1 DEF Update
<1> HIDE DEF q
<1>4. /\ q \in Rows
      /\ rows'[t] = q
      /\ \A u \in Tasks \ {t} : rows'[u] = rows[u]
  BY <1>1, <1>2, <1>3 DEF Stopped, Bookkeeping
<1> QED
  BY <1>1, <1>2, <1>3, <1>4, BookkeepingReflexive DEF Stopped

\* Looking whether a failure still matters: a row that is running is not blocked by
\* the runtime.
LEMMA CheckFailurePreserves ==
  ASSUME IInv, CheckFailure
  PROVE  IInv'
<1> USE DEF CheckFailure, database
<1>1. TypeOK'
  BY DEF IInv, TypeOK, Steps, Dispatching, NoJob, Jobs
<1>2. DataInv'
  BY DataInvStutters DEF IInv
<1>3. TakenPending'
  BY DEF IInv, TakenPending
<1>4. CASE StillOurs(rows[job.task])
  <2>1. job.task \in Tasks /\ rows[job.task].waiting_on \notin RuntimeReasons
    BY <1>4 DEF StillOurs, Running, IInv, TypeOK, Dispatching, DataInv, RuntimeBlockHolds
  <2>2. ThreadInv'
    BY <1>4, <2>1
    DEF IInv, ThreadInv, AttemptsHeld, NobodyElseDispatches, ScanSpent, Dispatching
  <2> QED
    BY <1>1, <1>2, <1>3, <2>2 DEF IInv
<1>5. CASE ~StillOurs(rows[job.task])
  <2>1. ThreadInv'
    BY <1>5 DEF IInv, ThreadInv, AttemptsHeld, NobodyElseDispatches, ScanSpent, Dispatching
  <2> QED
    BY <1>1, <1>2, <1>3, <2>1 DEF IInv
<1> QED
  BY <1>4, <1>5

\* Recording a failure preserves the invariant.
LEMMA RecordFailurePreserves ==
  ASSUME IInv, RecordFailure
  PROVE  IInv'
<1> USE DEF RecordFailure
<1>1. /\ rows' \in [Tasks -> Rows]
      /\ \A u \in Tasks : Stopped(rows[u], rows'[u])
      /\ \A u \in Tasks :
           rows'[u].waiting_on \in {rows[u].waiting_on, "runtime_configuration"}
  BY RecordFailureStops
<1>2. TypeOK'
  BY <1>1 DEF IInv, TypeOK, Steps, Dispatching, NoJob, Jobs
<1>3. BudgetReallySpent'
  BY <1>1 DEF IInv, DataInv, BudgetReallySpent
<1>4. DataInv' /\ \A u \in batch' : ~Running(rows'[u])
  BY <1>1, <1>3, StoppedPreserves DEF DataInv
<1>5. ThreadInv' /\ TakenPending'
  BY <1>4
  DEF IInv, ThreadInv, AttemptsHeld, NobodyElseDispatches, ScanSpent, Dispatching, TakenPending
<1> QED
  BY <1>2, <1>4, <1>5 DEF IInv

\* A recovery pass stops what its SELECT chose.
LEMMA WriteRecoveryStops ==
  ASSUME IInv, WriteRecovery
  PROVE  /\ rows' \in [Tasks -> Rows]
         /\ \A t \in Tasks : Stopped(rows[t], rows'[t])
         /\ \A t \in Tasks : rows'[t].waiting_on = "runtime_retry_budget" =>
              rows[t].waiting_on = "runtime_retry_budget" \/ t \in scan.exhaust
<1>1. ASSUME NEW t \in Tasks
      PROVE  /\ Stopped(rows[t], Recovered(t))
             /\ Recovered(t).waiting_on = "runtime_retry_budget" =>
                  rows[t].waiting_on = "runtime_retry_budget" \/ t \in scan.exhaust
  <2>1. rows[t] \in Rows
    BY DEF IInv, TypeOK
  <2>2. CASE t \in scan.release
    BY <2>1, <2>2, ReleasedStep
    DEF Recovered, Stopped, Running, IInv, DataInv, RuntimeBlockHolds
  <2>3. CASE t \notin scan.release /\ t \in scan.exhaust
    BY <2>1, <2>3, ExhaustedStep DEF Recovered, Stopped, Running
  <2>4. CASE t \notin scan.release /\ t \notin scan.exhaust
    BY <2>1, <2>4, BookkeepingReflexive DEF Recovered, Stopped
  <2> QED
    BY <2>2, <2>3, <2>4
<1>2. rows' = [t \in Tasks |-> Recovered(t)]
  BY DEF WriteRecovery
<1> QED
  BY <1>1, <1>2 DEF Stopped, Bookkeeping

\* A recovery pass preserves the invariant.
LEMMA WriteRecoveryPreserves ==
  ASSUME IInv, WriteRecovery
  PROVE  IInv'
<1> USE DEF WriteRecovery
<1>1. /\ rows' \in [Tasks -> Rows]
      /\ \A t \in Tasks : Stopped(rows[t], rows'[t])
      /\ \A t \in Tasks : rows'[t].waiting_on = "runtime_retry_budget" =>
           rows[t].waiting_on = "runtime_retry_budget" \/ t \in scan.exhaust
  BY WriteRecoveryStops
<1>2. pass' \in Passes /\ pc' \in {"select", "schedule"}
  BY DEF Passes
<1>3. TypeOK'
  BY <1>1, <1>2 DEF IInv, TypeOK, Steps, Dispatching, NoScan, Scans
<1>4. BudgetReallySpent'
  BY <1>1
  DEF IInv, DataInv, BudgetReallySpent, AttemptsCounted, ThreadInv, ScanSpent
<1>5. DataInv' /\ \A t \in batch' : ~Running(rows'[t])
  BY <1>1, <1>4, StoppedPreserves DEF DataInv
<1>6. ThreadInv' /\ TakenPending'
  BY <1>2, <1>5
  DEF IInv, ThreadInv, AttemptsHeld, NobodyElseDispatches, ScanSpent, Dispatching, TakenPending
<1> QED
  BY <1>3, <1>5, <1>6 DEF IInv

\* A restart forgets local variables only.
LEMMA CrashAndRestartPreserves ==
  ASSUME IInv, CrashAndRestart
  PROVE  IInv'
<1> USE DEF CrashAndRestart, database
<1>1. TypeOK'
  BY DEF IInv, TypeOK, Steps, Dispatching, Passes, NoScan, Scans, NoJob, Jobs, NoResult,
         Results
<1>2. DataInv'
  BY DataInvStutters DEF IInv
<1>3. ThreadInv' /\ TakenPending'
  BY DEF ThreadInv, AttemptsHeld, NobodyElseDispatches, ScanSpent, Dispatching, TakenPending
<1> QED
  BY <1>1, <1>2, <1>3 DEF IInv

-------------------------------------------------------------------------------
(* Invariance.                                                             *)

\* The empty database satisfies the invariant.
LEMMA InitIInv ==
  ASSUME Init
  PROVE  IInv
<1> USE DEF Init
<1>1. AbsentRow \in Rows
  BY DEF AbsentRow, Rows, DispatchStatuses
<1>2. /\ AbsentRow.state = Absent
      /\ AbsentRow.dispatch_status = "idle"
      /\ AbsentRow.dispatch_attempts = 0
      /\ AbsentRow.review_round = 0
      /\ AbsentRow.waiting_on = "none"
      /\ RowOK(AbsentRow)
  BY DEF AbsentRow, RowOK, RoleForState, Open, States, Absent
<1>3. NoView \in Views /\ NoView.task = NoTask
  BY DEF NoView, Views, Absent
<1>4. TypeOK
  BY <1>1, <1>3
  DEF TypeOK, Steps, Dispatching, Passes, NoScan, Scans, NoJob, Jobs, NoResult, Results
<1>5. /\ DispatchIdentity
      /\ RunningAwaitsResult
      /\ Provenance
      /\ RuntimeBlockHolds
      /\ BudgetReallySpent
  BY <1>2
  DEF DispatchIdentity, RunningAwaitsResult, Provenance, RuntimeBlockHolds,
      BudgetReallySpent, Running, RuntimeReasons
<1>6. AttemptsCounted
  BY <1>2, FS_EmptySet DEF AttemptsCounted
<1>7. VersionIdentifiesState /\ AbsentUntouched
  BY <1>2, <1>3, NoTaskAssumption DEF VersionIdentifiesState, AbsentUntouched
<1>8. DataInv
  BY <1>2, <1>5, <1>6, <1>7 DEF DataInv
<1>9. ThreadInv /\ TakenPending
  BY DEF ThreadInv, AttemptsHeld, NobodyElseDispatches, ScanSpent, Dispatching, TakenPending
<1> QED
  BY <1>4, <1>8, <1>9 DEF IInv

\* Every step preserves the invariant.
LEMMA NextIInv ==
  ASSUME IInv, [Next]_vars
  PROVE  IInv'
<1>1. ASSUME Requests PROVE IInv'
  BY <1>1, RequestsStep, CreateTaskPreserves, ReadViewPreserves, KernelUpdatePreserves
  DEF RequestUpdate
<1>2. ASSUME Callbacks PROVE IInv'
  BY <1>2, TakeResultPreserves, ApplyResultStep, KernelUpdatePreserves DEF Callbacks
<1>3. ASSUME Maintenance PROVE IInv'
  BY <1>3, SelectPreserves, BetweenTasksPreserves, ReadTaskPreserves, BuildInvokePreserves,
     MarkRunningPreserves, SubmissionPreserves, CheckFailurePreserves,
     RecordFailurePreserves, WriteRecoveryPreserves DEF Maintenance
<1>4. ASSUME UNCHANGED vars PROVE IInv'
  <2>1. TypeOK'
    BY <1>4 DEF vars, IInv, TypeOK
  <2>2. DataInv'
    BY <1>4, DataInvStutters DEF vars, IInv
  <2>3. ThreadInv' /\ TakenPending'
    BY <1>4
    DEF vars, IInv, ThreadInv, AttemptsHeld, NobodyElseDispatches, ScanSpent, TakenPending
  <2> QED
    BY <2>1, <2>2, <2>3 DEF IInv
<1> QED
  BY <1>1, <1>2, <1>3, <1>4, SubmissionPreserves, CrashAndRestartPreserves DEF Next

\* The inductive invariant holds in every reachable state.
THEOREM Invariance == Spec => []IInv
<1>1. Init => IInv
  BY InitIInv
<1>2. IInv /\ [Next]_vars => IInv'
  BY NextIInv
<1> QED
  BY <1>1, <1>2, PTL DEF Spec

\* Every variable has its type in every reachable state.
THEOREM TypeCorrect == Spec => []TypeOK
<1>1. IInv => TypeOK
  BY DEF IInv
<1> QED
  BY <1>1, Invariance, PTL

\* An invoke id names one dispatch for ever, however many recoveries and
\* crashes there are.
THEOREM InvokeIdsAreUnique == Spec => []DispatchIdentity
<1>1. IInv => DispatchIdentity
  BY DEF IInv, DataInv
<1> QED
  BY <1>1, Invariance, PTL

\* A running row waits for a result that has not come yet.
THEOREM RunningIsAwaited == Spec => []RunningAwaitsResult
<1>1. IInv => RunningAwaitsResult
  BY DEF IInv, DataInv
<1> QED
  BY <1>1, Invariance, PTL

\* Nobody moves the attempt counter under the dispatcher.
THEOREM DispatcherUndisturbed == Spec => []AttemptsHeld
<1>1. IInv => AttemptsHeld
  BY DEF IInv, ThreadInv
<1> QED
  BY <1>1, Invariance, PTL

\* The version a client holds identifies the state it has read.
THEOREM VersionsAreSound == Spec => []VersionIdentifiesState
<1>1. IInv => VersionIdentifiesState
  BY DEF IInv, DataInv
<1> QED
  BY <1>1, Invariance, PTL

\* Whatever states and roles callers create tasks with, every open task has a role,
\* one that has left the states tasks are created in has the owner of its state, and
\* the rework priority is granted at most once.
THEOREM RowsAreConsistent == Spec => []RowsConsistent
<1>1. IInv => RowsConsistent
  BY DEF IInv, DataInv, RowOK, RowsConsistent, RoleFollowsState, ReworkPriorityOnce
<1> QED
  BY <1>1, Invariance, PTL

\* What the runtime has blocked stays off the dispatch queue, and no task is
\* blocked for its budget before the budget was used.
THEOREM RuntimeBlocksAreSound == Spec => []RuntimeBlocksSound
<1>1. IInv => RuntimeBlocksSound
  BY DEF IInv, DataInv, RuntimeBlocksSound
<1> QED
  BY <1>1, Invariance, PTL

-------------------------------------------------------------------------------
(* Action properties.                                                      *)

\* What any step may do to the rows.
LEMMA RowsStep ==
  ASSUME IInv, [Next]_vars
  PROVE  \/ UNCHANGED <<rows, answered, issued>>
         \/ \E t \in Tasks : \E s \in SeedStates \cup {"inbox"}, role \in Roles :
              CreateTask(t, s, role)
         \/ \E t \in Tasks : \E q : KernelUpdate(t, q) /\ LifecycleStep(rows[t], q)
         \/ MarkRunning
         \/ /\ RecordFailure \/ WriteRecovery
            /\ \A t \in Tasks : Stopped(rows[t], rows'[t])
<1>1. CASE Requests
  BY <1>1, RequestsStep DEF RequestUpdate, WorkStep, ReadView, database
<1>2. CASE Callbacks
  BY <1>2, ApplyResultStep DEF Callbacks, TakeResult, database
<1>3. CASE Maintenance
  <2>1. CASE RecordFailure \/ WriteRecovery
    BY <2>1, RecordFailureStops, WriteRecoveryStops
  <2>2. CASE /\ ~(RecordFailure \/ WriteRecovery \/ MarkRunning)
             /\ Maintenance
    <3>1. UNCHANGED <<rows, answered, issued>>
      BY <2>2, Zenon
      DEF Maintenance, StartCycle, SelectTimeouts, SelectRetries, SelectInflight,
          SelectReady, EndCycle, SkipTask, ReadTask, BuildInvoke, SubmitReturns,
          SubmitRaises, CheckFailure, database
    <3> QED
      BY <3>1
  <2> QED
    BY <1>3, <2>1, <2>2
<1>4. CASE RuntimeReceives \/ CrashAndRestart \/ UNCHANGED vars
  BY <1>4 DEF RuntimeReceives, CrashAndRestart, vars, database
<1> QED
  BY <1>1, <1>2, <1>3, <1>4 DEF Next

\* The row a create leaves behind.
LEMMA CreateTaskRow ==
  ASSUME IInv, NEW t \in Tasks, NEW s \in SeedStates \cup {"inbox"}, NEW role \in Roles,
         CreateTask(t, s, role)
  PROVE  /\ rows' = [rows EXCEPT ![t] = NewRow(s, role)]
         /\ rows'[t].state = s
         /\ rows'[t].version = 1
         /\ rows'[t].review_round = 0
         /\ ~Running(rows'[t])
  BY NewRowStep DEF CreateTask, Update, IInv, TypeOK, Running

\* A running dispatch is never taken over by another one.
THEOREM DispatchIsExclusive == Spec => NoTakeover
<1> DEFINE Kept == \A t \in Tasks : Running(rows[t]) /\ Running(rows'[t]) =>
                     rows'[t].last_invoke_id = rows[t].last_invoke_id
<1>1. ASSUME IInv, [Next]_vars PROVE Kept
  <2> SUFFICES ASSUME NEW t \in Tasks, Running(rows[t]), Running(rows'[t])
               PROVE  rows'[t].last_invoke_id = rows[t].last_invoke_id
    OBVIOUS
  <2>1. rows \in [Tasks -> Rows]
    BY <1>1 DEF IInv, TypeOK
  <2>2. CASE UNCHANGED rows
    BY <2>2
  <2>3. CASE \E u \in Tasks : \E s \in SeedStates \cup {"inbox"}, role \in Roles :
               CreateTask(u, s, role)
    BY <1>1, <2>1, <2>3, CreateTaskRow
  <2>4. CASE \E u \in Tasks : \E q : KernelUpdate(u, q) /\ LifecycleStep(rows[u], q)
    BY <2>1, <2>4 DEF KernelUpdate, SameDispatch, Running
  <2>5. CASE MarkRunning
    <3>1. ~Running(rows[job.task])
      BY <1>1, <2>5 DEF MarkRunning, IInv, ThreadInv, NobodyElseDispatches
    <3> QED
      BY <2>1, <2>5, <3>1 DEF MarkRunning, Update
  <2>6. CASE \A u \in Tasks : Stopped(rows[u], rows'[u])
    BY <2>6 DEF Stopped
  <2> QED
    BY <1>1, <2>2, <2>3, <2>4, <2>5, <2>6, RowsStep
<1>2. IInv /\ [Next]_vars => [Kept]_vars
  BY <1>1
<1> QED
  BY <1>2, Invariance, PTL DEF Spec, NoTakeover

\* A submit failure is not recorded when the result of its own invocation was applied
\* before dispatch_task looked, whatever has been applied since.
THEOREM SeenAnswersWin == Spec => SeenAnswerWins
<1> DEFINE Ignored == pc = "record" /\ job.invoke \in answered[job.task] => pc' # "fail"
<1>1. ASSUME IInv, CheckFailure PROVE Ignored
  <2>1. job.task \in Tasks
    BY <1>1 DEF CheckFailure, IInv, TypeOK, Dispatching
  <2>2. StillOurs(rows[job.task]) => job.invoke \notin answered[job.task]
    BY <1>1, <2>1 DEF StillOurs, IInv, DataInv, RunningAwaitsResult
  <2> QED
    BY <1>1, <2>2 DEF CheckFailure
<1>2. ASSUME [Next]_vars, pc = "record", pc' = "fail" PROVE CheckFailure
  <2>1. ~(Requests \/ Callbacks)
    BY <1>2
    DEF Requests, Callbacks, CreateTask, ReadView, TransitionTask, ReviewTask, CancelTask,
        BlockTask, UnblockTask, HumanCancel, HumanReject, HumanConfirm, TakeResult,
        ApplyResult, maintenance
  <2> QED
    BY <1>2, <2>1
    DEF Next, vars, maintenance, RuntimeReceives, CrashAndRestart, Maintenance, StartCycle,
        SelectTimeouts, SelectRetries, SelectInflight, WriteRecovery, SelectReady, EndCycle,
        SkipTask, ReadTask, BuildInvoke, MarkRunning, SubmitReturns, SubmitRaises,
        RecordFailure
<1>3. IInv /\ [Next]_vars => [Ignored]_vars
  BY <1>1, <1>2
<1> QED
  BY <1>3, Invariance, PTL DEF Spec, SeenAnswerWins

-------------------------------------------------------------------------------
(* Refinement.                                                             *)

\* The abstract variables: state, review round and version of every task.
AbstractState   == [t \in Tasks |-> rows[t].state]
AbstractRound   == [t \in Tasks |-> rows[t].review_round]
AbstractVersion == [t \in Tasks |-> rows[t].version]

\* The empty database is an initial state of the lifecycle.
LEMMA InitRefines ==
  ASSUME Init
  PROVE  Lifecycle!LifecycleInit
  BY DEF Init, AbsentRow, Lifecycle!LifecycleInit, Absent, Lifecycle!Absent

\* A lifecycle step of one row, the others unchanged, is a step of the
\* lifecycle specification.
LEMMA RowRefines ==
  ASSUME rows \in [Tasks -> Rows], NEW t \in Tasks, NEW q \in Rows,
         rows' = [rows EXCEPT ![t] = q], LifecycleStep(rows[t], q)
  PROVE  \/ Lifecycle!LifecycleNext
         \/ UNCHANGED Lifecycle!lifecycle
<1>1. /\ AbstractState' = [AbstractState EXCEPT ![t] = q.state]
      /\ AbstractRound' = [AbstractRound EXCEPT ![t] = q.review_round]
      /\ AbstractVersion' = [AbstractVersion EXCEPT ![t] = q.version]
  BY DEF AbstractState, AbstractRound, AbstractVersion
<1>2. /\ AbstractState[t] = rows[t].state
      /\ AbstractRound[t] = rows[t].review_round
      /\ AbstractVersion[t] = rows[t].version
      /\ AbstractState'[t] = q.state
  BY DEF AbstractState, AbstractRound, AbstractVersion
<1>3. /\ q.state = rows[t].state => UNCHANGED AbstractState
      /\ q.review_round = rows[t].review_round => UNCHANGED AbstractRound
      /\ q.version = rows[t].version => UNCHANGED AbstractVersion
  BY DEF AbstractState, AbstractRound, AbstractVersion
<1>4. CASE Moved(rows[t], q)
  <2>1. Lifecycle!Move(t)
    BY <1>1, <1>2, <1>3, <1>4
    DEF Moved, Lifecycle!Move, AbstractState, AbstractRound, AbstractVersion,
        IsValidTransition, Lifecycle!IsValidTransition, AllowedTransitions,
        Lifecycle!AllowedTransitions, States, Lifecycle!States, Terminal, Lifecycle!Terminal
  <2> QED
    BY <2>1 DEF Lifecycle!LifecycleNext
<1>5. CASE HandedOver(rows[t], q)
  <2>1. Lifecycle!Handover(t)
    BY <1>1, <1>2, <1>3, <1>5
    DEF HandedOver, Lifecycle!Handover, AbstractState, AbstractRound, AbstractVersion
  <2> QED
    BY <2>1 DEF Lifecycle!LifecycleNext
<1>6. CASE Touched(rows[t], q)
  <2>1. Lifecycle!Touch(t)
    BY <1>1, <1>2, <1>3, <1>6
    DEF Touched, Lifecycle!Touch, AbstractState, AbstractRound, AbstractVersion, Exists,
        Absent, Lifecycle!Absent
  <2> QED
    BY <2>1 DEF Lifecycle!LifecycleNext
<1>7. CASE Unmoved(rows[t], q)
  BY <1>3, <1>7
  DEF Unmoved, Lifecycle!lifecycle, AbstractState, AbstractRound, AbstractVersion
<1> QED
  BY <1>4, <1>5, <1>6, <1>7 DEF LifecycleStep

\* Every step is a step of the lifecycle or a stutter.
LEMMA NextRefines ==
  ASSUME IInv, [Next]_vars
  PROVE  Lifecycle!LifecycleNext \/ UNCHANGED Lifecycle!lifecycle
<1>1. rows \in [Tasks -> Rows]
  BY DEF IInv, TypeOK
<1>2. ASSUME \A t \in Tasks : Unmoved(rows[t], rows'[t])
      PROVE  UNCHANGED Lifecycle!lifecycle
  BY <1>2 DEF Unmoved, Lifecycle!lifecycle
<1>3. CASE UNCHANGED rows
  BY <1>3 DEF Lifecycle!lifecycle
<1>4. ASSUME NEW t \in Tasks, NEW s \in SeedStates \cup {"inbox"}, NEW role \in Roles,
             CreateTask(t, s, role)
      PROVE  Lifecycle!LifecycleNext
  <2>1. /\ rows' = [rows EXCEPT ![t] = NewRow(s, role)]
        /\ rows'[t].state = s
        /\ rows'[t].version = 1
        /\ rows'[t].review_round = 0
    BY <1>4, CreateTaskRow
  <2>2. ~Exists(rows[t]) /\ rows[t].review_round = 0
    BY <1>4 DEF CreateTask, IInv, DataInv, AbsentUntouched
  <2>3. Lifecycle!Create(t)
    BY <1>1, <2>1, <2>2 DEF Lifecycle!Create, Exists, Absent, Lifecycle!Absent
  <2> QED
    BY <2>3 DEF Lifecycle!LifecycleNext
<1>5. ASSUME NEW t \in Tasks, NEW q, KernelUpdate(t, q), LifecycleStep(rows[t], q)
      PROVE  Lifecycle!LifecycleNext \/ UNCHANGED Lifecycle!lifecycle
  BY <1>1, <1>5, RowRefines DEF KernelUpdate, KernelStep
<1>6. CASE MarkRunning
  BY <1>1, <1>2, <1>6
  DEF MarkRunning, Update, Dispatched, Unmoved, Rows, IInv, TypeOK, Dispatching
<1>7. CASE \A t \in Tasks : Stopped(rows[t], rows'[t])
  BY <1>2, <1>7 DEF Stopped, Bookkeeping
<1> QED
  BY <1>3, <1>4, <1>5, <1>6, <1>7, RowsStep

\* The sidecar implements the task lifecycle, whoever drives a task and
\* whatever recovery and crashes do.
THEOREM Refinement == Spec => ImplementsLifecycle
<1>1. Init => Lifecycle!LifecycleInit
  BY InitRefines
<1>2. IInv /\ [Next]_vars => [Lifecycle!LifecycleNext]_(Lifecycle!lifecycle)
  BY NextRefines
<1> QED
  BY <1>1, <1>2, Invariance, PTL DEF Spec, ImplementsLifecycle, Lifecycle!LifecycleSpec

-------------------------------------------------------------------------------
(* Refinement: delivery.                                                   *)

\* The abstract variable: the invocation a row is running.
Current == [t \in Tasks |-> IF Running(rows[t]) THEN rows[t].last_invoke_id ELSE NoInvoke]

\* Without a row in progress nothing is current.
LEMMA InitDelivers ==
  ASSUME Init
  PROVE  Delivered!DeliveryInit
  BY DEF Init, AbsentRow, Running, Delivered!DeliveryInit

\* Rows that go on with the dispatch they run, or end it: some are given up.
LEMMA EndingGivesUp ==
  ASSUME UNCHANGED <<answered, issued>>,
         \A t \in Tasks : Running(rows'[t]) =>
           Running(rows[t]) /\ rows'[t].last_invoke_id = rows[t].last_invoke_id
  PROVE  \E S \in SUBSET Tasks : Delivered!GiveUp(S)
<1> PICK S \in SUBSET Tasks : S = {t \in Tasks : ~Running(rows'[t])}
  OBVIOUS
<1>1. Current' = [t \in Tasks |-> IF t \in S THEN NoInvoke ELSE Current[t]]
  BY DEF Current
<1>2. Delivered!GiveUp(S)
  BY <1>1 DEF Delivered!GiveUp, Current
<1> QED
  BY <1>2

\* A request or a result either leaves the dispatch alone or is an answer.
LEMMA UpdateDelivers ==
  ASSUME IInv, NEW t \in Tasks, NEW q, KernelUpdate(t, q)
  PROVE  Delivered!DeliveryNext
<1>1. rows \in [Tasks -> Rows] /\ rows' = [rows EXCEPT ![t] = q] /\ UNCHANGED issued
  BY DEF IInv, TypeOK, KernelUpdate
<1>2. CASE SameDispatch(rows[t], q) /\ UNCHANGED answered
  BY <1>1, <1>2, EndingGivesUp DEF SameDispatch, Running, Delivered!DeliveryNext
<1>3. ASSUME NEW inv \in received[t] \ answered[t], q.dispatch_status = "idle",
             answered' = [answered EXCEPT ![t] = @ \cup {inv}]
      PROVE  Delivered!DeliveryNext
  <2>1. inv \in issued[t] \ answered[t]
    BY <1>3 DEF IInv, DataInv, Provenance
  <2>2. Current' = [Current EXCEPT ![t] = NoInvoke]
    BY <1>1, <1>3 DEF Current, Running
  <2>3. Delivered!Answer(t)
    BY <1>1, <1>3, <2>1, <2>2 DEF Delivered!Answer, Current
  <2> QED
    BY <2>3 DEF Delivered!DeliveryNext
<1> QED
  BY <1>2, <1>3 DEF KernelUpdate

\* The first transaction of a dispatch issues a fresh invocation.
LEMMA MarkDelivers ==
  ASSUME IInv, MarkRunning
  PROVE  Delivered!DeliveryNext
<1> PICK t \in Tasks : t = job.task
  BY DEF MarkRunning, IInv, TypeOK, Dispatching
<1>1. /\ rows[t] \in Rows
      /\ rows \in [Tasks -> Rows]
      /\ job.role \in Roles
      /\ job.invoke \in Invokes
      /\ job.attempts + 1 \in Nat
      /\ job.attempts = rows[t].dispatch_attempts
      /\ job.invoke.attempt = job.attempts + 1
      /\ ~Running(rows[t])
  BY DEF MarkRunning, IInv, TypeOK, Dispatching, Rows, ThreadInv, AttemptsHeld,
         NobodyElseDispatches
<1>2. job.invoke \notin issued[t]
  BY <1>1 DEF IInv, DataInv, DispatchIdentity, Rows
<1> DEFINE q == Dispatched(rows[t], job.role, job.attempts + 1, job.invoke)
<1>3. Running(q) /\ q.last_invoke_id = job.invoke
  BY <1>1 DEF Dispatched, Running, Rows
<1>4. rows' = [rows EXCEPT ![t] = q]
  BY DEF MarkRunning, Update
<1> HIDE DEF q
<1>5. Current' = [Current EXCEPT ![t] = job.invoke]
  BY <1>1, <1>3, <1>4 DEF Current
<1>6. Delivered!Issue(t)
  BY <1>1, <1>2, <1>5 DEF MarkRunning, Delivered!Issue, Current
<1> QED
  BY <1>1, <1>6 DEF Delivered!DeliveryNext

\* Every step is a step of the delivery of invocations or a stutter.
LEMMA NextDelivers ==
  ASSUME IInv, [Next]_vars
  PROVE  Delivered!DeliveryNext \/ UNCHANGED Delivered!delivery
<1>1. CASE UNCHANGED <<rows, answered, issued>>
  BY <1>1 DEF Delivered!delivery
<1>2. ASSUME NEW t \in Tasks, NEW s \in SeedStates \cup {"inbox"}, NEW role \in Roles,
             CreateTask(t, s, role)
      PROVE  Delivered!DeliveryNext
  <2>1. rows \in [Tasks -> Rows] /\ rows' = [rows EXCEPT ![t] = NewRow(s, role)]
        /\ ~Running(rows'[t])
    BY <1>2, CreateTaskRow DEF IInv, TypeOK
  <2> QED
    BY <1>2, <2>1, EndingGivesUp DEF CreateTask, Delivered!DeliveryNext
<1>3. CASE \E t \in Tasks : \E q : KernelUpdate(t, q) /\ LifecycleStep(rows[t], q)
  BY <1>3, UpdateDelivers
<1>4. CASE /\ RecordFailure \/ WriteRecovery
           /\ \A t \in Tasks : Stopped(rows[t], rows'[t])
  BY <1>4, EndingGivesUp DEF RecordFailure, WriteRecovery, Stopped, Delivered!DeliveryNext
<1> QED
  BY <1>1, <1>2, <1>3, <1>4, MarkDelivers, RowsStep

\* The sidecar delivers every invocation at most once and one at a time.
THEOREM DeliveryRefinement == Spec => ImplementsDelivery
<1>1. Init => Delivered!DeliveryInit
  BY InitDelivers
<1>2. IInv /\ [Next]_vars => [Delivered!DeliveryNext]_(Delivered!delivery)
  BY NextDelivers
<1> QED
  BY <1>1, <1>2, Invariance, PTL DEF Spec, ImplementsDelivery, Delivered!DeliverySpec
-------------------------------------------------------------------------------
(* Liveness, from the inductive invariant.                                 *)

\* A ready task stays as it is until it is dispatched, blocked or finished; a failure
\* is recorded for it only if the check has found it running.
LEMMA ReadyUntilDispatched ==
  ASSUME IInv, [Next]_vars, NEW t \in Tasks, Ready(rows[t]), ~Failing(t)
  PROVE  \/ /\ Ready(rows'[t])
            /\ rows'[t].dispatch_attempts = rows[t].dispatch_attempts
         \/ rows'[t].dispatch_attempts > rows[t].dispatch_attempts
         \/ rows'[t].blocked
         \/ ~Open(rows'[t])
<1> DEFINE Goal == \/ /\ Ready(rows'[t])
                      /\ rows'[t].dispatch_attempts = rows[t].dispatch_attempts
                   \/ rows'[t].dispatch_attempts > rows[t].dispatch_attempts
                   \/ rows'[t].blocked
                   \/ ~Open(rows'[t])
<1>1. /\ rows \in [Tasks -> Rows]
      /\ rows[t] \in Rows
      /\ rows[t].dispatch_attempts \in Nat
      /\ RowOK(rows[t])
      /\ Exists(rows[t])
      /\ ~Running(rows[t])
  BY DEF IInv, TypeOK, DataInv, Rows, Ready, Open, Running, Exists, States, Terminal, Absent
<1>2. CASE rows'[t] = rows[t]
  BY <1>2
<1>3. ASSUME NEW u \in Tasks, NEW s \in SeedStates \cup {"inbox"}, NEW role \in Roles,
             CreateTask(u, s, role)
      PROVE  Goal
  BY <1>1, <1>2, <1>3 DEF CreateTask, Update
<1>4. ASSUME NEW u \in Tasks, NEW q, KernelUpdate(u, q)
      PROVE  Goal
  <2>1. CASE u # t
    BY <1>1, <1>2, <1>4, <2>1 DEF KernelUpdate
  <2>2. CASE u = t
    <3>1. /\ rows'[t] = q
          /\ q.dispatch_status = "idle"
          /\ q.dispatch_attempts = rows[t].dispatch_attempts
          /\ Open(q) => q.current_role # NoRole
      BY <1>1, <1>4, <2>2 DEF KernelUpdate, KernelStep, RowOK, SameDispatch, Ready
    <3> QED
      BY <3>1 DEF Ready
  <2> QED
    BY <2>1, <2>2
<1>5. CASE MarkRunning
  <2>1. CASE t # job.task
    BY <1>1, <1>2, <1>5, <2>1 DEF MarkRunning, Update
  <2>2. CASE t = job.task
    <3>1. rows'[t] = Dispatched(rows[t], job.role, rows[t].dispatch_attempts + 1, job.invoke)
      BY <1>1, <1>5, <2>2 DEF MarkRunning, Update, IInv, ThreadInv, AttemptsHeld
    <3>2. rows'[t].dispatch_attempts = rows[t].dispatch_attempts + 1
      BY <1>1, <1>5, <3>1, DispatchedStep DEF MarkRunning, IInv, TypeOK, Dispatching
    <3> QED
      BY <1>1, <3>2
  <2> QED
    BY <2>1, <2>2
<1>6. CASE RecordFailure
  BY <1>1, <1>2, <1>6 DEF RecordFailure, Failing, Update
<1>7. CASE WriteRecovery
  <2>1. rows'[t] \in {rows[t], Released(rows[t]), Exhausted(rows[t])}
    BY <1>7 DEF WriteRecovery, Recovered
  <2> QED
    BY <1>1, <1>2, <2>1, ReleasedStep, ExhaustedStep DEF Ready, Bookkeeping, Unmoved, Open
<1> QED
  BY <1>2, <1>3, <1>4, <1>5, <1>6, <1>7, RowsStep

\* A failure that is about to be recorded was found running, so that no ready task
\* gets one.
LEMMA NobodyFailsReady ==
  ASSUME [Next]_vars, NEW t \in Tasks, Ready(rows[t]), ~Failing(t)
  PROVE  ~Failing(t)'
<1> SUFFICES ASSUME pc' = "fail", job'.task = t
             PROVE  FALSE
  BY DEF Failing
<1>1. ~(Requests \/ Callbacks)
  BY DEF Failing, Requests, Callbacks, CreateTask, ReadView, TransitionTask, ReviewTask,
     CancelTask, BlockTask, UnblockTask, HumanCancel, HumanReject, HumanConfirm, TakeResult,
     ApplyResult, maintenance
<1>2. CASE CheckFailure
  BY <1>2 DEF CheckFailure, StillOurs, Ready, Running
<1> QED
  BY <1>1, <1>2
  DEF Failing, Next, vars, maintenance, RuntimeReceives, CrashAndRestart, Maintenance,
      StartCycle, SelectTimeouts, SelectRetries, SelectInflight, WriteRecovery, SelectReady,
      EndCycle, SkipTask, ReadTask, BuildInvoke, MarkRunning, SubmitReturns, SubmitRaises,
      RecordFailure

\* While a batch is worked off, the task is in it or is about to be marked.
InHand(t) ==
  pc \in {"pick"} \cup Dispatching => \/ t \in batch
                                      \/ pc \in {"build", "mark"} /\ job.task = t

\* With no more tasks than the limit of its SELECT, the scheduler takes all
\* that are ready.
LEMMA AllAreSelected ==
  ASSUME IInv, SelectReady, IsFiniteSet(Tasks), Cardinality(Tasks) <= BatchLimit,
         NEW t \in Schedulable
  PROVE  t \in batch'
<1>1. PICK chosen \in SUBSET Schedulable :
        /\ \/ chosen = Schedulable /\ Cardinality(chosen) <= BatchLimit
           \/ Cardinality(chosen) = BatchLimit
        /\ batch' = chosen
  BY DEF SelectReady
<1>2. chosen \subseteq Tasks /\ t \in Tasks
  BY DEF Schedulable
<1>3. CASE Cardinality(chosen) = BatchLimit
  <2>1. Cardinality(chosen) = Cardinality(Tasks)
    BY <1>2, <1>3, FS_Subset, FS_CardinalityType, BoundsAssumption
  <2> QED
    BY <1>1, <1>2, <2>1, FS_Subset
<1> QED
  BY <1>1, <1>3

\* A task that stays ready stays in hand until it is marked.
LEMMA ReadyStaysInHand ==
  ASSUME IInv, [Next]_vars, IsFiniteSet(Tasks), Cardinality(Tasks) <= BatchLimit,
         NEW t \in Tasks, InHand(t),
         Ready(rows[t]), Ready(rows'[t]), rows[t].dispatch_attempts < MaxAttempts
  PROVE  InHand(t)'
<1> USE DEF InHand, Dispatching
<1>1. CASE Requests \/ Callbacks
  BY <1>1
  DEF Requests, Callbacks, CreateTask, ReadView, TransitionTask, ReviewTask, CancelTask,
      BlockTask, UnblockTask, HumanCancel, HumanReject, HumanConfirm, TakeResult,
      ApplyResult, maintenance
<1>2. CASE SelectReady
  BY <1>2, AllAreSelected DEF Schedulable
<1>3. ASSUME NEW u \in batch, SkipTask(u)
      PROVE  InHand(t)'
  BY <1>3 DEF SkipTask, Dispatchable, Ready, Running
<1>4. ASSUME NEW u \in batch, ReadTask(u)
      PROVE  InHand(t)'
  BY <1>4 DEF ReadTask, NoJob
<1>5. CASE MarkRunning
  <2>1. CASE t # job.task
    BY <1>5, <2>1 DEF MarkRunning
  <2>2. CASE t = job.task
    BY <1>5, <2>2 DEF MarkRunning, Update, Dispatched, Ready, IInv, TypeOK, Rows
  <2> QED
    BY <2>1, <2>2
<1>6. CASE \/ StartCycle \/ SelectTimeouts \/ SelectRetries \/ SelectInflight
           \/ WriteRecovery \/ EndCycle \/ CrashAndRestart
  BY <1>6
  DEF StartCycle, SelectTimeouts, SelectRetries, SelectInflight, WriteRecovery, EndCycle,
      CrashAndRestart
<1>7. CASE BuildInvoke
  BY <1>7 DEF BuildInvoke, IInv, TypeOK, Jobs
<1>8. CASE SubmitReturns \/ (\E action \in RecoveryActions : SubmitRaises(action))
           \/ CheckFailure \/ RecordFailure \/ RuntimeReceives \/ UNCHANGED vars
  BY <1>8
  DEF SubmitReturns, SubmitRaises, CheckFailure, RecordFailure, RuntimeReceives,
      maintenance, vars
<1> QED
  BY <1>1, <1>2, <1>3, <1>4, <1>5, <1>6, <1>7, <1>8 DEF Next, Maintenance

\* As long as the maintenance thread completes cycles again and again, every
\* ready task is dispatched, blocked or finished, whatever requests, results,
\* failures and crashes come in between, if there are no more tasks than a
\* batch holds (BatchProofs is about more tasks).
THEOREM ReadyTasksAreDispatched ==
  ASSUME IsFiniteSet(Tasks), Cardinality(Tasks) <= BatchLimit
  PROVE  Spec /\ []<><<EndCycle>>_vars => ReadyIsDispatched
<1> SUFFICES ASSUME NEW t \in Tasks, NEW a \in 0..(MaxAttempts - 1)
             PROVE  Spec /\ []<><<EndCycle>>_vars =>
                      (Ready(rows[t]) /\ ~Failing(t) /\ rows[t].dispatch_attempts = a
                         ~> rows[t].dispatch_attempts > a \/ rows[t].blocked \/ ~Open(rows[t]))
  BY DEF ReadyIsDispatched
<1> DEFINE Waiting == Ready(rows[t]) /\ ~Failing(t) /\ rows[t].dispatch_attempts = a
           Over    == rows[t].dispatch_attempts > a \/ rows[t].blocked \/ ~Open(rows[t])
<1>1. IInv /\ [Next]_vars /\ Waiting => Waiting' \/ Over'
  BY ReadyUntilDispatched, NobodyFailsReady
<1>2. IInv /\ [Next]_vars /\ Waiting /\ Waiting' /\ InHand(t) => InHand(t)'
  BY ReadyStaysInHand, BoundsAssumption
<1>3. <<EndCycle>>_vars => InHand(t)'
  BY DEF EndCycle, InHand, Dispatching
<1>4. InHand(t) => ~<<EndCycle>>_vars
  BY DEF EndCycle, InHand, Dispatching
<1>5. Spec /\ []<><<EndCycle>>_vars => (Waiting ~> Over)
  <2> HIDE DEF Waiting, Over
  <2> QED
    BY <1>1, <1>2, <1>3, <1>4, Invariance, PTL DEF Spec
<1> QED
  BY <1>5, PTL
================================================================================
