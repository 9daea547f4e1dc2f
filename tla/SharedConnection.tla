--------------------------- MODULE SharedConnection ---------------------------
(***************************************************************************)
(* One task and the one SQLite connection that the HTTP thread and the     *)
(* maintenance thread share (storage.py opens it with                      *)
(* check_same_thread=False; http_service.py's _lock is not taken by the    *)
(* maintenance thread).  A transaction belongs to the connection, not to   *)
(* the thread: either thread's commit makes the statements of both         *)
(* durable, and either thread's rollback discards the statements of both.  *)
(*                                                                         *)
(* Module Sidecar takes each transaction as one step.  Here one step is    *)
(* one statement, for the transactions that write several things that      *)
(* belong together: a dispatch (counter, then event), a failed submission  *)
(* (the check, then the row) and a result (key, then effect, then the      *)
(* closed dispatch).                                                       *)
(***************************************************************************)
EXTENDS Naturals

CONSTANTS
  MaxAttempts, \* bound: dispatches of the task
  MaxVersion,  \* bound: versions of the task
  MaxCrashes   \* bound: restarts of the service

ASSUME ConnectionAssumption ==
  /\ MaxAttempts \in Nat
  /\ MaxVersion \in Nat
  /\ MaxCrashes \in Nat

VARIABLES
  disk,      \* what is committed
  work,      \* what the connection shows to both threads
  http,      \* HTTP thread: the next statement of apply_result
  request,   \* HTTP thread: the result it applies
  loop,      \* maintenance thread: the next statement
  job,       \* maintenance thread: the invocation it dispatches
  received,  \* invocations the runtime has got
  confirmed, \* results the runtime was told are applied (HTTP 200)
  crashes,
  (* History, read by the properties only. *)
  mixed,     \* one thread ended the transaction the other was in
  refused    \* some result was refused inside its transaction

vars == <<disk, work, http, request, loop, job, received, confirmed, crashes,
          mixed, refused>>

Invokes == [version : Nat, attempt : Nat]

NoInvoke == [version |-> 0, attempt |-> 0]

\* The columns of the task that the two transactions touch, the idempotency
\* keys of its events (dispatch:{invoke}, {invoke}), and the invocations whose
\* result has changed it.
Databases ==
  [version : Nat, attempts : Nat, running : BOOLEAN, invoke : Invokes,
   dispatches : SUBSET Invokes, results : SUBSET Invokes, effects : SUBSET Invokes]

EmptyDatabase ==
  [version |-> 1, attempts |-> 0, running |-> FALSE, invoke |-> NoInvoke,
   dispatches |-> {}, results |-> {}, effects |-> {}]

Init ==
  /\ disk = EmptyDatabase
  /\ work = EmptyDatabase
  /\ http = "idle"
  /\ request = NoInvoke
  /\ loop = "recover"
  /\ job = NoInvoke
  /\ received = {}
  /\ confirmed = {}
  /\ crashes = 0
  /\ mixed = FALSE
  /\ refused = FALSE

Commit   == disk' = work /\ UNCHANGED work
Rollback == work' = disk /\ UNCHANGED disk

\* The thread has executed a statement and not yet ended its transaction.
LoopInside == loop \in {"released", "log", "commit", "failed", "noted"}
HttpInside == http \in {"effect", "settle", "commit", "refused"}

-------------------------------------------------------------------------------
(* Maintenance thread. *)

LoopGoes(from, to) == loop = from /\ loop' = to

OthersOfLoop == UNCHANGED <<http, request, confirmed, crashes, refused>>

LoopEnds == mixed' = (mixed \/ HttpInside)

\* recover_inflight_dispatches: the UPDATE and, later, the commit.
ReleaseInflight ==
  /\ LoopGoes("recover", "released")
  /\ work' = [work EXCEPT !.running = FALSE]
  /\ UNCHANGED <<disk, job, received, mixed>>
  /\ OthersOfLoop

CommitRelease ==
  /\ LoopGoes("released", "ready")
  /\ Commit
  /\ UNCHANGED <<job, received>>
  /\ LoopEnds
  /\ OthersOfLoop

\* dispatch_task up to build_invoke: reads what the connection shows.
ReadForDispatch ==
  /\ work.attempts < MaxAttempts
  /\ LoopGoes("ready", "mark")
  /\ ~work.running
  /\ job' = [version |-> work.version, attempt |-> work.attempts + 1]
  /\ UNCHANGED <<disk, work, received, mixed>>
  /\ OthersOfLoop

\* The SELECT of the scheduler finds nothing: the row is (still) running, the
\* task has left the dispatchable states, or the bound ends the dispatches.
NothingReady ==
  /\ LoopGoes("ready", "recover")
  /\ UNCHANGED <<disk, work, job, received, mixed>>
  /\ OthersOfLoop

\* Plausible fault: the counter is left for later.
MarkWithoutCounting ==
  /\ LoopGoes("mark", "log")
  /\ work' = [work EXCEPT !.running = TRUE, !.invoke = job]
  /\ UNCHANGED <<disk, job, received, mixed>>
  /\ OthersOfLoop

MarkRunning ==
  /\ LoopGoes("mark", "log")
  /\ work' = [work EXCEPT !.running = TRUE, !.attempts = job.attempt, !.invoke = job]
  /\ UNCHANGED <<disk, job, received, mixed>>
  /\ OthersOfLoop

\* append_event with the key dispatch:{invoke}.
LogDispatch ==
  /\ LoopGoes("log", "commit")
  /\ job \notin work.dispatches
  /\ work' = [work EXCEPT !.dispatches = @ \cup {job}]
  /\ UNCHANGED <<disk, job, received, mixed>>
  /\ OthersOfLoop

\* The unique index refuses the key; the IntegrityError is not handled in
\* dispatch_task and ends the maintenance cycle.
DispatchRefused ==
  /\ LoopGoes("log", "failed")
  /\ job \in work.dispatches
  /\ UNCHANGED <<disk, work, job, received, mixed>>
  /\ OthersOfLoop

\* Plausible fault: the exception ends the thread with its cycle.
RollbackAndDie ==
  /\ LoopGoes("failed", "dead")
  /\ Rollback
  /\ job' = NoInvoke
  /\ UNCHANGED received
  /\ LoopEnds
  /\ OthersOfLoop

RollbackDispatch ==
  /\ LoopGoes("failed", "recover")
  /\ Rollback
  /\ job' = NoInvoke
  /\ UNCHANGED received
  /\ LoopEnds
  /\ OthersOfLoop

CommitDispatch ==
  /\ LoopGoes("commit", "submit")
  /\ Commit
  /\ UNCHANGED <<job, received>>
  /\ LoopEnds
  /\ OthersOfLoop

Submit ==
  /\ LoopGoes("submit", "recover")
  /\ received' = received \cup {job}
  /\ job' = NoInvoke
  /\ UNCHANGED <<disk, work, mixed>>
  /\ OthersOfLoop

\* submit_invoke raises; the runtime may have got the invocation all the same.
SubmitRaises ==
  /\ LoopGoes("submit", "check")
  /\ \E got \in SUBSET {job} : received' = received \cup got
  /\ UNCHANGED <<disk, work, job, mixed>>
  /\ OthersOfLoop

StillOurs == work.running /\ work.invoke = job

\* The SELECT and the comparison, which begin no transaction and read what the
\* connection shows.
CheckFailure ==
  /\ \/ StillOurs /\ LoopGoes("check", "fail")
     \/ ~StillOurs /\ LoopGoes("check", "ignored")
  /\ UNCHANGED <<disk, work, job, received, mixed>>
  /\ OthersOfLoop

\* The UPDATE of the failed dispatch.  Its event has a key of its own, which is
\* new because that of the dispatch was.
RecordFailure ==
  /\ LoopGoes("fail", "noted")
  /\ work' = [work EXCEPT !.running = FALSE, !.attempts = job.attempt, !.invoke = job]
  /\ UNCHANGED <<disk, job, received, mixed>>
  /\ OthersOfLoop

\* The end of the with block, also of a failure that is ignored.
CommitFailure ==
  /\ loop \in {"noted", "ignored"}
  /\ loop' = "recover"
  /\ Commit
  /\ job' = NoInvoke
  /\ UNCHANGED received
  /\ LoopEnds
  /\ OthersOfLoop

-------------------------------------------------------------------------------
(* HTTP thread: apply_result. *)

HttpGoes(from, to) == http = from /\ http' = to

OthersOfHttp == UNCHANGED <<loop, job, received, crashes>>

HttpEnds == mixed' = (mixed \/ LoopInside)

\* The checks before the transaction.
TakeResult(inv) ==
  /\ work.version < MaxVersion
  /\ HttpGoes("idle", "key")
  /\ inv \in received
  /\ inv \notin work.results
  /\ work.running => inv = work.invoke
  /\ request' = inv
  /\ UNCHANGED <<disk, work, confirmed, mixed, refused>>
  /\ OthersOfHttp

\* A known key: the runtime is told that all is well.
ReplayResult(inv) ==
  /\ http = "idle"
  /\ inv \in received
  /\ inv \in work.results
  /\ confirmed' = confirmed \cup {inv}
  /\ UNCHANGED <<disk, work, http, request, mixed, refused>>
  /\ OthersOfHttp

LogResult ==
  /\ HttpGoes("key", "effect")
  /\ work' = [work EXCEPT !.results = @ \cup {request}]
  /\ UNCHANGED <<disk, request, confirmed, mixed, refused>>
  /\ OthersOfHttp

\* The task is moved or blocked, and its version raised.
ApplyEffect ==
  /\ HttpGoes("effect", "settle")
  /\ work' = [work EXCEPT !.version = @ + 1, !.effects = @ \cup {request}]
  /\ UNCHANGED <<disk, request, confirmed, mixed, refused>>
  /\ OthersOfHttp

\* _must_ok or _require_str raises: the task is not in reviewing, the decision
\* is missing.
RefuseResult ==
  /\ HttpGoes("effect", "refused")
  /\ UNCHANGED <<disk, work, request, confirmed, mixed>>
  /\ refused' = TRUE
  /\ OthersOfHttp

\* Plausible fault: the error leaves the transaction open.
RefuseWithoutRollback ==
  /\ HttpGoes("refused", "idle")
  /\ request' = NoInvoke
  /\ UNCHANGED <<disk, work, confirmed, mixed, refused>>
  /\ OthersOfHttp

RollbackResult ==
  /\ HttpGoes("refused", "idle")
  /\ Rollback
  /\ request' = NoInvoke
  /\ UNCHANGED <<confirmed, refused>>
  /\ HttpEnds
  /\ OthersOfHttp

CloseDispatch ==
  /\ HttpGoes("settle", "commit")
  /\ work' = [work EXCEPT !.running = FALSE, !.invoke = request]
  /\ UNCHANGED <<disk, request, confirmed, mixed, refused>>
  /\ OthersOfHttp

\* Plausible fault: the runtime is answered and the commit is left to whoever
\* commits next.
AnswerWithoutCommit ==
  /\ HttpGoes("commit", "idle")
  /\ confirmed' = confirmed \cup {request}
  /\ request' = NoInvoke
  /\ UNCHANGED <<disk, work, mixed, refused>>
  /\ OthersOfHttp

CommitResult ==
  /\ HttpGoes("commit", "idle")
  /\ Commit
  /\ confirmed' = confirmed \cup {request}
  /\ request' = NoInvoke
  /\ HttpEnds
  /\ UNCHANGED refused
  /\ OthersOfHttp

-------------------------------------------------------------------------------
\* The process dies between two statements and is started again.
Crash ==
  /\ crashes < MaxCrashes
  /\ crashes' = crashes + 1
  /\ Rollback
  /\ http' = "idle"
  /\ request' = NoInvoke
  /\ loop' = "recover"
  /\ job' = NoInvoke
  /\ UNCHANGED <<received, confirmed, mixed, refused>>

Loop ==
  \/ ReleaseInflight \/ CommitRelease \/ ReadForDispatch \/ NothingReady
  \/ MarkRunning
  \/ LogDispatch \/ DispatchRefused \/ RollbackDispatch \/ CommitDispatch \/ Submit
  \/ SubmitRaises \/ CheckFailure \/ RecordFailure \/ CommitFailure

Http ==
  \/ \E inv \in received : TakeResult(inv) \/ ReplayResult(inv)
  \/ LogResult \/ ApplyEffect \/ RefuseResult \/ RollbackResult
  \/ CloseDispatch \/ CommitResult

Next == Loop \/ Http \/ Crash

Spec == Init /\ [][Next]_vars

-------------------------------------------------------------------------------
LoopPlaces ==
  {"recover", "released", "ready", "mark", "log", "commit", "submit", "failed",
   "check", "fail", "noted", "ignored"}

TypeOK ==
  /\ disk \in Databases
  /\ work \in Databases
  /\ http \in {"idle", "key", "effect", "settle", "commit", "refused"}
  /\ request \in Invokes
  /\ loop \in LoopPlaces
  /\ job \in Invokes
  /\ received \in SUBSET Invokes
  /\ confirmed \in SUBSET Invokes
  /\ crashes \in Nat
  /\ mixed \in BOOLEAN
  /\ refused \in BOOLEAN

\* What one UPDATE writes stays together whatever the other thread commits or
\* rolls back: a committed row that is running names the invocation its
\* attempt counter counts, so recovery and apply_result never act on half a
\* dispatch row.
RunningRowIsWhole ==
  disk.running => disk.invoke.attempt = disk.attempts

\* The grain of module Sidecar: as long as neither thread ends a transaction
\* the other is in, dispatches and results are all or nothing, also across
\* crashes: every result key has its effect, every dispatch event is counted,
\* and nothing is submitted that is not on record.
WholeUnlessMixed ==
  ~mixed =>
    /\ disk.results = disk.effects
    /\ \A inv \in disk.dispatches : inv.attempt <= disk.attempts
    /\ received \subseteq disk.dispatches

Atomic == INSTANCE Transactions WITH db <- disk

\* The same of every step: what the database goes through on disk, what is
\* submitted and what is confirmed are steps of Transactions, one for each
\* commit, until a commit or a rollback of dispatch_task, recovery or
\* apply_result ends the transaction of the other thread.
AtomicUnlessMixed ==
  [][~mixed' => Atomic!TransactionsNext \/ UNCHANGED Atomic!transactions]_vars

\* A result the runtime was told is applied has been applied for good, even
\* when transactions were mixed: only a rollback or a crash can lose it.
ConfirmedIsApplied ==
  ~refused /\ crashes = 0 => confirmed \subseteq disk.effects

\* Rollbacks of the HTTP thread are the only way to an invoke id that is used
\* twice: without one, no dispatch is refused by the unique index.
IdsFreshUnlessRefused == ~refused => loop # "failed"

(***************************************************************************)
(* "The key write paths of result and dispatch complete within a single    *)
(* SQLite transaction, there is no half-written window" (docs/plans/       *)
(* 2026-03-13-next-phase-implementation-plan.md:305).  For a dispatch: its *)
(* event is on disk only together with the attempt it counts.              *)
(***************************************************************************)
DispatchIsWhole == \A inv \in disk.dispatches : inv.attempt <= disk.attempts
===============================================================================
