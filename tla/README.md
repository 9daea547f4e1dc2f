# TLA+ verification of the 3-agent sidecar

The sidecar (`src/sidecar/`) is a small Python service that keeps tasks in one
SQLite database and drives each task through three agents of an external
OpenClaw runtime: a coordinator, an executor and a reviewer. This directory
holds TLA+ models of it, the TLC configurations that check them on small
instances, and TLAPS proofs of the most important results for every instance.

Paths below are relative to `src/` of the repository.

## 1. The system

### Threads and how they interact

| who | code | what it does |
| --- | --- | --- |
| main thread | `service_runner.py` `start`, `stop`, `main` | starts the HTTP server, registers hooks, starts the maintenance thread, stops all of them on a signal |
| HTTP thread | `http_service.py`, a plain `HTTPServer` (one request at a time), `_lock` around every route that touches the database | API calls, human actions, ingress, result callbacks, reports |
| maintenance thread | `service_runner.py` `_maintenance_loop`, `run_maintenance_cycle_once` | each cycle: recovery, then `dispatch_ready_tasks(limit=10)`, then hook retry and probe; an exception ends the cycle, not the thread |
| the runtime behind the HTTP bridge | external, called by `adapters/openclaw_runtime.py` | takes invocations and answers with result callbacks in any order, late, twice or never |
| an agent behind the CLI bridge | a child process of `submit_invoke`, in the maintenance thread | answers, fails or runs out of time; the bridge then posts the answer to the sidecar's own HTTP thread and waits for the response |

All of them meet in one row per task and in the log `task_events` with its
unique index on (task, idempotency key). Both threads of the service use **one**
`sqlite3` connection (`storage.py:12`, `check_same_thread=False`). `_lock`
serialises HTTP requests among themselves, not against the maintenance thread.

### Components, their state, operations and what makes them correct

| component | state | operations | correctness |
| --- | --- | --- | --- |
| task state machine (`state_machine.py`, `contracts.py`) | none (pure) | transitions, owner of a state, actor rule, rework priority | only edges of the table; the priority is given once |
| storage and events (`storage.py`, `models.py`, `events.py`) | tables `tasks`, `task_events` | insert, update, append, block, unblock | writes that belong together are durable together |
| task API (`api.py`) | none of its own | create, transition, review, block, unblock, cancel, human actions | a version a client holds identifies the state it decided on |
| result adapter (`adapters/result.py`) | none of its own | `apply_result` | every answer is applied once, to the dispatch it answers |
| dispatcher (`runtime/dispatcher.py`, `adapters/agent_invoke.py`) | local variables between two transactions | `dispatch_task` | ids are fresh; a late failure does not undo an answer it can see |
| scheduler (`runtime/scheduler.py`) | ids of one SELECT | `dispatch_ready_tasks` | a ready task is dispatched in the end |
| recovery (`runtime/recovery.py`) | rows of one SELECT per pass | time-outs, retries, exhaustion, in-flight release, blocked escalation | nothing stays in flight or retryable for ever; a block for a spent budget is deserved |
| ingress (`adapters/ingress.py`) | none of its own | `ingest` | a request is one task, however often it is sent |
| HTTP service (`http_service.py`) | `_lock`, server thread | routes | requests never meet a closed connection |
| service runner (`service_runner.py`) | lifecycle, stop event, hook registration, probe cache | `start`, `stop`, cycle, readiness | readiness is true, retries back off, stop ends |
| runtime bridges (`adapters/openclaw_runtime.py`) | local variables of `submit_invoke` | `submit_invoke` | a reported success is an applied result; failures are classified so that work is neither lost nor repeated |
| gateway client (`adapters/openclaw_runtime.py`) | none | register, probe | failures are told from refusals |
| configuration (`config.py`) | environment | load | - |
| runtime mode, rollout (`runtime_mode.py`, `rollout_policy.py`) | a key in the database | switch, evaluate | rollback is always possible |
| metrics, agent health (`metrics.py`, `runtime/agent_health.py`) | none | read-only reports | time in state is measured from the right event |
| projections, briefing, detail page | none | read-only formatting | - |
| `remote_validate.py`, `smoke_demo.py`, `time_utils.py`, `roles/` | none | operator scripts, parsing, prompts | - |

`PROJECT.json` repeats this list with what is modelled of each.

### What is hard about it

* The maintenance thread decides on rows it read earlier (recovery's SELECT, the
  scheduler's batch, `dispatch_task`'s two reads, its look at the row before it records a
  failure) while requests and callbacks change them.
* A submission fails after its answer has come; a result arrives after the
  dispatch was released and made again, or passes its check before and is written
  after; a result is sent twice.
* The process dies between the mark and the submission, or between the two
  statements of an ingest.
* A commit or a rollback of one thread ends the transaction of the other.
* Counters at their limit: the retry budget, the registration alarm, the probe history.
* Thresholds measured by stamps that other passes of the same cycle rewrite
  (`dispatch_started_at`, `last_event_at`), against a `cycle_time` that is older
  than what it is compared with.
* The CLI bridge calls its own process: the maintenance thread waits for the HTTP
  thread, gives up, and its request is served all the same.
* What must end: a lost answer must not hold its task, a failed registration
  must be repaired, `stop()` must end the loop and return when the server is free.

The full list, each with its line, is `hazards` in `PROJECT.json`.

## 2. Modules

```
TaskStates <- TaskKernel <- Sidecar <- SidecarProps <- Timers <- TimerProps
     ^                         |  |       |    ^  ^                  ^
     |                         |  |       |    |  +-- RuntimeBridge  |
     +-- TaskLifecycle <-- INSTANCE ------+    |         ^           |
         Delivery <------- INSTANCE ------+    |         |           |
                               |               |   BridgeProofs  TimerProofs
                               |               |         |           |
                               |               +-- SidecarProofs <---+
                               +- SidecarClaims (with SidecarProps) <- MCSidecar
Transactions <- INSTANCE -- SharedConnection <- ConnectionProofs
Registry <----- INSTANCE -- Ingress <- MCIngress, IngressProofs
ServiceRunner <- RunnerProofs    ProbeCache <- CacheProofs    Batches <- BatchProofs
```

(`A <- B`: B extends A; `BridgeProofs` and `TimerProofs` extend `SidecarProofs` and the
module they are about.)

* **TaskStates**: `state_machine.py` as constant operators: states, edges,
  `RoleForState`, `CanActorTransition`, the priority flags.
* **TaskKernel**: the row and what each kernel operation does to it, from rows
  to rows: `Entered` and `Reviewed` (`api._update_task_state`), `BlockedByApi`,
  `CoordinatorDone`/`ExecutorDone` (`result.py`), `Dispatched`, `SubmitFailed`,
  `Released`, `Exhausted`.
* **Sidecar**: the running system. `rows`, `answered`, `keys` and `issued` are the
  database; `received` what the runtime got; `pc`, `pass`, `scan`, `batch` and
  `job` the maintenance thread and its local variables; `taken` the result the HTTP
  thread has checked and not yet applied; `view` what clients read.
  - *Requests*: one action per mutating route. A refused request changes nothing,
    so refusals are guards. `_lock` lets no request in while a result is taken.
  - *Callbacks*: `TakeResult` reads the row and makes the checks (`result.py:28-53`),
    `ApplyResult` is the transaction (`result.py:55-96`). Between the two the
    maintenance thread, which takes no lock, may release the task and dispatch it
    anew. `received` and the answers drawn from it are
    never consumed, which gives lost, delayed, duplicated and reordered results.
  - *Maintenance*: each recovery pass is a SELECT (`SelectTimeouts`,
    `SelectRetries`, `SelectInflight`) and a write (`WriteRecovery`); then
    `SelectReady`; then per task `ReadTask`, `BuildInvoke`, `MarkRunning`,
    `SubmitReturns` or `SubmitRaises`, `CheckFailure`, `RecordFailure`. The last two
    are one `with` block, but its SELECT and comparison hold no lock and begin no
    transaction: only the UPDATE does, and it does not look again.
  - *CrashAndRestart* drops the local variables and keeps the database.
* **TaskLifecycle**: the abstract specification of a task: the edges, terminal
  states that are final, one review round per decision, a version that rises
  with each of them. `SidecarProps!ImplementsLifecycle` is the refinement.
* **Delivery**: the abstract specification of the invocations of a task: at most one is
  current; the next begins only when none is, under an id never used; recovery and
  failures may give the current one up; a result is taken once, late or not, and ends
  whatever is current. `SidecarProps!ImplementsDelivery` is the refinement; what is
  current is the invocation a running row names.
* **Timers** puts the clock into `Sidecar`. Each step is one of `Sidecar`'s together
  with the time stamps the code writes in it (`dispatch_started_at`,
  `last_event_at`, `block_since`, the event that entered a state), a tick, or
  `EscalateBlocked`, the pass that writes nothing else. Where `Sidecar` lets a pass
  find any rows, `Overdue`, `Alerted` and `Waited` say which. A creation writes no event
  and so leaves no entry stamp, whatever the state. `StaleDispatches` is
  the agent health monitor. `cycle` is the age of `cycle_time`, which recovery
  subtracts (`Elapsed`); `sinceInflight` and `TimeoutsAreDeserved` relate it to the
  in-flight pass. **TimerProps** holds its properties and the fairness.
* **RuntimeBridge** puts the two bridges in the place of `SubmitReturns`,
  `SubmitRaises`, `RuntimeReceives` and `Callbacks`. `config` is the bridge and what
  is configured of it, `stage` how far `submit_invoke` of the CLI bridge is (agent,
  post, wait), `posted` the requests the HTTP thread has still to serve, `heard` the
  response. A request outlives the bridge that waits for it and dies with the
  process. `ImplementsSidecar` is the refinement: what the bridges do is what
  `Sidecar` assumes of them.
* **Batches**: the queue of the scheduler. Of a row only its place in the queue is
  kept, a recovery pass or a dispatch is one step, and neither dispatches nor results nor
  requests are bounded; in return the order of the tasks, the limit of a batch and the order of the passes
  (`TimeoutPass`, `RetryPass`, `InflightPass`, then `SelectReady`) are exact.
* **SharedConnection**: one task at the grain of SQL statements. `disk` is what
  is committed, `work` what the connection shows; `Commit` and `Rollback` act on
  the connection, whoever calls them. The transactions are the dispatch, the release of
  recovery, the failed submission with its check in front, and the result. It justifies,
  and limits, the grain of `Sidecar` (section 5).
* **Transactions**: the abstract specification of that database at the grain of
  `Sidecar`: a dispatch, a release, a submission, a failure, a result and a replay are one
  step each; a failure is recorded for the last dispatch, whatever the row says by then. `SharedConnection!AtomicUnlessMixed` says that each step of the two threads is
  one of these or invisible on disk, until one thread ends the other's transaction.
* **Ingress**: `ingest` statement by statement, with slugs that collide, API
  clients that use task ids and keys of their own, crashes and retries.
* **Registry**: the abstract specification of the ingress: a request is registered once
  and for ever, for a task no other request is registered for; answers follow the
  register, and only the first may say "created". `Ingress!ImplementsRegistry` maps the
  committed creation events to the register; it speaks of the requests whose
  `request_id` no API client uses as a key (`Own`).
* **ServiceRunner**: lifecycle, maintenance loop, hook registration with its
  retry window, readiness. A cycle works or raises; what it does to tasks is
  Sidecar's matter.
* **ProbeCache**: the cached integration probe, its history and the two threads
  that refresh it, with the two separate lock sections of a refresh.
* **MCSidecar**, **MCIngress**: instances for TLC.
  **SidecarProofs**, **TimerProofs**, **BridgeProofs**, **IngressProofs**,
  **ConnectionProofs**, **RunnerProofs**, **CacheProofs**, **BatchProofs**: the theorems.

Operators commented "Plausible fault" are not part of any specification: each is
a wrong form of the definition below it, and shows that the property it is paired
with in `PROJECT.json` notices the fault.

### What is abstracted

* Texts (title, goal, evidence, block reasons), trace ids and payload validation.
  A payload the code refuses before it writes is a step that does not happen.
* An invoke id is a record of role, version and attempt, the parts
  `agent_invoke.py` builds the string from; the task is the index it is kept under.
  The runtime sends back the role it was given. The event keys `dispatch:...`,
  `block:...`, `fail:...` are determined by the invoke id and are kept apart only
  in SharedConnection.
* The clock. In Sidecar a pass may find any set of candidates overdue; Timers says
  which. In Timers, ServiceRunner and ProbeCache a stamp is its distance from the
  present, and `Tick` changes all of them together. Timers keeps a stamp only as long
  as somebody reads it: `last_event_at` while a dispatch is running or failed,
  `block_since` while an open task is blocked. The SELECT and the UPDATEs of the
  pass over blocked tasks are one step.
* Callers create tasks in any of `SeedStates` with any of `SeedRoles`, in every
  combination, as `_create_task` checks neither (`api.py:92-93`); the ingress always uses
  the defaults, inbox and coordinator. The proofs leave both sets open. Strings that are no
  state or no role, which the code stores as well, are left out.
* RuntimeBridge leaves out texts: an answer that does not fit the role's schema is
  the answer "failed" the bridge makes of it. Agents are told apart only by role.
* The service has a runtime bridge. Without one `dispatch_task` returns after the
  mark, which in the model is a submission whose answer never comes.
* A second signal during `stop()`.

## 3. Runs

The states are the distinct ones TLC finds; with two workers the longest run takes
about a minute and a half, the others seconds. Deadlock is checked in all of them.

| run | instance | states | what it shows |
| --- | --- | --- | --- |
| `dispatch` | 1 task, 3 dispatches, budget 2, 5 versions, 1 crash | 1.36 M | `DispatchIdentity`, `RunningAwaitsResult`, `AttemptsHeld`, `RuntimeBlocksSound`, `SeenAnswerWins`, `ImplementsDelivery`: every interleaving of maintenance, results, human actions and a restart |
| `clients` | 1 task, created in inbox or in reviewing, 1 client, 6 versions | 1.64 M | `VersionIdentifiesState`, `RowsConsistent`, `ImplementsLifecycle`: stale clients beside humans, results and the dispatcher |
| `runtime_bridge` | 1 task, both bridges in every configuration, 2 dispatches, 4 versions, 1 crash | 925,917 | `ImplementsSidecar`, `AcceptedIsApplied`, `AgentsAreHeard`, `ConfigurationBlocksBeforeWork`: the bridge, the HTTP thread it waits for, humans and a restart |
| `timers` | 1 task, created in inbox, queued or executing, 2 dispatches, all thresholds 1 tick, cycles of up to 1 tick, 1 crash, fair | 428,958 | `DegradedOnlyWhenStalled`, `TimeoutsAreDeserved`, `EscalatedIsNotRetried`; liveness: `InflightNeverStuck`, `ReadyIsDispatched`, `RetryableNeverStuck` |
| `batches` | 3 tasks, batches of 2, budget 2, dispatches, results and requests unbounded, fair | 103,635 | `PassedOverOnlyForRequeued`: who can keep a ready task waiting |
| `shared_connection` | 2 dispatches, 3 versions, 1 crash | 595,054 | what survives shared transactions: `AtomicUnlessMixed`, `ConfirmedIsApplied`, `IdsFreshUnlessRefused` |
| `service` | window 2, alarm after 2, cycles up to 3 long, fair | 9,720 | `ReadinessTellsTheTruth`, `RequestsFindConnection`, `RetriesBackOff`, `RegistrationRecovers`, `StopCompletes` |
| `probe_cache` | TTL 2, history 3, delays up to 3 | 315,764 | `ServedProbeIsFresh`, `CountersMatchStatus` |
| `ingress` | 3 requests, 2 slugs, an API key equal to a request id, 1 crash | 79,044 | `ImplementsRegistry`, `CreatedIsDurable`, `HalfTaskNeedsCrash` |
| `claim_*` | see section 4 | - | documented statements the code contradicts |

### Bounds and why they are enough

* `MaxVersion` (in the guard `Room`) ends requests to a row; `MaxAttempts` (in
  `Schedulable`) ends its dispatches; `MaxCrashes` ends restarts. Three dispatches
  are enough for a result of the first to arrive after the release and during the
  third, and for a budget of two to be spent and passed. Six versions take a task
  that was created in reviewing through its review, the rework and a second review, where
  the one-time priority could be given again.
* One task shows all races of one row, because rows do not influence each other
  except through the thread that handles them one after the other. That thread's
  local variables name one task at a time, and the theorems of section 6 cover any
  number of tasks in a batch.
* In Timers, thresholds of one tick and a horizon of three tell "not yet", "just"
  and "past" apart, and a cycle that lasts a tick separates `cycle_time` from the
  present. `Horizon` exceeds each threshold plus `MaxCycle` (`TimersAssumption`), so
  that a stamp that has reached it is past every threshold.
* In RuntimeBridge four versions are enough for an answer to be served after its
  dispatch was given up, and for a human to reject a review while the reviewer
  works on it; two dispatches for a late answer to meet the next one.
* In ServiceRunner `MaxAttempts` is larger than the alarm threshold, so that
  saturation of the counter is not seen by it. `MaxDelay` exceeds the retry
  window and the TTL, so that cycles slower than either occur.
* In Batches three tasks and batches of two are the least in which a task can be passed
  over, and in which one older task that is requeued for ever is not enough for it.
  `attempts` is counted up to the budget only, beyond which nothing reads it; nothing else
  needs a bound.
* Three requests, of which two share a slug and one has an API client's key, are the
  least with a collision of task ids and one of keys at the same time.

### Fairness

* `TimerProps!TimedFairness`: `WF(TimedMaintenance)`, as the loop is a thread that
  swallows every exception and `submit_invoke` returns or raises by its time-out, and
  `WF(Tick)`: time passes. That the retry delay of a failed submission runs out is
  not assumed but follows. Nothing is assumed of clients, of the runtime or of the
  operator; but `MaxVersion` ends requests, and `RetryableNeverStuck` rests on that: each
  write of a request to a failed task stamps `last_event_at` (`api.py:166`, `180`, `246`),
  from which the retry delay is measured, and so puts its retry off. The other two do not,
  as their theorems show.
* `Batches!Spec`: `WF(Maintenance)`, for the same reason. Crashes and cycles that raise
  are not in that module: the hypothesis would have to name them too.
* `ServiceRunner!Fairness`: threads run and time passes; a cycle tried again and
  again works at some time, and a gateway asked again and again accepts at some time.
  Nothing in the code could replace the last two. `StopCompletes` needs neither. That a
  request ends is not assumed: the HTTP server has one thread and sets no timeout on its
  sockets (`http_service.py:54`, `226-233`), so `StopCompletes` has the endless request as
  the one excuse of `stop()`, and none for the loop.
* `SharedConnection`, `ProbeCache`, `Ingress` and `RuntimeBridge` state no liveness.

## 4. Where documents and code differ

Each run ends in a counterexample; the document is quoted in `PROJECT.json`.

* `claim_version`: `apply_result` passes the version it has just read as
  `expected_version`, so the optimistic lock never refuses a result. A result of an
  earlier dispatch moves a task that has been changed since.
* `claim_budget`: the maximum of attempts is documented to end the retries of a failed
  submission. The passes over time-outs come first in a cycle and release an overdue
  row whatever its dispatch status is, so in executing and reviewing, once the state is
  older than its time-out, the retry pass never sees the failure: the task is dispatched
  in every cycle, without delay and without end.
* `claim_transaction`: the write paths are documented as single transactions. A
  refused result (HTTP thread) rolls back the row update of a dispatch
  (maintenance thread); the dispatch event is then committed without it. The next
  dispatch has the same invoke id and fails on the unique index.

Seen while modelling, and not runs of their own:

* The pass over timeouts is documented to go by the time a task has been in its state
  (`docs/plans/2026-03-13-recovery-implementation-plan.md:23`). It goes by the start of
  a running dispatch if there is one, and the in-flight pass, which is documented as
  recovery after a restart (`docs/architecture.md:37`) but runs in every cycle and looks
  at no age, has every dispatch made anew in each cycle. With the defaults (a cycle every
  5 s, time-outs of 3600 and 1800 s) a task whose agent never answers is dispatched again
  in every cycle and is neither escalated nor reported as an anomaly (`metrics.py` counts
  the same way); an agent that takes longer than a cycle has its answer refused as a
  mismatch. `RunningIsYoung`, proved in TimerProofs, is this fact.
* A first-time `request_id` whose slug is taken by another task is not created
  (`docs/adapter-contract.md:117` says it is): the IntegrityError is not a ValueError and
  the handler dies (`InsertFails`).
* A submission failure that is neither retryable nor a configuration error ("hold")
  stays until a time-out pass of executing or reviewing releases it or a result comes
  late; no other route of the API resets it. When a human rejects a review while the CLI
  bridge's reviewer works, its answer is refused (400), the reviewer's dispatch is held,
  and the task stays in rework undispatched. `AgentsAreHeard` names this as one of the
  two ways an agent's work is refused.
* The other: without `hooks_token` the CLI bridge runs the agent and then has its
  answer refused by its own service (401), every time.
* A result that passed the check of its invoke id (`result.py:46`) may find another
  dispatch in the row when its transaction begins: it is then applied to that dispatch,
  which it ends, and the answer of the newer invocation is later applied to whatever the
  task has become. `tests/test_openclaw_runtime_integration.py:1084` expects "invoke_id
  mismatch" and shows it for calls one after the other only. `Delivery!Answer` promises
  no more than that, and `ImplementsDelivery` that ids, counters and the one use of a
  result survive it.
* `README.md:243-244` calls the retry delay a minimum wait; the pass over time-outs does
  not look at it either (`claim_budget`).
* A submission failure can overwrite an answer. `dispatch_task` reads the row
  (`dispatcher.py:119`), compares (`:123-125`) and updates it (`:126`) with no lock, and the
  SELECT begins no transaction; a result the HTTP thread applies and commits in between
  (`RecordFailure` after `ApplyResult`, both after `CheckFailure`) is then followed by
  `dispatch_status` "submit_failed" on a task that has moved on, with the class of the old
  failure. `docs/adapter-contract.md:579-582` says of it "result truth 优先于迟到的 submit
  失败" and "避免把已经推进成功的任务又错误打回 `submit_failed`" (the result wins over a late
  failure; a task that was moved on is not thrown back). A retryable failure is retried,
  for the next role; one to "hold" keeps the task from its next role as told above,
  and a "block" blocks the task that has just moved on (with the bridges of this commit a
  configuration error comes before the runtime has anything to answer). `SeenAnswerWins`
  (`SeenAnswersWin`) is what remains true: the answer wins if it is applied before the look.
* In the same way a task whose budget is spent is blocked by the retry pass although a
  result moved it on between the SELECT (`recovery.py:132`) and the write (`:194`).
* A task created in queued with no `current_role` gets the default, coordinator
  (`api.py:93`), and is dispatched to the coordinator; `_apply_coordinator_success` moves
  only inbox and triaging, so its answers do not take the task out of queued.
  `RoleFollowsState` therefore says nothing of the states tasks are created in.
* A client that stalls in the middle of a request (`_read_json_body` reads with no
  time-out) occupies the only server thread: no other request, result callbacks included,
  is served, and `stop()` waits in `shutdown()` (`http_service.py:62`) for ever.
* A full batch (ten) of older tasks that get back into the queue again and again keeps
  younger ready tasks waiting for ever. Dispatches that are accepted and never answered
  do (the in-flight pass puts them back in every cycle), overdue tasks do, and so do tasks
  that make progress without end: neither the rounds of review and rework
  (`state_machine.py:12-17`) nor unblocking have a limit. `PassedOverOnlyForRequeued` shows
  that it takes a full batch of such tasks and that failed submissions are not among them.
  No document promises otherwise.
* A task in executing or reviewing that stays overdue without a running dispatch (a
  blocked one, for instance) is released and reported anew in every cycle.
* Agent health reports a role as degraded only when the maintenance loop has stalled
  (`DegradedOnlyWhenStalled`); an agent that never answers does not degrade it.
* `metrics.py:94` counts blocked tasks that are done or cancelled as anomalies;
  recovery leaves those out.
* The hook retry window starts at the beginning of the cycle that tried, so a cycle
  longer than the window is followed by a retry at once (`RetriesBackOff` is stated by
  that clock).

## 5. What the properties depend on

`Sidecar` takes each HTTP request and each transaction of the maintenance thread as
one step, except that a result is two, its checks and its transaction, and so is a failed
submission, its look at the row and its UPDATEs. For the API routes one step
is exact although the maintenance thread may write between their read and their UPDATE:
they check and write state, version, role, review and priority (`api.py:229-255`),
which no UPDATE of that thread touches, and set `blocked` without looking at it.
`SharedConnection!AtomicUnlessMixed` says when a transaction is one step: as long as
neither thread ends a transaction the other is in. `RunningRowIsWhole` (proved) and
`ConfirmedIsApplied` say what holds beyond that. The properties of `Ingress` hold
as long as the maintenance thread does not roll back while an ingest is under way;
its commits in the middle of an ingest are covered.

## 6. Proofs

TLAPS checks the following for every value of the constants that satisfies the named
assumptions (`SeedAssumption`, `NoTaskAssumption`, `BoundsAssumption`; for the clock
`TimersAssumption`; for the ingress `IngressAssumption`; `ConnectionAssumption`,
`RunnerAssumption`, `ProbeAssumption` and `BatchAssumption` for their modules), with no
bound on tasks, clients, keys, versions or requests.
The numeric bounds are constants of the models; the proofs do not depend on their values.

**SidecarProofs.** The invariants checked by TLC are not inductive one by one, for
the maintenance thread acts on what it read earlier. `IInv` is `TypeOK`, facts of the
database (`DataInv`) and facts that tie the thread's local variables to it (`ThreadInv`):

* `Provenance`: what was answered or received was issued;
* `AttemptsCounted`: the counter of a row is the number of invocations issued for it,
  which is why a block for a spent budget is deserved;
* `AbsentUntouched`: nothing is kept under a task that does not exist;
* `AttemptsHeld`: from the dispatcher's first read until it has recorded a failure nobody
  else moves the counter; the argument is that `MarkRunning` alone changes it, and that
  `RecordFailure`, which writes it without reading it, writes what `MarkRunning` wrote;
* `TakenPending`: a result that has passed its checks is still unapplied when its
  transaction begins, although the row may wait for another one by then;
* `NobodyElseDispatches`: no other thread makes a row running, so that a row read as not
  running still is when it is marked; and none blocks a row for the runtime, so that a
  failure is never recorded over such a block;
* `ScanSpent`: a row selected as exhausted stays exhausted until it is written.

The row operators are dealt with first (`KernelStep`, `SameDispatch`: what any request
or result leaves alone), so that each action's proof uses a few facts about rows and never
looks inside an operator. Theorems: `Invariance`; `TypeCorrect`; `InvokeIdsAreUnique`;
`RunningIsAwaited`; `DispatcherUndisturbed`; `VersionsAreSound`; `RowsAreConsistent`;
`RuntimeBlocksAreSound`; the action properties `DispatchIsExclusive` and
`SeenAnswersWin`; `Refinement`: every behaviour of `Sidecar` is one of
`TaskLifecycle`; and `DeliveryRefinement`: every behaviour of `Sidecar` is one of
`Delivery`. In the latter each step is looked at for the one task it changes: a request, a
recovery write or a failure gives up what is current or leaves it (`EndingGivesUp`,
`UpdateDelivers`), a result answers an id that `TakenPending` shows unanswered, and the
mark begins a new one (`MarkDelivers`), for which `NobodyElseDispatches` supplies that
nothing is current and `AttemptsHeld` with `AttemptsCounted` that the id is fresh.

`ReadyTasksAreDispatched` is the safety half of `ReadyIsDispatched`: as long as cycles
are completed again and again, every ready task is dispatched, blocked or finished; left
out is only a task whose failure is about to be written into its row (`Failing`): it looks
ready if its answer was applied in between, and no task that waits becomes one
(`NobodyFailsReady`). A ready task stays ready until then (`ReadyUntilDispatched`); the next SELECT takes it, and
it stays in the batch or in the dispatcher's hand (`ReadyStaysInHand`), with which no
cycle can end. The hypothesis that there are no more tasks than a batch holds is needed:
`Sidecar` leaves the order of the queue open, and section 4 names who can wait for ever
when there are more.

**IngressProofs.** `IInv` is `TypeOK`, `NothingPending` (outside an ingest the
connection shows what is on disk), and, as long as nothing was rolled back,
`Undisturbed`: creation events belong to existing tasks and to one request each
(`SoundDatabase`), the ingest under way owns its task (`IngestInProgress`), each answer
rests on a committed event (`AnswersRecorded`), each task is recognised by its event
(`TasksRecognised`); and `FirstIngest`: a request is ingested only while it has no event
of another task and no answer, and nothing but the event of the ingest under way is
uncommitted. The last part is what the refinement needs: `CommitRegisters` shows that any
commit, also one of the maintenance thread in the middle of an ingest, registers that one
request for a task nobody has, or nothing. Theorems: `Invariance`, `TypeCorrect`;
`RegistryRefinement` (`ImplementsRegistry`, step by step) and `UndisturbedRefinement`
(a behaviour without such a rollback is one of `Registry`); `RequestsShareNothing`: no
two requests are ever answered with the same task; `CreatedStaysDurable`,
`HalfTasksNeedCrash`.

**TimerProofs.** `TimedRefinement`: a step of `Timers` is one of `Sidecar` or leaves its
variables alone, so that all theorems above hold with the clock (`ClocksKeepPromises`
says so of the two abstract specifications), and `IInv` is there to build on. `TInv` adds `TimedTypeOK` and `ClockInv`:

* `RunningIsYoung`: no open dispatch in progress is older than the last in-flight pass.
  It is inductive only with `InflightScanned`: between the SELECT of that pass and its
  commit no dispatch starts, so the pass ends all of them;
* `BlockStamped`: `block_since` belongs to open blocked tasks;
* `EscalationStamps`: from the escalation to the SELECT of the retry pass, a task past
  its alert that has a dispatch status was touched in this cycle; no request can make a
  task pass its alert in between, for a new block restarts that clock.

Theorems: `TimedInvariance`, `TimedTypeCorrect`, `RunningDispatchesAreYoung`;
`DegradedMeansStalled` and the action property `TimeoutsAreAlwaysDeserved`, both from
`RunningIsYoung`; `EscalatedTasksWait`, under the hypothesis `SubmitRetryDelay > 0`, which
it needs: with no delay a task is handed back in the cycle that escalated it.
`InflightEnds` is the safety half of `InflightNeverStuck`: if in-flight passes are
completed again and again, every dispatch ends, for by `InflightScanned` such a pass
leaves no open task running (`InflightPassReleasesAll`). That the fairness of section 3
makes those passes happen is left to TLC, which checks `InflightNeverStuck` itself from it.
`ReadyTasksAreDispatchedInTime` carries `ReadyTasksAreDispatched` over to the clock.

**BridgeProofs.** `BInv` adds to `IInv`: where `submit_invoke` is (`StageInv`); a
callback request on its way is the only one for its invocation and not answered
(`PostInv`); an agent is started once for an invocation, after its dispatch (`WorkInv`);
an accepted response means an applied result (`HeardInv`). The argument for
`AgentsAreHeard` is `WaitedInvokeIsCurrent`: while `submit_invoke` waits, its row is
either no longer running or still running its invocation. Theorems:
`BridgesImplementSidecar`, by which the theorems of `SidecarProofs` hold of the sidecar
with either bridge, and `BridgesKeepPromises`, which draws that conclusion for the two
abstract specifications; `BridgeInvariance`, `BridgeTypeCorrect`, `AgentsAreAlwaysHeard`,
`ConfigurationBlocksAreFree` and the action property `AcceptedSubmissionsAreApplied`.

**ConnectionProofs.** `CInv` is `TypeOK`, `WholeRows` (no statement writes half a row,
so no commit can store one), `FreshIds` and `LastingResults` (the two that need no
rollback: attempts only grow on the connection, and a key on it has its effect on disk
or belongs to the transaction under way), `Image` and `WholeUnlessMixed`. `Image` is what
module `Sidecar` takes for granted, stated statement by statement: as long as each thread
ends its own transactions only, the connection shows the disk with the statements of the
transaction under way and nothing else (`LoopImage`, `HttpImage`). While both threads are
inside, nothing need be said of the connection: whichever ends its transaction first mixes
them. At a commit the image is complete, and the disk takes one step of `Transactions`
(`CommitsAreTransactions`). Theorems: `ConnectionInvariance`, `ConnectionTypeCorrect`,
`RunningRowsAreWhole`; `TransactionsAreAtomic` (`AtomicUnlessMixed`) and
`UnmixedRefinement`: a behaviour that never mixes transactions is one of `Transactions`;
`TransactionsAreWhole`, which follows because every step of `Transactions` keeps keys,
effects and counters together (`TransactionsKeepRecorded`); `ConfirmedResultsLast`,
`InvokeIdsAreFresh`.

**RunnerProofs.** `RInv` is `TypeOK`, `Phases` (what is set up before what, and what
outlives what in `stop`) and `HookHistory`: a failed registration counts the failures in
a row and its retry window dates from the last attempt. Theorems: `RunnerInvariance`,
`RunnerTypeCorrect`, `ReadinessIsTrue`, `RequestsAlwaysFindConnection` and the action
property `RegistrationBacksOff`.

**CacheProofs.** `PInv` is `TypeOK` and `Honest` of the cached probe and of both
refreshes: a probe is at least as old as its stamp says, and its counter fits its status.
`TrailingFailuresCount` shows that the count of trailing failures is well defined, by
the least element of a set of naturals; `RecordedCounts` that it fits the last result.
Theorems: `ProbeInvariance`, `ProbeTypeCorrect`, `ServedProbesAreFresh`,
`CountersFitStatus`.

**BatchProofs.** `TypeCorrect`: a batch holds no more than `BatchLimit` tasks (`OldestAreFew`:
before the last task of the batch there are fewer than the limit). `WaitingNeedsACrowd`, for
any number of tasks: as long as cycles are completed, a ready task waits for ever only if
again and again, at the SELECT, at least `BatchLimit` older tasks are ready too. The argument
is that of `ReadyStaysInHand`, with the order of the queue: a task with fewer before it is
selected, and a batch ends only when all of it was dispatched or skipped.

**Only model-checked:** liveness from fairness (ENABLED is out of the prover's reach);
`InflightEnds`, `ReadyTasksAreDispatched` and `WaitingNeedsACrowd` prove what is left of
`InflightNeverStuck`, `ReadyIsDispatched` and the queue once passes and cycles are known to
recur, and take that recurrence as their hypothesis. `RetryableNeverStuck`,
`RegistrationRecovers`, `StopCompletes` and the other half of `PassedOverOnlyForRequeued`
(that tasks nobody requeues leave the front of the queue) have no theorem: they count
down delays, retries or steps, which is induction over data. Every safety and action
property of a passing run is a theorem.

## 7. Not modelled, and the plan

In this order:

1. `RuntimeMode`: `switch_mode` and `evaluate_rollout`, which says that a rollback is
   always permitted while the switch asks for `force`. Nothing else in the service
   reads the mode.
2. The maintenance trend and the intervention summary of the service runner, as
   reports over bounded histories.

Not planned: rendering of pages and projections, parsing of the environment, operator
scripts, prompts. They keep no state that another part depends on.

## Running

In this directory: `tlc -config MCDispatch.cfg MCSidecar` (each run's module and
configuration are in `PROJECT.json`), and `tlapm M.tla` for M in
`SidecarProofs`, `TimerProofs`, `BridgeProofs`, `IngressProofs`, `ConnectionProofs`,
`RunnerProofs`, `CacheProofs`, `BatchProofs`.
