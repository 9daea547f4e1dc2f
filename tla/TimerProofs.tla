------------------------------ MODULE TimerProofs ------------------------------
(***************************************************************************)
(* Theorems about Timers, for every set of tasks, clients and keys, every  *)
(* bound and every threshold.                                              *)
(***************************************************************************)
EXTENDS TimerProps, SidecarProofs

-------------------------------------------------------------------------------
(* Timers implements Sidecar.                                              *)

\* The clock adds no step to the sidecar: each one is one of Sidecar's or
\* leaves its variables alone.
LEMMA TimedStepIsStep ==
  ASSUME [TimedNext]_timedVars
  PROVE  [Next]_vars
<1>1. CASE HttpThread
  BY <1>1 DEF HttpThread, Next
<1>2. CASE TimedMaintenance
  BY <1>2
  DEF TimedMaintenance, TimedStartCycle, TimedSelectTimeouts, EscalateBlocked,
      TimedSelectRetries, TimedSelectInflight, TimedWriteRecovery, TimedMarkRunning,
      TimedRecordFailure, TimedEndCycle, Unstamped, Maintenance, Next
<1>3. CASE TimedReceives \/ TimedCrash \/ Tick
  BY <1>3 DEF TimedReceives, TimedCrash, Tick, Next
<1>4. CASE UNCHANGED timedVars
  BY <1>4 DEF timedVars
<1> QED
  BY <1>1, <1>2, <1>3, <1>4 DEF TimedNext

\* Every behaviour of Timers is one of Sidecar.
THEOREM TimedRefinement == TimedSpec => Spec
<1>1. TimedInit => Init
  BY DEF TimedInit
<1>2. [TimedNext]_timedVars => [Next]_vars
  BY TimedStepIsStep
<1> QED
  BY <1>1, <1>2, PTL DEF TimedSpec, Spec

\* Task lifecycle and delivery hold with the clock.
THEOREM ClocksKeepPromises == TimedSpec => ImplementsLifecycle /\ ImplementsDelivery
  BY TimedRefinement, Refinement, DeliveryRefinement, PTL

-------------------------------------------------------------------------------
(* The inductive invariant. *)

\* block_since is kept for open blocked tasks only.
BlockStamped ==
  \A t \in Tasks : age[t].block # Never => rows[t].blocked /\ Open(rows[t])

\* The in-flight pass is about to release every dispatch in progress: none has
\* started since its SELECT.
InflightScanned ==
  pc = "write" /\ pass = "inflight" =>
    \A t \in Tasks : Running(rows[t]) /\ Open(rows[t]) => t \in scan.release

\* Escalation comes after the timeouts; from then until the retries are
\* selected, a task past its alert that has a dispatch status was touched in
\* this cycle.
EscalationStamps ==
  /\ pc \in {"select", "write"} /\ pass \in Timed => ~escalated
  /\ escalated /\ pc = "select" /\ pass = "retry" =>
       \A t \in Alerted : rows[t].dispatch_status # "idle" => age[t].event \in 0..cycle

ClockInv == BlockStamped /\ RunningIsYoung /\ InflightScanned /\ EscalationStamps

TInv == IInv /\ TimedTypeOK /\ ClockInv

-------------------------------------------------------------------------------
(* The clock. *)

\* The bounds are numbers, and every threshold lies below the horizon.
LEMMA Thresholds ==
  /\ MaxCycle \in Nat
  /\ Horizon \in Nat
  /\ MaxCycle < Horizon
  /\ \A s \in Timed : TimeoutOf(s) \in Nat
  /\ BlockedAlertAfter \in Nat
  /\ SubmitRetryDelay \in Nat
  /\ StaleAfter \in Nat
<1>1. MaxCycle < Horizon
  <2>1. StaleAfter \in Nat /\ StaleAfter + MaxCycle < Horizon
    BY TimersAssumption
  <2> QED
    BY <2>1, TimersAssumption
<1> QED
  BY <1>1, TimersAssumption DEF Timed, TimeoutOf

\* Time keeps the order of ages, and NULL stays NULL.
LEMMA OlderAges ==
  ASSUME NEW a \in Ages
  PROVE  /\ Older(a) \in Ages
         /\ Older(a) # Never <=> a # Never
         /\ \A b \in 0..Horizon : a <= b => Older(a) <= Older(b)
  BY Thresholds DEF Older, Ages, Never

\* What a request or a result may do to a row, as far as its stamps go.
LEMMA HttpRows ==
  ASSUME IInv, Requests \/ Callbacks, NEW t \in Tasks
  PROVE  /\ UNCHANGED maintenance
         /\ Running(rows'[t]) => Running(rows[t])
         /\ rows'[t].dispatch_status # "idle" => rows[t].dispatch_status # "idle"
         /\ Running(rows'[t]) /\ Open(rows'[t]) => Open(rows[t])
         /\ ~Exists(rows[t]) /\ rows'[t].state \in Timed => rows'[t].state \in SeedStates
<1> DEFINE Kept == /\ Running(rows'[t]) => Running(rows[t])
                   /\ rows'[t].dispatch_status # "idle" => rows[t].dispatch_status # "idle"
                   /\ Running(rows'[t]) /\ Open(rows'[t]) => Open(rows[t])
                   /\ ~Exists(rows[t]) /\ rows'[t].state \in Timed =>
                        rows'[t].state \in SeedStates
<1>1. rows \in [Tasks -> Rows]
  BY DEF IInv, TypeOK
<1>2. UNCHANGED maintenance
  BY DEF Requests, Callbacks, CreateTask, ReadView, TransitionTask, ReviewTask, CancelTask,
         BlockTask, UnblockTask, HumanCancel, HumanReject, HumanConfirm, TakeResult,
         ApplyResult
<1>3. ASSUME NEW u \in Tasks, NEW q, KernelUpdate(u, q), LifecycleStep(rows[u], q)
      PROVE  Kept
  <2>1. /\ rows' = [rows EXCEPT ![u] = q]
        /\ q.dispatch_status \in {rows[u].dispatch_status, "idle"}
    BY <1>3 DEF KernelUpdate, SameDispatch
  <2>2. Open(q) => Open(rows[u])
    BY <1>3
    DEF Open, LifecycleStep, Moved, HandedOver, Touched, Unmoved, IsValidTransition,
        AllowedTransitions, Terminal, States
  <2>3. ~Exists(rows[u]) /\ q.state \in Timed => FALSE
    BY <1>3
    DEF Exists, Timed, LifecycleStep, Moved, HandedOver, Touched, Unmoved,
        IsValidTransition, AllowedTransitions, Terminal, States, Absent
  <2>4. CASE u # t
    BY <1>1, <2>1, <2>4 DEF Running, Exists, Timed, Absent
  <2>5. CASE u = t
    BY <1>1, <2>1, <2>2, <2>3, <2>5 DEF Running
  <2> QED
    BY <2>4, <2>5
<1>4. ASSUME NEW u \in Tasks, NEW s \in SeedStates \cup {"inbox"}, NEW role \in Roles,
             CreateTask(u, s, role)
      PROVE  Kept
  <2>1. /\ rows' = [rows EXCEPT ![u] = NewRow(s, role)]
        /\ NewRow(s, role).dispatch_status = "idle"
    <3>1. rows' = [rows EXCEPT ![u] = NewRow(s, role)]
      BY <1>4, CreateTaskRow
    <3> QED
      BY <3>1 DEF NewRow, AbsentRow
  <2>2. rows'[u].state = s
    BY <1>4, CreateTaskRow
  <2>3. CASE u # t
    BY <1>1, <2>1, <2>3 DEF Running, Exists, Timed, Absent
  <2>4. CASE u = t
    BY <1>1, <2>1, <2>2, <2>4 DEF Running, Timed
  <2> QED
    BY <2>3, <2>4
<1>5. ASSUME UNCHANGED rows PROVE Kept
  BY <1>5 DEF Running, Open, Exists, Timed, Absent
<1>6. Kept
  <2> HIDE DEF Kept
  <2>1. CASE Requests
    <3>1. CASE \E u \in Tasks : RequestUpdate(u)
      BY <1>3, <3>1 DEF RequestUpdate, WorkStep
    <3>2. CASE \E u \in Tasks, c \in Clients : ReadView(c, u)
      BY <1>5, <3>2 DEF ReadView, database
    <3> QED
      BY <1>4, <2>1, <3>1, <3>2, RequestsStep
  <2>2. CASE Callbacks
    BY <1>3, <1>5, <2>2, ApplyResultStep DEF Callbacks, TakeResult, database
  <2> QED
    BY <2>1, <2>2
<1> QED
  BY <1>2, <1>6

-------------------------------------------------------------------------------
(* Every step preserves the invariant.                                     *)

LEMMA HttpThreadPreserves ==
  ASSUME TInv, HttpThread
  PROVE  TimedTypeOK' /\ ClockInv'
<1> DEFINE a(t) == StampedBy(rows[t], rows'[t], age[t])
<1>1. IInv /\ TimedTypeOK /\ ClockInv /\ (Requests \/ Callbacks)
  BY DEF TInv, HttpThread
<1>2. /\ age' = [t \in Tasks |-> a(t)]
      /\ UNCHANGED <<cycle, escalated, sinceInflight, pc, pass, scan>>
  BY <1>1, HttpRows DEF HttpThread, maintenance, Requests, Callbacks, TakeResult, ApplyResult,
     CreateTask, ReadView, TransitionTask, ReviewTask, CancelTask, BlockTask, UnblockTask, HumanCancel,
     HumanReject, HumanConfirm
<1>3. ASSUME NEW t \in Tasks
      PROVE  /\ a(t) \in Stamps
             /\ a(t).started # Never <=> Running(rows'[t])
             /\ EntryStamped(rows'[t].state, a(t).entered)
             /\ a(t).block # Never => rows'[t].blocked /\ Open(rows'[t])
             /\ Running(rows'[t]) => a(t).started = age[t].started
  <2>1. /\ age[t] \in Stamps
        /\ age[t].started # Never <=> Running(rows[t])
        /\ EntryStamped(rows[t].state, age[t].entered)
        /\ Running(rows'[t]) => Running(rows[t])
        /\ ~Exists(rows[t]) /\ rows'[t].state \in Timed => rows'[t].state \in SeedStates
    BY <1>1, HttpRows DEF TimedTypeOK
  <2>2. 0 \in Ages /\ Never \in Ages /\ 0 # Never
    BY Thresholds DEF Ages, Never
  <2>3. EntryStamped(rows'[t].state, a(t).entered)
    BY <2>1, <2>2 DEF StampedBy, EntryStamped
  <2> QED
    BY <2>1, <2>2, <2>3 DEF StampedBy, Stamps
<1>4. TimedTypeOK'
  BY <1>1, <1>2, <1>3 DEF TimedTypeOK
<1>5. BlockStamped'
  BY <1>2, <1>3 DEF BlockStamped
<1>6. RunningIsYoung'
  BY <1>1, <1>2, <1>3, HttpRows DEF ClockInv, RunningIsYoung
<1>7. InflightScanned'
  BY <1>1, <1>2, HttpRows DEF ClockInv, InflightScanned
<1>8. EscalationStamps'
  <2>1. ASSUME escalated, pc = "select", pass = "retry", NEW t \in Tasks, t \in Alerted',
               rows'[t].dispatch_status # "idle"
        PROVE  a(t).event \in 0..cycle
    <3>1. /\ rows'[t].blocked /\ Open(rows'[t])
          /\ a(t).block # Never
          /\ a(t).block - cycle > BlockedAlertAfter
      BY <1>2, <2>1 DEF Alerted, Elapsed
    <3>2. cycle \in Nat
      BY <1>1, Thresholds DEF TimedTypeOK
    <3>3. a(t).block = age[t].block
      BY <3>1, <3>2, Thresholds DEF StampedBy
    <3>4. t \in Alerted
      BY <1>1, <3>1, <3>3 DEF ClockInv, BlockStamped, Alerted, Elapsed
    <3>5. age[t].event \in 0..cycle
      BY <1>1, <2>1, <3>4, HttpRows DEF ClockInv, EscalationStamps
    <3> QED
      BY <2>1, <3>2, <3>5 DEF StampedBy
  <2>2. Alerted' \subseteq Tasks
    BY DEF Alerted
  <2> QED
    BY <1>1, <1>2, <2>1, <2>2 DEF ClockInv, EscalationStamps
<1> QED
  BY <1>4, <1>5, <1>6, <1>7, <1>8 DEF ClockInv

\* The steps of the maintenance thread that write neither a row nor a stamp.
LEMMA ThreadMovesPreserve ==
  ASSUME TInv, UNCHANGED <<rows, age, sinceInflight>>,
         cycle' \in {cycle, 0},
         \/ TimedStartCycle \/ TimedSelectTimeouts \/ TimedSelectRetries
         \/ TimedSelectInflight \/ TimedEndCycle \/ Unstamped \/ TimedReceives \/ TimedCrash
  PROVE  TimedTypeOK' /\ ClockInv'
<1>1. /\ IInv /\ TimedTypeOK /\ ClockInv
      /\ 0 \in 0..MaxCycle
  BY Thresholds DEF TInv
<1>2. TimedTypeOK'
  BY <1>1
  DEF TimedTypeOK, TimedStartCycle, TimedSelectTimeouts, TimedSelectRetries,
      TimedSelectInflight, TimedEndCycle, Unstamped, TimedReceives, TimedCrash, clocks
<1>3. BlockStamped' /\ RunningIsYoung'
  BY <1>1 DEF ClockInv, BlockStamped, RunningIsYoung
<1>4. InflightScanned'
  <2>1. CASE TimedSelectInflight
    BY <2>1 DEF TimedSelectInflight, SelectInflight, InflightScanned
  <2>2. CASE TimedReceives
    BY <1>1, <2>2 DEF TimedReceives, RuntimeReceives, maintenance, ClockInv, InflightScanned
  <2>3. CASE ~TimedSelectInflight /\ ~TimedReceives
    BY <2>3
    DEF InflightScanned, TimedStartCycle, StartCycle, TimedSelectTimeouts, SelectTimeouts,
        TimedSelectRetries, SelectRetries, TimedEndCycle, EndCycle, Unstamped, SelectReady,
        SkipTask, ReadTask, BuildInvoke, SubmitReturns, SubmitRaises, CheckFailure, TimedCrash,
        CrashAndRestart
  <2> QED
    BY <2>1, <2>2, <2>3
<1>5. EscalationStamps'
  <2>1. /\ "retry" \notin Timed /\ "inflight" \notin Timed
    BY DEF Timed
  <2>2. CASE TimedStartCycle
    BY <2>2 DEF TimedStartCycle, StartCycle, EscalationStamps
  <2>3. CASE TimedSelectTimeouts \/ TimedSelectRetries \/ TimedSelectInflight
    BY <1>1, <2>1, <2>3
    DEF TimedSelectTimeouts, SelectTimeouts, TimedSelectRetries, SelectRetries,
        TimedSelectInflight, SelectInflight, clocks, ClockInv, EscalationStamps
  <2>4. CASE TimedEndCycle \/ Unstamped \/ TimedReceives \/ TimedCrash
    BY <2>4
    DEF TimedEndCycle, EndCycle, Unstamped, SelectReady, SkipTask, ReadTask, BuildInvoke,
        SubmitReturns, SubmitRaises, CheckFailure, TimedReceives, RuntimeReceives, TimedCrash,
        CrashAndRestart, maintenance, EscalationStamps
  <2> QED
    BY <2>2, <2>3, <2>4
<1> QED
  BY <1>2, <1>3, <1>4, <1>5 DEF ClockInv

LEMMA EscalateBlockedPreserves ==
  ASSUME TInv, EscalateBlocked
  PROVE  TimedTypeOK' /\ ClockInv'
<1> USE DEF EscalateBlocked, vars
<1>1. TimedTypeOK /\ ClockInv
  BY DEF TInv
<1>2. \A t \in Tasks :
        /\ age[t] \in Stamps
        /\ age'[t] \in Stamps
        /\ age'[t].started = age[t].started
        /\ age'[t].entered = age[t].entered
        /\ age'[t].block = age[t].block
        /\ t \in Alerted /\ rows[t].dispatch_status # "idle" => age'[t].event = 0
  BY <1>1, Thresholds DEF TimedTypeOK, Stamps, Ages
<1>3. TimedTypeOK'
  BY <1>1, <1>2 DEF TimedTypeOK
<1>4. BlockStamped' /\ RunningIsYoung' /\ InflightScanned'
  BY <1>1, <1>2 DEF ClockInv, BlockStamped, RunningIsYoung, InflightScanned
<1>5. EscalationStamps'
  <2>1. Alerted' = Alerted /\ Alerted \subseteq Tasks
    BY <1>2 DEF Alerted, Elapsed
  <2>2. cycle \in Nat /\ "retry" \notin Timed
    BY <1>1, Thresholds DEF TimedTypeOK, Timed
  <2> QED
    BY <1>2, <2>1, <2>2 DEF EscalationStamps
<1> QED
  BY <1>3, <1>4, <1>5 DEF ClockInv

LEMMA WriteRecoveryStamps ==
  ASSUME TInv, TimedWriteRecovery
  PROVE  TimedTypeOK' /\ ClockInv'
<1> USE DEF TimedWriteRecovery, WriteRecovery
<1>1. /\ IInv /\ TimedTypeOK /\ ClockInv
      /\ 0 \in Ages /\ Never \in Ages /\ 0 # Never
  BY Thresholds DEF TInv, Ages, Never
<1>2. ASSUME NEW t \in Tasks
      PROVE  /\ rows'[t] = Recovered(t)
             /\ rows'[t].state = rows[t].state
             /\ t \in scan.release \cup scan.exhaust => ~Running(rows'[t])
             /\ t \notin scan.release \cup scan.exhaust => rows'[t] = rows[t]
             /\ t \in scan.exhaust \ scan.release => rows'[t].blocked
             /\ t \in scan.release => rows'[t].blocked = rows[t].blocked
  BY <1>1, ReleasedStep, ExhaustedStep
  DEF Recovered, IInv, TypeOK, Bookkeeping, Unmoved, Running
<1>3. ASSUME NEW t \in Tasks
      PROVE  /\ age'[t] = StampedByRecovery(t)
             /\ age'[t] \in Stamps
             /\ age'[t].entered = age[t].entered
             /\ age'[t].started # Never <=> Running(rows'[t])
             /\ age'[t].block # Never => rows'[t].blocked /\ Open(rows'[t])
             /\ Running(rows'[t]) => age'[t] = age[t]
  <2>1. age[t] \in Stamps /\ (age[t].started # Never <=> Running(rows[t]))
    BY <1>1 DEF TimedTypeOK
  <2>2. age'[t] = StampedByRecovery(t)
    OBVIOUS
  <2>3. CASE t \in scan.release
    BY <1>1, <1>2, <2>1, <2>2, <2>3
    DEF StampedByRecovery, Stamps, ClockInv, BlockStamped, Open
  <2>4. CASE t \in scan.exhaust \ scan.release
    BY <1>1, <1>2, <2>1, <2>2, <2>4 DEF StampedByRecovery, Stamps, Open
  <2>5. CASE t \notin scan.release \cup scan.exhaust
    BY <1>1, <1>2, <2>1, <2>2, <2>5 DEF StampedByRecovery, ClockInv, BlockStamped
  <2> QED
    BY <2>2, <2>3, <2>4, <2>5
<1>4. TimedTypeOK'
  <2>1. age' \in [Tasks -> Stamps] /\ sinceInflight' \in 0..Horizon
    BY <1>1, <1>3, Thresholds DEF TimedTypeOK
  <2> QED
    BY <1>1, <1>2, <1>3, <2>1 DEF TimedTypeOK
<1>5. BlockStamped'
  BY <1>3 DEF BlockStamped
<1>6. RunningIsYoung'
  <2> SUFFICES ASSUME NEW t \in Tasks, Running(rows'[t]), Open(rows'[t])
               PROVE  age'[t].started <= sinceInflight'
    BY DEF RunningIsYoung
  <2>1. /\ t \notin scan.release
        /\ rows'[t] = rows[t]
        /\ age'[t] = age[t]
    BY <1>2, <1>3
  <2>2. pass # "inflight"
    BY <1>1, <2>1 DEF ClockInv, InflightScanned
  <2> QED
    BY <1>1, <2>1, <2>2 DEF ClockInv, RunningIsYoung
<1>7. InflightScanned'
  BY DEF InflightScanned
<1>8. EscalationStamps'
  BY <1>1 DEF ClockInv, EscalationStamps, Timed
<1> QED
  BY <1>4, <1>5, <1>6, <1>7, <1>8 DEF ClockInv

LEMMA MarkRunningStamps ==
  ASSUME TInv, TimedMarkRunning
  PROVE  TimedTypeOK' /\ ClockInv'
<1> USE DEF TimedMarkRunning, MarkRunning, Update
<1> DEFINE q == Dispatched(rows[job.task], job.role, job.attempts + 1, job.invoke)
<1>1. /\ IInv /\ TimedTypeOK /\ ClockInv
      /\ 0 \in Ages /\ 0 # Never
  BY Thresholds DEF TInv, Ages, Never
<1>2. /\ job.task \in Tasks
      /\ rows \in [Tasks -> Rows]
      /\ rows' = [rows EXCEPT ![job.task] = q]
  BY <1>1 DEF IInv, TypeOK, Dispatching
<1>3. Running(q) /\ q.state = rows[job.task].state /\ q.blocked = rows[job.task].blocked
  BY <1>2 DEF Dispatched, Running, Rows
<1> HIDE DEF q
<1>4. age' = [age EXCEPT ![job.task] = [age[job.task] EXCEPT !.started = 0, !.event = 0]]
  BY <1>1 DEF TimedTypeOK
<1>5. ASSUME NEW t \in Tasks
      PROVE  /\ age'[t] \in Stamps
             /\ age'[t].entered = age[t].entered
             /\ age'[t].block = age[t].block
             /\ rows'[t].state = rows[t].state
             /\ rows'[t].blocked = rows[t].blocked
             /\ IF t = job.task
                THEN age'[t].started = 0 /\ Running(rows'[t])
                ELSE age'[t].started = age[t].started /\ rows'[t] = rows[t]
  BY <1>1, <1>2, <1>3, <1>4 DEF TimedTypeOK, Stamps
<1>6. TimedTypeOK'
  <2>1. age' \in [Tasks -> Stamps]
    BY <1>1, <1>4, <1>5 DEF TimedTypeOK
  <2> QED
    BY <1>1, <1>5, <2>1 DEF TimedTypeOK
<1>7. BlockStamped'
  BY <1>1, <1>5 DEF ClockInv, BlockStamped, Open
<1>8. RunningIsYoung'
  <2>1. 0 <= sinceInflight
    BY <1>1, Thresholds DEF TimedTypeOK
  <2> QED
    BY <1>1, <1>5, <2>1 DEF ClockInv, RunningIsYoung
<1>9. InflightScanned' /\ EscalationStamps'
  BY DEF InflightScanned, EscalationStamps
<1> QED
  BY <1>6, <1>7, <1>8, <1>9 DEF ClockInv

LEMMA RecordFailureStamps ==
  ASSUME TInv, TimedRecordFailure
  PROVE  TimedTypeOK' /\ ClockInv'
<1> USE DEF TimedRecordFailure, RecordFailure, Update
<1> DEFINE r == rows[job.task]
           q == SubmitFailed(r, job.role, job.attempts + 1, job.invoke, job.action)
<1>1. /\ IInv /\ TimedTypeOK /\ ClockInv
      /\ 0 \in Ages /\ Never \in Ages /\ 0 # Never
  BY Thresholds DEF TInv, Ages, Never
<1>2. /\ job.task \in Tasks
      /\ job.role \in Roles
      /\ job.action \in RecoveryActions
      /\ job.attempts + 1 \in Nat
      /\ job.invoke \in Invokes
      /\ rows \in [Tasks -> Rows]
      /\ r \in Rows
      /\ age[job.task] \in Stamps
  <2>1. job \in Jobs
    BY <1>1 DEF IInv, TypeOK, Dispatching
  <2>2. job.invoke \in Invokes
    BY <1>1 DEF IInv, TypeOK, Dispatching, ThreadInv, AttemptsHeld
  <2> QED
    BY <1>1, <2>1, <2>2 DEF IInv, TypeOK, Dispatching, TimedTypeOK, Jobs
<1>3. /\ ~Running(q)
      /\ q.state = r.state
      /\ job.action = "block" => q.blocked
      /\ job.action # "block" => q.blocked = r.blocked
  <2>1. job.action # "block" => q.blocked = r.blocked
    BY <1>2 DEF SubmitFailed, Rows
  <2> HIDE DEF q
  <2>2. Bookkeeping(r, q) /\ ~Running(q) /\ (job.action = "block" => q.blocked)
    BY <1>2, SubmitFailedStep DEF q
  <2> QED
    BY <2>1, <2>2 DEF Bookkeeping, Unmoved
<1> DEFINE a == StampedByFailure(r, age[job.task])
<1>4. rows' = [rows EXCEPT ![job.task] = q] /\ age' = [age EXCEPT ![job.task] = a]
  OBVIOUS
<1>5. /\ a \in Stamps
      /\ a.started = Never
      /\ a.entered = age[job.task].entered
      /\ a.block # Never => q.blocked /\ Open(q)
  BY <1>1, <1>2, <1>3 DEF StampedByFailure, Stamps, ClockInv, BlockStamped, Open
<1> HIDE DEF a, q
<1>6. TimedTypeOK'
  <2>1. age' \in [Tasks -> Stamps]
    BY <1>1, <1>4, <1>5 DEF TimedTypeOK
  <2> QED
    BY <1>1, <1>2, <1>3, <1>4, <1>5, <2>1 DEF TimedTypeOK
<1>7. BlockStamped'
  BY <1>1, <1>2, <1>4, <1>5 DEF TimedTypeOK, ClockInv, BlockStamped
<1>8. RunningIsYoung'
  BY <1>1, <1>2, <1>3, <1>4 DEF TimedTypeOK, ClockInv, RunningIsYoung
<1> QED
  BY <1>6, <1>7, <1>8 DEF ClockInv, InflightScanned, EscalationStamps

LEMMA TickPreserves ==
  ASSUME TInv, Tick
  PROVE  TimedTypeOK' /\ ClockInv'
<1> USE DEF Tick, vars
<1>1. TimedTypeOK /\ ClockInv
  BY DEF TInv
<1>2. ASSUME NEW t \in Tasks
      PROVE  /\ age[t] \in Stamps
             /\ age'[t] \in Stamps
             /\ age'[t].started # Never <=> age[t].started # Never
             /\ age'[t].entered # Never <=> age[t].entered # Never
             /\ age'[t].block # Never <=> age[t].block # Never
             /\ age'[t] = OlderStamps(age[t])
  BY <1>1, OlderAges DEF TimedTypeOK, OlderStamps, Stamps
<1>3. /\ cycle' \in 0..MaxCycle
      /\ sinceInflight' \in 0..Horizon
      /\ sinceInflight' = Older(sinceInflight)
  BY <1>1, Thresholds DEF TimedTypeOK, Older
<1>4. TimedTypeOK'
  <2>1. age' \in [Tasks -> Stamps]
    BY <1>1, <1>2 DEF TimedTypeOK
  <2>2. ASSUME NEW t \in Tasks PROVE EntryStamped(rows[t].state, age'[t].entered)
    BY <1>1, <1>2 DEF TimedTypeOK, EntryStamped
  <2> QED
    BY <1>1, <1>2, <1>3, <2>1, <2>2 DEF TimedTypeOK
<1>5. BlockStamped' /\ InflightScanned'
  BY <1>1, <1>2 DEF ClockInv, BlockStamped, InflightScanned
<1>6. RunningIsYoung'
  <2> SUFFICES ASSUME NEW t \in Tasks, Running(rows[t]), Open(rows[t])
               PROVE  Older(age[t].started) <= Older(sinceInflight)
    BY <1>2, <1>3 DEF RunningIsYoung, OlderStamps
  <2>1. age[t].started \in Ages /\ age[t].started <= sinceInflight
    BY <1>1 DEF TimedTypeOK, Stamps, ClockInv, RunningIsYoung
  <2> QED
    BY <1>1, <2>1, OlderAges DEF TimedTypeOK
<1>7. EscalationStamps'
  <2> SUFFICES ASSUME escalated, pc = "select", pass = "retry", NEW t \in Tasks, t \in Alerted',
                      rows[t].dispatch_status # "idle"
               PROVE  age'[t].event \in 0..cycle'
    BY <1>1 DEF ClockInv, EscalationStamps, Alerted
  <2>1. /\ cycle' = cycle + 1
        /\ cycle < MaxCycle
        /\ cycle \in Nat
    BY <1>1, Thresholds DEF TimedTypeOK
  <2>2. age[t].block \in Ages /\ age[t].event \in Ages
    BY <1>2 DEF Stamps
  <2>3. t \in Alerted
    BY <1>2, <2>1, <2>2, Thresholds DEF Alerted, Elapsed, OlderStamps, Older, Ages, Never
  <2>4. age[t].event \in 0..cycle
    BY <1>1, <2>3 DEF ClockInv, EscalationStamps
  <2>5. age'[t].event = age[t].event + 1
    BY <1>2, <2>1, <2>4, Thresholds DEF OlderStamps, Older
  <2> QED
    BY <2>1, <2>4, <2>5
<1> QED
  BY <1>4, <1>5, <1>6, <1>7 DEF ClockInv

\* Steps that write neither rows nor stamps, by their actions.
LEMMA ThreadMoves ==
  ASSUME \/ TimedStartCycle \/ TimedSelectTimeouts \/ TimedSelectRetries
         \/ TimedSelectInflight \/ TimedEndCycle \/ Unstamped \/ TimedReceives \/ TimedCrash
  PROVE  UNCHANGED <<rows, age, sinceInflight>> /\ cycle' \in {cycle, 0}
<1> USE DEF clocks, database
<1>1. CASE TimedStartCycle \/ TimedSelectTimeouts \/ TimedSelectRetries
  BY <1>1
  DEF TimedStartCycle, StartCycle, TimedSelectTimeouts, SelectTimeouts, TimedSelectRetries,
      SelectRetries
<1>2. CASE TimedSelectInflight \/ TimedEndCycle \/ TimedReceives \/ TimedCrash
  BY <1>2
  DEF TimedSelectInflight, SelectInflight, TimedEndCycle, EndCycle, TimedReceives,
      RuntimeReceives, TimedCrash, CrashAndRestart
<1>3. CASE Unstamped
  BY <1>3 DEF Unstamped, SelectReady, SkipTask, ReadTask, BuildInvoke, SubmitReturns,
      SubmitRaises, CheckFailure
<1> QED
  BY <1>1, <1>2, <1>3

LEMMA TimedInitTInv ==
  ASSUME TimedInit
  PROVE  TInv
<1> USE DEF TimedInit
<1>1. IInv
  BY InitIInv
<1>2. ~Running(AbsentRow) /\ AbsentRow.state \notin Timed
  BY DEF AbsentRow, Running, Timed, Absent
<1>3. NoStamps \in Stamps /\ 0 \in 0..MaxCycle /\ 0 \in 0..Horizon
  BY Thresholds DEF NoStamps, Stamps, Ages
<1>4. TimedTypeOK
  BY <1>2, <1>3 DEF Init, TimedTypeOK, EntryStamped, NoStamps
<1>5. ClockInv
  BY <1>2
  DEF Init, ClockInv, BlockStamped, RunningIsYoung, InflightScanned, EscalationStamps, NoStamps
<1> QED
  BY <1>1, <1>4, <1>5 DEF TInv

LEMMA TimedNextTInv ==
  ASSUME TInv, [TimedNext]_timedVars
  PROVE  TInv'
<1>1. IInv'
  BY TimedStepIsStep, NextIInv DEF TInv
<1>2. CASE UNCHANGED timedVars
  <2> USE <1>2 DEF timedVars, vars, clocks
  <2>1. TimedTypeOK' /\ BlockStamped' /\ RunningIsYoung' /\ InflightScanned'
    BY DEF TInv, TimedTypeOK, ClockInv, BlockStamped, RunningIsYoung, InflightScanned
  <2>2. Alerted' = Alerted
    BY DEF Alerted, Elapsed
  <2>3. EscalationStamps'
    BY <2>2 DEF TInv, ClockInv, EscalationStamps
  <2> QED
    BY <1>1, <2>1, <2>3 DEF TInv, ClockInv
<1>3. CASE \/ TimedStartCycle \/ TimedSelectTimeouts \/ TimedSelectRetries
           \/ TimedSelectInflight \/ TimedEndCycle \/ Unstamped \/ TimedReceives \/ TimedCrash
  BY <1>1, <1>3, ThreadMoves, ThreadMovesPreserve DEF TInv
<1>4. CASE \/ HttpThread \/ EscalateBlocked \/ TimedWriteRecovery \/ TimedMarkRunning
           \/ TimedRecordFailure \/ Tick
  BY <1>1, <1>4, HttpThreadPreserves, EscalateBlockedPreserves, WriteRecoveryStamps,
     MarkRunningStamps, RecordFailureStamps, TickPreserves DEF TInv
<1> QED
  BY <1>2, <1>3, <1>4 DEF TimedNext, TimedMaintenance

-------------------------------------------------------------------------------
(* Theorems. *)

\* The inductive invariant holds in every reachable state.
THEOREM TimedInvariance == TimedSpec => []TInv
<1>1. TimedInit => TInv
  BY TimedInitTInv
<1>2. TInv /\ [TimedNext]_timedVars => TInv'
  BY TimedNextTInv
<1> QED
  BY <1>1, <1>2, PTL DEF TimedSpec

\* Stamps have their types, and agree with the rows they are kept for.
THEOREM TimedTypeCorrect == TimedSpec => []TimedTypeOK
<1>1. TInv => TimedTypeOK
  BY DEF TInv
<1> QED
  BY <1>1, TimedInvariance, PTL

\* No dispatch in progress is older than the last in-flight pass.
THEOREM RunningDispatchesAreYoung == TimedSpec => []RunningIsYoung
<1>1. TInv => RunningIsYoung
  BY DEF TInv, ClockInv
<1> QED
  BY <1>1, TimedInvariance, PTL

\* Agent health speaks of the maintenance loop; an agent degrades it only by keeping
\* that loop waiting.
THEOREM DegradedMeansStalled == TimedSpec => []DegradedOnlyWhenStalled
<1>1. ASSUME TInv, NEW t \in StaleDispatches PROVE sinceInflight > StaleAfter
  <2>1. /\ t \in Tasks
        /\ age[t].started \in Ages
        /\ age[t].started > StaleAfter
        /\ age[t].started <= sinceInflight
        /\ sinceInflight \in 0..Horizon
    BY <1>1 DEF StaleDispatches, TInv, TimedTypeOK, Stamps, ClockInv, RunningIsYoung
  <2> QED
    BY <2>1, Thresholds DEF Ages, Never
<1>2. TInv => DegradedOnlyWhenStalled
  BY <1>1 DEF DegradedOnlyWhenStalled
<1> QED
  BY <1>2, TimedInvariance, PTL

\* A step of the maintenance thread that ends a SELECT is the SELECT of the
\* pass it is in.
LEMMA SelectSteps ==
  ASSUME [TimedNext]_timedVars, pc = "select", pc' = "write"
  PROVE  \/ TimedSelectTimeouts \/ TimedSelectRetries \/ TimedSelectInflight
<1>1. CASE HttpThread
  BY <1>1
  DEF HttpThread, Requests, Callbacks, CreateTask, ReadView, TransitionTask, ReviewTask,
      CancelTask, BlockTask, UnblockTask, HumanCancel, HumanReject, HumanConfirm,
      TakeResult, ApplyResult, maintenance
<1>2. CASE TimedMaintenance
  BY <1>2
  DEF TimedMaintenance, TimedStartCycle, StartCycle, EscalateBlocked, TimedWriteRecovery,
      WriteRecovery, TimedMarkRunning, MarkRunning, TimedRecordFailure, RecordFailure,
      TimedEndCycle, EndCycle, Unstamped, SelectReady, SkipTask, ReadTask, BuildInvoke,
      SubmitReturns, SubmitRaises, CheckFailure, vars
<1>3. CASE TimedReceives \/ TimedCrash \/ Tick \/ UNCHANGED timedVars
  BY <1>3
  DEF TimedReceives, RuntimeReceives, TimedCrash, CrashAndRestart, Tick, timedVars, vars,
      maintenance
<1> QED
  BY <1>1, <1>2, <1>3 DEF TimedNext

\* Nobody is given up for a timeout before the time, although the clock that is
\* read may be that of a dispatch begun in an earlier state.
THEOREM TimeoutsAreAlwaysDeserved == TimedSpec => TimeoutsAreDeserved
<1> DEFINE Deserved ==
      pc = "select" /\ pass \in Timed /\ pc' = "write" =>
        \A t \in scan'.release :
          \/ Elapsed(age[t].entered) > TimeoutOf(pass)
          \/ Elapsed(sinceInflight) > TimeoutOf(pass)
<1>1. ASSUME TInv, [TimedNext]_timedVars PROVE Deserved
  <2> SUFFICES ASSUME pc = "select", pass \in Timed, pc' = "write", NEW t \in scan'.release
               PROVE  \/ Elapsed(age[t].entered) > TimeoutOf(pass)
                      \/ Elapsed(sinceInflight) > TimeoutOf(pass)
    OBVIOUS
  <2>1. t \in Overdue(pass)
    BY <1>1, SelectSteps
    DEF TimedSelectTimeouts, TimedSelectRetries, SelectRetries, TimedSelectInflight,
        SelectInflight, Timed
  <2>2. /\ t \in Tasks
        /\ rows[t].state = pass
        /\ age[t] \in Stamps
        /\ age[t].started # Never => Running(rows[t])
        /\ Open(rows[t])
    BY <1>1, <2>1 DEF Overdue, TInv, TimedTypeOK, Open, Timed, States, Terminal
  <2>3. /\ cycle \in Nat /\ sinceInflight \in Nat
        /\ TimeoutOf(pass) \in Nat
    BY <1>1, Thresholds DEF TInv, TimedTypeOK
  <2>4. CASE age[t].started = Never
    BY <2>1, <2>4 DEF Overdue, Reference
  <2>5. CASE age[t].started # Never
    <3>1. age[t].started <= sinceInflight
      BY <1>1, <2>2, <2>5 DEF TInv, ClockInv, RunningIsYoung
    <3>2. age[t].started \in Nat
      BY <2>2, <2>5, Thresholds DEF Stamps, Ages, Never
    <3> QED
      BY <2>1, <2>3, <2>5, <3>1, <3>2 DEF Overdue, Reference, Elapsed
  <2> QED
    BY <2>4, <2>5
<1>2. TInv /\ [TimedNext]_timedVars => [Deserved]_timedVars
  BY <1>1
<1> QED
  BY <1>2, TimedInvariance, PTL DEF TimedSpec, TimeoutsAreDeserved

\* With any retry delay at all, a blocked task past its alert waits for its
\* operator: the retry pass never hands it back.
THEOREM EscalatedTasksWait ==
  ASSUME SubmitRetryDelay > 0
  PROVE  TimedSpec => EscalatedIsNotRetried
<1> DEFINE Waits == pc = "select" /\ pass = "retry" /\ pc' = "write" =>
                      Alerted \cap scan'.release = {}
<1>1. ASSUME TInv, [TimedNext]_timedVars PROVE Waits
  <2> SUFFICES ASSUME pc = "select", pass = "retry", pc' = "write",
                      NEW t \in Alerted, t \in scan'.release
               PROVE  FALSE
    OBVIOUS
  <2>1. escalated /\ t \in Waited
    BY <1>1, SelectSteps
    DEF TimedSelectTimeouts, SelectTimeouts, TimedSelectRetries, TimedSelectInflight,
        SelectInflight
  <2>2. rows[t].dispatch_status # "idle"
    BY <2>1 DEF Waited, RetryCandidates
  <2>3. age[t].event \in 0..cycle /\ cycle \in Nat
    BY <1>1, <2>1, <2>2, Thresholds DEF TInv, TimedTypeOK, ClockInv, EscalationStamps
  <2>4. age[t].event - cycle >= SubmitRetryDelay
    BY <2>1, <2>3 DEF Waited, Elapsed, Never
  <2> QED
    BY <2>3, <2>4, Thresholds
<1>2. TInv /\ [TimedNext]_timedVars => [Waits]_timedVars
  BY <1>1
<1> QED
  BY <1>2, TimedInvariance, PTL DEF TimedSpec, EscalatedIsNotRetried
-------------------------------------------------------------------------------
(* Liveness, from the inductive invariant.                                 *)

\* The write of recover_inflight_dispatches.
InflightPass == TimedWriteRecovery /\ pass = "inflight"

\* An in-flight pass leaves no open task running.
LEMMA InflightPassReleasesAll ==
  ASSUME TInv, InflightPass, NEW t \in Tasks
  PROVE  ~(Running(rows'[t]) /\ Open(rows'[t]))
<1>1. WriteRecovery /\ pass = "inflight" /\ IInv /\ InflightScanned
  BY DEF InflightPass, TimedWriteRecovery, TInv, ClockInv
<1>2. /\ pc = "write"
      /\ rows'[t] = Recovered(t)
  BY <1>1 DEF WriteRecovery
<1>3. CASE t \in scan.release
  BY <1>1, <1>2, <1>3, ReleasedStep DEF Recovered, IInv, TypeOK, Running
<1>4. CASE t \in scan.exhaust
  BY <1>1, <1>2, <1>4, ReleasedStep, ExhaustedStep DEF Recovered, IInv, TypeOK, Running
<1>5. CASE t \notin scan.release \cup scan.exhaust
  <2>1. rows'[t] = rows[t]
    BY <1>2, <1>5 DEF Recovered
  <2> QED
    BY <1>1, <1>2, <1>5, <2>1 DEF InflightScanned
<1> QED
  BY <1>3, <1>4, <1>5

\* As long as the maintenance loop comes round to its in-flight pass again and
\* again, no dispatch holds its task for ever, whatever crashes, results and
\* requests do: nothing is asked of the runtime, and no other step need happen.
THEOREM InflightEnds ==
  TimedSpec /\ []<><<InflightPass>>_timedVars => InflightNeverStuck
<1> SUFFICES ASSUME NEW t \in Tasks, NEW a \in 1..MaxAttempts
             PROVE  TimedSpec /\ []<><<InflightPass>>_timedVars =>
                      (Running(rows[t]) /\ Open(rows[t]) /\ rows[t].dispatch_attempts = a
                         ~> \/ ~Running(rows[t])
                            \/ ~Open(rows[t])
                            \/ rows[t].dispatch_attempts # a)
  BY DEF InflightNeverStuck
<1>1. TInv /\ [TimedNext]_timedVars /\ <<InflightPass>>_timedVars
        => (\/ ~Running(rows[t])
            \/ ~Open(rows[t])
            \/ rows[t].dispatch_attempts # a)'
  BY InflightPassReleasesAll
<1> QED
  BY <1>1, TimedInvariance, PTL DEF TimedSpec
\* With the clock too, a ready task is dispatched, blocked or finished as long
\* as cycles are completed again and again: no threshold and no length of a
\* cycle keeps it waiting.
THEOREM ReadyTasksAreDispatchedInTime ==
  ASSUME IsFiniteSet(Tasks), Cardinality(Tasks) <= BatchLimit
  PROVE  TimedSpec /\ []<><<TimedEndCycle>>_timedVars => ReadyIsDispatched
<1>1. <<TimedEndCycle>>_timedVars => <<EndCycle>>_vars
  BY DEF TimedEndCycle, EndCycle, vars
<1> QED
  BY <1>1, TimedRefinement, ReadyTasksAreDispatched, PTL
================================================================================
