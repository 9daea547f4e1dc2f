--------------------------------- MODULE Timers ---------------------------------
(***************************************************************************)
(* Module Sidecar with the clock: the time stamps that the recovery passes,*)
(* the metrics and the agent health monitor read, and the thresholds they  *)
(* compare them with.  Every step is a step of Sidecar together with the   *)
(* stamps the code writes in it, a tick of the clock, or the pass over     *)
(* blocked tasks, which writes nothing but stamps.  Where Sidecar leaves   *)
(* it open which rows are overdue, the stamps decide.                      *)
(*                                                                         *)
(* A stamp is kept as its age, in ticks, and only where somebody reads it. *)
(***************************************************************************)
EXTENDS SidecarProps, Integers

CONSTANTS
  ExecutingTimeout,   \* executing_timeout_sec
  ReviewingTimeout,   \* reviewing_timeout_sec
  BlockedAlertAfter,  \* blocked_alert_after_sec
  SubmitRetryDelay,   \* runtime_submit_retry_delay_sec
  StaleAfter,         \* stale_after_sec of AgentHealthMonitor
  MaxCycle,           \* bound: ticks a maintenance cycle may last
  Horizon             \* bound: an age stays at this value once it has reached it

\* An age that has reached the horizon is past every threshold, at whatever
\* moment of a cycle it is compared.
ASSUME TimersAssumption ==
  /\ MaxCycle \in Nat
  /\ Horizon \in Nat
  /\ \A limit \in {ExecutingTimeout, ReviewingTimeout, BlockedAlertAfter,
                   SubmitRetryDelay, StaleAfter} :
       limit \in Nat /\ limit + MaxCycle < Horizon

VARIABLES
  age,           \* ages of the stamps of each task
  cycle,         \* ticks since the cycle began: its cycle_time is that old
  escalated,     \* the pass over blocked tasks of this cycle is done
  sinceInflight  \* ticks since an in-flight pass was last committed (history)

clocks    == <<age, cycle, escalated, sinceInflight>>
timedVars == <<vars, clocks>>

\* SQL NULL.
Never == -1

Ages == {Never} \cup 0..Horizon

\* dispatch_started_at, the last "% -> state" event of the state the task is
\* in, last_event_at, block_since.
Stamps == [started : Ages, entered : Ages, event : Ages, block : Ages]

NoStamps == [started |-> Never, entered |-> Never, event |-> Never, block |-> Never]

Timed == {"executing", "reviewing"}

TimedInit ==
  /\ Init
  /\ age           = [t \in Tasks |-> NoStamps]
  /\ cycle         = 0
  /\ escalated     = FALSE
  /\ sinceInflight = 0

-------------------------------------------------------------------------------
(* What is overdue.                                                        *)

\* Recovery measures from cycle_time, not from the present.
Elapsed(a) == a - cycle

\* A dispatch in progress hides when the state was entered.
Reference(t) == IF age[t].started # Never THEN age[t].started ELSE age[t].entered

TimeoutOf(s) == IF s = "executing" THEN ExecutingTimeout ELSE ReviewingTimeout

\* Plausible fault: a task is due one tick too early.
OverdueEarly(s) ==
  {t \in Tasks : /\ rows[t].state = s
                 /\ Reference(t) # Never
                 /\ Elapsed(Reference(t)) >= TimeoutOf(s)}

\* _recover_state_timeouts; compute_anomaly_summary counts the same rows.
Overdue(s) ==
  {t \in Tasks : /\ rows[t].state = s
                 /\ Reference(t) # Never
                 /\ Elapsed(Reference(t)) > TimeoutOf(s)}

\* recover_blocked_tasks.
Alerted ==
  {t \in Tasks : /\ rows[t].blocked
                 /\ Open(rows[t])
                 /\ age[t].block # Never
                 /\ Elapsed(age[t].block) > BlockedAlertAfter}

\* _submit_retry_delay_elapsed.
Waited ==
  {t \in RetryCandidates :
     /\ ~BudgetSpent(rows[t])
     /\ age[t].event = Never \/ Elapsed(age[t].event) >= SubmitRetryDelay}

\* AgentHealthMonitor.snapshot, at the present time.
StaleDispatches ==
  {t \in Tasks : Running(rows[t]) /\ Open(rows[t]) /\ age[t].started > StaleAfter}

-------------------------------------------------------------------------------
(* HTTP thread: each request and each result stamps the row it changes.    *)

\* mark_task_blocked on behalf of a caller or a result.
BlocksNow(old, new) ==
  new.blocked /\ new.state = old.state /\ new.version > old.version

\* A create writes no event: the state a task is created in was never entered.
StampedBy(old, new, a) ==
  [started |-> IF Running(new) THEN a.started ELSE Never,
   entered |-> IF new.state = old.state THEN a.entered
               ELSE IF Exists(old) /\ new.state \in Timed THEN 0 ELSE Never,
   event   |-> IF new = old THEN a.event
               ELSE IF new.dispatch_status = "idle" THEN Never ELSE 0,
   block   |-> IF ~(new.blocked /\ Open(new)) THEN Never
               ELSE IF BlocksNow(old, new) THEN 0 ELSE a.block]

HttpThread ==
  /\ Requests \/ Callbacks
  /\ age' = [t \in Tasks |-> StampedBy(rows[t], rows'[t], age[t])]
  /\ UNCHANGED <<cycle, escalated, sinceInflight>>

-------------------------------------------------------------------------------
(* Maintenance thread.                                                     *)

TimedStartCycle ==
  /\ StartCycle
  /\ escalated' = FALSE
  /\ UNCHANGED <<age, cycle, sinceInflight>>

TimedSelectTimeouts ==
  /\ SelectTimeouts
  /\ scan'.release = Overdue(pass)
  /\ UNCHANGED clocks

\* Plausible fault: escalation leaves last_event_at alone.
EscalateSilently ==
  /\ pc = "select"
  /\ pass = "retry"
  /\ ~escalated
  /\ escalated' = TRUE
  /\ UNCHANGED <<vars, age, cycle, sinceInflight>>

\* recover_blocked_tasks, between the passes over timeouts and over retries.
EscalateBlocked ==
  /\ pc = "select"
  /\ pass = "retry"
  /\ ~escalated
  /\ escalated' = TRUE
  /\ age' = [t \in Tasks |-> IF t \in Alerted /\ rows[t].dispatch_status # "idle"
                             THEN [age[t] EXCEPT !.event = 0] ELSE age[t]]
  /\ UNCHANGED <<vars, cycle, sinceInflight>>

TimedSelectRetries ==
  /\ escalated
  /\ SelectRetries
  /\ scan'.release = Waited
  /\ UNCHANGED clocks

TimedSelectInflight == SelectInflight /\ UNCHANGED clocks

\* _release_dispatch, _block_retry_exhausted_submit_failure.
StampedByRecovery(t) ==
  IF t \in scan.release
  THEN [age[t] EXCEPT !.started = Never, !.event = Never]
  ELSE IF t \in scan.exhaust
  THEN [age[t] EXCEPT !.started = Never, !.event = Never,
                      !.block = IF Open(rows[t]) THEN 0 ELSE Never]
  ELSE age[t]

TimedWriteRecovery ==
  /\ WriteRecovery
  /\ age' = [t \in Tasks |-> StampedByRecovery(t)]
  /\ sinceInflight' = IF pass = "inflight" THEN 0 ELSE sinceInflight
  /\ UNCHANGED <<cycle, escalated>>

TimedMarkRunning ==
  /\ MarkRunning
  /\ age' = [age EXCEPT ![job.task].started = 0, ![job.task].event = 0]
  /\ UNCHANGED <<cycle, escalated, sinceInflight>>

\* Plausible fault: the failure leaves dispatch_started_at.
StampedByFailureKeepingStart(r, a) ==
  [a EXCEPT !.event = IF job.action = "block" THEN Never ELSE 0,
            !.block = IF job.action = "block" /\ Open(r) THEN 0 ELSE @]

\* What the second transaction of dispatch_task stamps.
StampedByFailure(r, a) ==
  [a EXCEPT !.started = Never,
            !.event   = IF job.action = "block" THEN Never ELSE 0,
            !.block   = IF job.action = "block" /\ Open(r) THEN 0 ELSE @]

TimedRecordFailure ==
  /\ RecordFailure
  /\ age' = [age EXCEPT ![job.task] = StampedByFailure(rows[job.task], @)]
  /\ UNCHANGED <<cycle, escalated, sinceInflight>>

TimedEndCycle ==
  /\ EndCycle
  /\ cycle' = 0
  /\ UNCHANGED <<age, escalated, sinceInflight>>

\* The steps of the scheduler and the dispatcher that write no stamp.
Unstamped ==
  /\ \/ SelectReady
     \/ \E t \in batch : SkipTask(t) \/ ReadTask(t)
     \/ BuildInvoke
     \/ SubmitReturns
     \/ \E action \in RecoveryActions : SubmitRaises(action)
     \/ CheckFailure
  /\ UNCHANGED clocks

TimedMaintenance ==
  \/ TimedStartCycle
  \/ TimedSelectTimeouts
  \/ EscalateBlocked
  \/ TimedSelectRetries
  \/ TimedSelectInflight
  \/ TimedWriteRecovery
  \/ TimedMarkRunning
  \/ TimedRecordFailure
  \/ TimedEndCycle
  \/ Unstamped

-------------------------------------------------------------------------------
(* The environment.                                                        *)

TimedReceives == RuntimeReceives /\ UNCHANGED clocks

\* The stamps are in the database and survive.
TimedCrash ==
  /\ CrashAndRestart
  /\ cycle' = 0
  /\ escalated' = FALSE
  /\ UNCHANGED <<age, sinceInflight>>

Older(a) == IF a \in 0..(Horizon - 1) THEN a + 1 ELSE a

OlderStamps(a) == [started |-> Older(a.started), entered |-> Older(a.entered),
                   event   |-> Older(a.event),   block   |-> Older(a.block)]

\* The clock of the database and of utc_now.
Tick ==
  /\ pc = "sleep" \/ cycle < MaxCycle
  /\ cycle' = IF pc = "sleep" THEN 0 ELSE cycle + 1
  /\ age' = [t \in Tasks |-> OlderStamps(age[t])]
  /\ sinceInflight' = Older(sinceInflight)
  /\ UNCHANGED <<vars, escalated>>

TimedNext == HttpThread \/ TimedMaintenance \/ TimedReceives \/ TimedCrash \/ Tick

TimedSpec == TimedInit /\ [][TimedNext]_timedVars
================================================================================
