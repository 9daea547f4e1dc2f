------------------------------- MODULE TimerProps -------------------------------
(***************************************************************************)
(* What module Timers must satisfy, and what a document says of it that    *)
(* the code does not do.                                                   *)
(***************************************************************************)
EXTENDS Timers

\* Only a state with a timeout has its entry event kept, and has it unless the
\* task may have been created in it.
EntryStamped(s, entered) ==
  /\ entered # Never => s \in Timed
  /\ s \in Timed => entered # Never \/ s \in SeedStates

\* Stamps are ages or NULL; dispatch_started_at is set exactly while a
\* dispatch is marked running, and the entry event kept is that of the state.
TimedTypeOK ==
  /\ age           \in [Tasks -> Stamps]
  /\ cycle         \in 0..MaxCycle
  /\ escalated     \in BOOLEAN
  /\ sinceInflight \in 0..Horizon
  /\ \A t \in Tasks : /\ age[t].started # Never <=> Running(rows[t])
                      /\ EntryStamped(rows[t].state, age[t].entered)

-------------------------------------------------------------------------------
(* Safety. *)

\* No dispatch in progress is older than the last in-flight pass: the pass
\* ends every dispatch it finds, and the dispatcher starts the clock anew.
RunningIsYoung ==
  \A t \in Tasks : Running(rows[t]) /\ Open(rows[t]) => age[t].started <= sinceInflight

\* Agent health is degraded only when the maintenance loop itself has not come
\* round for that long (agent_health.py): an agent that has taken an invocation and
\* does not answer never makes it so, one that keeps the dispatcher waiting in
\* submit_invoke does so by stalling the loop.
DegradedOnlyWhenStalled == StaleDispatches # {} => sinceInflight > StaleAfter

\* A task is given up for a timeout only if it has really been in its state
\* for longer, although the clock recovery looks at is the dispatch's, which
\* may have been started in an earlier state; or else the maintenance loop has
\* not come round for that long.
TimeoutsAreDeserved ==
  [][pc = "select" /\ pass \in Timed /\ pc' = "write" =>
       \A t \in scan'.release :
         \/ Elapsed(age[t].entered) > TimeoutOf(pass)
         \/ Elapsed(sinceInflight) > TimeoutOf(pass)]_timedVars

\* A blocked task past its alert is not handed back to the dispatcher by the
\* retry pass: escalation restamps last_event_at, from which the retry delay
\* is measured, in every cycle, so the task waits for its operator.
EscalatedIsNotRetried ==
  [][pc = "select" /\ pass = "retry" /\ pc' = "write" =>
       Alerted \cap scan'.release = {}]_timedVars

-------------------------------------------------------------------------------
(* Liveness.  The maintenance loop is a daemon thread that swallows every  *)
(* exception of a cycle, and submit_invoke returns or raises after its     *)
(* timeout, so the thread never stops for good while the service is up;    *)
(* and time passes.  Nothing is assumed of callers, of the runtime or of   *)
(* the operator, and nothing of the delays: that they run out is derived.  *)

TimedFairness == WF_timedVars(TimedMaintenance) /\ WF_timedVars(Tick)

TimedFairSpec == TimedSpec /\ TimedFairness

-------------------------------------------------------------------------------
\* "Maximum total dispatch attempts before recovery blocks the task for manual
\* investigation instead of retrying forever" (README.md:245-246): recovery hands a
\* retryable failed submission back only while there is budget left.  The
\* passes over timeouts come first and release the row whatever its dispatch
\* status is, so the retry pass does not see that its budget is spent.
BudgetEndsRetries ==
  [][WriteRecovery =>
       \A t \in RetryCandidates :
         BudgetSpent(rows[t]) /\ rows'[t].dispatch_status = "idle"
           => rows'[t].blocked]_timedVars
================================================================================
