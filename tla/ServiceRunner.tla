---------------------------- MODULE ServiceRunner ----------------------------
(***************************************************************************)
(* The process around the task kernel (service_runner.py): start and stop, *)
(* the maintenance loop, the registration of the hook URLs with the        *)
(* gateway and its retries, and the readiness that reports them.           *)
(*                                                                         *)
(* What a maintenance cycle does to the tasks is module Sidecar's, the     *)
(* probe it makes is module ProbeCache's; here a cycle either works or     *)
(* raises.                                                                 *)
(*                                                                         *)
(* Time is relative: a variable that holds a time stamp in the code holds  *)
(* its distance from now, which Tick changes.                              *)
(***************************************************************************)
EXTENDS Integers

CONSTANTS
  RetrySec,     \* hook_registration_retry_sec
  AlertAfter,   \* hook_registration_failure_alert_after
  MaxAttempts,  \* attempt_count is counted up to here (bound)
  MaxDelay      \* bound: longest duration of a maintenance cycle

ASSUME RunnerAssumption ==
  /\ RetrySec \in Nat
  /\ AlertAfter \in Nat
  /\ MaxAttempts \in Nat /\ MaxAttempts > AlertAfter
  /\ MaxDelay \in Nat

VARIABLES
  config,    \* what the environment configures
  lifecycle, \* lifecycle_state
  main,      \* main thread: what it does next
  serving,   \* the HTTP server runs
  requesting, \* the HTTP thread is in a request
  connOpen,  \* the SQLite connection is open
  stopping,  \* _maintenance_stop
  loop,      \* maintenance thread: what it does next
  cycleAge,  \* time since the cycle_time of the current cycle
  hook,      \* _hook_registration_state
  (* History, read by the properties only. *)
  streak,    \* registration attempts since the last accepted one
  sinceAttempt \* time since the time stamp of the last attempt

vars == <<config, lifecycle, main, serving, requesting, connOpen, stopping,
          loop, cycleAge, hook, streak, sinceAttempt>>

\* gateway: gateway_base_url is set.  Hooks also need the token, and their
\* registration the public base URL.
Configs == [gateway : BOOLEAN, token : BOOLEAN, publicUrl : BOOLEAN,
            maintenance : BOOLEAN]

HooksConfigured == config.gateway /\ config.token

Failing == {"register_failed", "register_rejected"}
HookStatuses == Failing \cup {"not_configured", "missing_public_base_url", "registered"}

AtMost(x, bound) == IF x < bound THEN x ELSE bound

\* retryIn: the distance of next_retry_at from now, 0 where there is none.
Unregistered(status) == [status |-> status, attempts |-> 0, retryIn |-> 0]

Init ==
  /\ config \in Configs
  /\ lifecycle = "starting"
  /\ main = "http"
  /\ serving = FALSE
  /\ requesting = FALSE
  /\ connOpen = TRUE
  /\ stopping = FALSE
  /\ loop = "none"
  /\ cycleAge = 0
  /\ hook = Unregistered("not_configured")
  /\ streak = 0
  /\ sinceAttempt = 0

processVars == <<lifecycle, main, serving, requesting, connOpen, stopping>>
hookVars    == <<hook, streak, sinceAttempt>>

-------------------------------------------------------------------------------
(* Registration of the hook URLs: _ensure_gateway_hooks_registered, with a   *)
(* now that was read d ago.                                                  *)

\* Plausible fault: the failure path starts from the default state.
FailedUncounted(status, d) ==
  [status |-> status, attempts |-> 1, retryIn |-> RetrySec - d]

\* Plausible fault: next_retry_at is the time of the attempt.
FailedWithoutWindow(status, d) ==
  [status |-> status, attempts |-> AtMost(hook.attempts + 1, MaxAttempts), retryIn |-> 0 - d]

\* Plausible fault: the window grows with every attempt.
FailedWithGrowingWindow(status, d) ==
  [status |-> status, attempts |-> AtMost(hook.attempts + 1, MaxAttempts),
   retryIn |-> RetrySec * (hook.attempts + 1) - d]

Failed(status, d) ==
  [status |-> status, attempts |-> AtMost(hook.attempts + 1, MaxAttempts), retryIn |-> RetrySec - d]

Registered == [status |-> "registered", attempts |-> AtMost(hook.attempts + 1, MaxAttempts),
               retryIn |-> 0]

NothingToRegister ==
  /\ ~(HooksConfigured /\ config.publicUrl)
  /\ hook' = Unregistered(IF HooksConfigured THEN "missing_public_base_url" ELSE "not_configured")
  /\ UNCHANGED <<streak, sinceAttempt>>

GatewayAccepts(d) ==
  /\ HooksConfigured /\ config.publicUrl
  /\ hook' = Registered
  /\ streak' = 0
  /\ sinceAttempt' = d

\* register_hooks raises, or answers neither accepted nor ok.
GatewayRefuses(d) ==
  /\ HooksConfigured /\ config.publicUrl
  /\ \E status \in Failing : hook' = Failed(status, d)
  /\ streak' = AtMost(streak + 1, MaxAttempts)
  /\ sinceAttempt' = d

Register(d) == NothingToRegister \/ GatewayAccepts(d) \/ GatewayRefuses(d)

\* Plausible fault: only a rejected registration is tried again.
RetryDueIfRejected ==
  hook.status = "register_rejected" /\ hook.retryIn + cycleAge <= 0

\* _should_retry_hook_registration(now = cycle_time).
RetryDue == hook.status \in Failing /\ hook.retryIn + cycleAge <= 0

\* _integration_readiness_block_reason, and the same test in _integration_health_degraded.
HookAlarm == hook.status \in Failing /\ AlertAfter > 0 /\ hook.attempts >= AlertAfter

\* readiness_payload.
Readiness ==
  CASE HookAlarm -> "blocked"
    [] ~HookAlarm /\ lifecycle = "ready" -> "ready"
    [] ~HookAlarm /\ lifecycle = "starting" -> "warming"
    [] OTHER -> "blocked"

-------------------------------------------------------------------------------
(* Main thread: start, and stop from the signal handler. *)

MainGoes(from, to) == main = from /\ main' = to

StartHttp ==
  /\ MainGoes("http", "hooks")
  /\ serving' = TRUE
  /\ UNCHANGED <<config, lifecycle, requesting, connOpen, stopping, loop, cycleAge, hookVars>>

FirstRegistration ==
  /\ MainGoes("hooks", "ready")
  /\ \E d \in 0..MaxDelay : Register(d)
  /\ UNCHANGED <<config, lifecycle, serving, requesting, connOpen, stopping, loop, cycleAge>>

BecomeReady ==
  /\ MainGoes("ready", "loop")
  /\ lifecycle' = "ready"
  /\ UNCHANGED <<config, serving, requesting, connOpen, stopping, loop, cycleAge, hookVars>>

\* maintenance_interval_sec <= 0 means no loop.
StartLoop ==
  /\ MainGoes("loop", "running")
  /\ loop' = IF config.maintenance THEN "waiting" ELSE "none"
  /\ stopping' = FALSE
  /\ UNCHANGED <<config, lifecycle, serving, requesting, connOpen, cycleAge, hookVars>>

\* Plausible fault: the loop is not told.
StopWithoutEvent ==
  /\ main \in {"http", "hooks", "ready", "loop", "running"}
  /\ main' = "join"
  /\ lifecycle' = "stopping"
  /\ UNCHANGED <<config, serving, requesting, connOpen, stopping, loop, cycleAge, hookVars>>

Stop ==
  /\ main \in {"http", "hooks", "ready", "loop", "running"}
  /\ main' = "join"
  /\ lifecycle' = "stopping"
  /\ stopping' = TRUE
  /\ UNCHANGED <<config, serving, requesting, connOpen, loop, cycleAge, hookVars>>

\* join(timeout=2.0) returns when the thread has ended or the time is over.
JoinLoop ==
  /\ MainGoes("join", "http_stop")
  /\ UNCHANGED <<config, lifecycle, serving, requesting, connOpen, stopping, loop, cycleAge, hookVars>>

\* Plausible fault: the request in progress is not waited for.
StopHttpAtOnce ==
  /\ MainGoes("http_stop", "close")
  /\ serving' = FALSE
  /\ UNCHANGED <<config, lifecycle, requesting, connOpen, stopping, loop, cycleAge, hookVars>>

\* HTTPServer.shutdown() returns after the request the server is in, however
\* long that takes.
StopHttp ==
  /\ MainGoes("http_stop", "close")
  /\ ~requesting
  /\ serving' = FALSE
  /\ UNCHANGED <<config, lifecycle, requesting, connOpen, stopping, loop, cycleAge, hookVars>>

CloseConnection ==
  /\ MainGoes("close", "ended")
  /\ connOpen' = FALSE
  /\ UNCHANGED <<config, lifecycle, serving, requesting, stopping, loop, cycleAge, hookVars>>

-------------------------------------------------------------------------------
(* HTTP thread: one request at a time, and none once shutdown() is called. *)

RequestBegins ==
  /\ serving /\ ~requesting /\ main # "http_stop"
  /\ requesting' = TRUE
  /\ UNCHANGED <<config, lifecycle, main, serving, connOpen, stopping, loop, cycleAge, hookVars>>

RequestEnds ==
  /\ requesting
  /\ requesting' = FALSE
  /\ UNCHANGED <<config, lifecycle, main, serving, connOpen, stopping, loop, cycleAge, hookVars>>

-------------------------------------------------------------------------------
(* Maintenance thread. *)

LoopGoes(from, to) == loop = from /\ loop' = to

StartCycle ==
  /\ LoopGoes("waiting", "cycle")
  /\ ~stopping
  /\ cycleAge' = 0
  /\ UNCHANGED <<config, processVars, hookVars>>

LoopExits ==
  /\ LoopGoes("waiting", "exited")
  /\ stopping
  /\ UNCHANGED <<config, processVars, cycleAge, hookVars>>

\* anomalies, recovery.run_once and dispatch_ready_tasks.
CycleWorks ==
  /\ LoopGoes("cycle", "hooks")
  /\ connOpen
  /\ UNCHANGED <<config, processVars, cycleAge, hookVars>>

RetryHooks ==
  /\ LoopGoes("hooks", "summary")
  /\ RetryDue
  /\ Register(cycleAge)
  /\ UNCHANGED <<config, processVars, cycleAge>>

NoHookRetry ==
  /\ LoopGoes("hooks", "summary")
  /\ ~RetryDue
  /\ UNCHANGED <<config, processVars, cycleAge, hookVars>>

\* The probe, then the summary, which reads the anomalies again.
CycleEnds ==
  /\ LoopGoes("summary", "waiting")
  /\ connOpen
  /\ cycleAge' = 0
  /\ UNCHANGED <<config, processVars, hookVars>>

\* A statement raises (always, on a closed connection); _maintenance_loop logs
\* it and waits for the next cycle.
CycleFails ==
  /\ loop \in {"cycle", "summary"}
  /\ loop' = "waiting"
  /\ cycleAge' = 0
  /\ UNCHANGED <<config, processVars, hookVars>>

-------------------------------------------------------------------------------
InCycle == loop \in {"cycle", "hooks", "summary"}

\* The duration of a cycle is bounded, not the code's.
Tick ==
  /\ InCycle => cycleAge < MaxDelay
  /\ cycleAge' = IF InCycle THEN cycleAge + 1 ELSE 0
  /\ hook' = IF hook.status \in Failing /\ hook.retryIn > 0 - MaxDelay
             THEN [hook EXCEPT !.retryIn = @ - 1] ELSE hook
  /\ sinceAttempt' = AtMost(sinceAttempt + 1, RetrySec + MaxDelay)
  /\ UNCHANGED <<config, processVars, loop, streak>>

\* The process has ended, or is killed, and is started again: of the state
\* here nothing is persisted.
NewProcess ==
  /\ lifecycle' = "starting"
  /\ main' = "http"
  /\ serving' = FALSE
  /\ requesting' = FALSE
  /\ connOpen' = TRUE
  /\ stopping' = FALSE
  /\ loop' = "none"
  /\ cycleAge' = 0
  /\ hook' = Unregistered("not_configured")
  /\ streak' = 0
  /\ sinceAttempt' = 0
  /\ UNCHANGED config

Main ==
  \/ StartHttp \/ FirstRegistration \/ BecomeReady \/ StartLoop
  \/ JoinLoop \/ StopHttp \/ CloseConnection

Loop ==
  \/ StartCycle \/ LoopExits \/ CycleWorks \/ RetryHooks \/ NoHookRetry
  \/ CycleEnds \/ CycleFails

Next ==
  \/ Main \/ Stop \/ Loop \/ RequestBegins \/ RequestEnds
  \/ Tick \/ NewProcess

Spec == Init /\ [][Next]_vars

(***************************************************************************)
(* Threads run and time passes.  A cycle that is tried again and again     *)
(* works at some time, and a gateway that is asked again and again accepts *)
(* at some time: nothing in the code can make up for an upstream that      *)
(* never does.  That a request ends is not assumed: the HTTP server reads  *)
(* its body from a socket without a timeout, for as long as the client     *)
(* keeps it waiting.                                                       *)
(***************************************************************************)
Fairness ==
  /\ WF_vars(Main)
  /\ WF_vars(Loop)
  /\ SF_vars(Tick)
  /\ SF_vars(CycleWorks)
  /\ SF_vars(loop = "hooks" /\ RetryDue /\ GatewayAccepts(cycleAge) /\ RetryHooks)

FairSpec == Spec /\ Fairness

-------------------------------------------------------------------------------
TypeOK ==
  /\ config \in Configs
  /\ lifecycle \in {"starting", "ready", "stopping"}
  /\ main \in {"http", "hooks", "ready", "loop", "running",
               "join", "http_stop", "close", "ended"}
  /\ serving \in BOOLEAN
  /\ requesting \in BOOLEAN
  /\ connOpen \in BOOLEAN
  /\ stopping \in BOOLEAN
  /\ loop \in {"none", "waiting", "cycle", "hooks", "summary", "exited"}
  /\ cycleAge \in 0..MaxDelay
  /\ hook \in [status : HookStatuses, attempts : 0..MaxAttempts,
               retryIn : (0 - MaxDelay)..RetrySec]
  /\ streak \in 0..MaxAttempts
  /\ sinceAttempt \in 0..RetrySec + MaxDelay

\* A service that is up reports ready if and only if fewer than AlertAfter
\* registrations in a row have failed, and only after the first one was tried
\* (readiness_payload; docs/architecture.md, "readiness blocking when repeated
\* upstream registration failures exceed the configured threshold").
ReadinessTellsTheTruth ==
  lifecycle = "ready" =>
    /\ Readiness = "ready" <=> (AlertAfter = 0 \/ streak < AlertAfter)
    /\ HooksConfigured => hook.status # "not_configured"

\* The gateway is not asked again within RetrySec of the time stamp of the last
\* attempt, by the clock of the cycle that asks, and never after it accepted
\* (README, "rate-limited by OPENCLAW_HOOK_REGISTRATION_RETRY_SEC").
RetriesBackOff ==
  [][RetryHooks => hook.status # "registered" /\ sinceAttempt - cycleAge >= RetrySec]_vars

\* stop() waits for the request in progress before it closes the connection the
\* request reads from.
RequestsFindConnection == requesting => connOpen /\ serving

\* A failed registration is repaired without an operator, in spite of cycles
\* that raise before they reach it, unless the service stops or has no loop.
RegistrationRecovers ==
  (hook.status \in Failing /\ config.maintenance)
    ~> (hook.status = "registered" \/ lifecycle # "ready")

\* The maintenance thread ends after stop() whatever the other threads do, also
\* when it outlives the join; and stop() itself comes to its end unless the one
\* request the server is in never does, for which it has no timeout.
StopCompletes ==
  /\ (lifecycle = "stopping") ~> (lifecycle = "starting" \/ loop \in {"none", "exited"})
  /\ (lifecycle = "stopping") ~> (lifecycle = "starting" \/ main = "ended" \/ []requesting)
===============================================================================
