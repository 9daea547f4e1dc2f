------------------------------ MODULE RunnerProofs ------------------------------
(***************************************************************************)
(* Theorems about ServiceRunner, for every retry delay, alert threshold    *)
(* and duration of a cycle: what readiness reports, when the gateway is    *)
(* asked again, and what a request finds while the service stops.          *)
(***************************************************************************)
EXTENDS ServiceRunner, TLAPS

\* The phases of start and stop: the first registration precedes readiness, the
\* loop is the last to be started, and the connection outlives the server.
Phases ==
  /\ main \in {"http", "hooks"} => hook = Unregistered("not_configured")
  /\ main \in {"http", "hooks", "ready"} => lifecycle = "starting"
  /\ main \in {"http", "hooks", "ready", "loop"} => loop = "none"
  /\ lifecycle = "ready" => main \in {"loop", "running"}
  /\ main \in {"ready", "loop", "running"} /\ HooksConfigured => hook.status # "not_configured"
  /\ main \in {"close", "ended"} => ~serving
  /\ ~connOpen => main = "ended"
  /\ requesting => serving

\* The state of the registration tells its history: a failed one counts the
\* failures in a row and dates from the last attempt.
HookHistory ==
  IF hook.status \in Failing
  THEN /\ HooksConfigured /\ config.publicUrl
       /\ hook.attempts = streak
       /\ hook.retryIn = RetrySec - sinceAttempt
  ELSE streak = 0

RInv == TypeOK /\ Phases /\ HookHistory

Hooks == [status : HookStatuses, attempts : 0..MaxAttempts,
          retryIn : (0 - MaxDelay)..RetrySec]

-------------------------------------------------------------------------------
(* The registration. *)

\* A registration leaves a well-formed state that tells its history.
LEMMA RegisterTells ==
  ASSUME TypeOK, HookHistory, NEW d \in 0..MaxDelay, Register(d), UNCHANGED config,
         hook.status \in Failing \/ hook = Unregistered("not_configured")
  PROVE  /\ hook' \in Hooks
         /\ streak' \in 0..MaxAttempts
         /\ sinceAttempt' \in 0..RetrySec + MaxDelay
         /\ HookHistory'
         /\ HooksConfigured => hook'.status # "not_configured"
<1>1. /\ RetrySec \in Nat /\ AlertAfter \in Nat /\ MaxAttempts \in Nat /\ MaxDelay \in Nat
      /\ MaxAttempts > AlertAfter
  BY RunnerAssumption
<1>2. /\ hook.status \in HookStatuses
      /\ hook.attempts \in 0..MaxAttempts
      /\ streak \in 0..MaxAttempts
      /\ sinceAttempt \in 0..RetrySec + MaxDelay
      /\ AtMost(hook.attempts + 1, MaxAttempts) \in 0..MaxAttempts
      /\ AtMost(streak + 1, MaxAttempts) \in 0..MaxAttempts
  BY <1>1 DEF TypeOK, AtMost
<1>3. CASE NothingToRegister
  BY <1>1, <1>2, <1>3
  DEF NothingToRegister, Unregistered, Hooks, HookStatuses, Failing, HookHistory, HooksConfigured
<1>4. CASE GatewayAccepts(d)
  BY <1>1, <1>2, <1>4
  DEF GatewayAccepts, Registered, Hooks, HookStatuses, Failing, HookHistory
<1>5. CASE GatewayRefuses(d)
  <2>1. hook.attempts = streak
    BY <1>2 DEF HookHistory, Unregistered, Failing
  <2>2. PICK status \in Failing : hook' = Failed(status, d)
    BY <1>5 DEF GatewayRefuses
  <2> QED
    BY <1>1, <1>2, <1>5, <2>1, <2>2
    DEF GatewayRefuses, Failed, Hooks, HookStatuses, Failing, HookHistory, HooksConfigured
<1> QED
  BY <1>3, <1>4, <1>5 DEF Register

-------------------------------------------------------------------------------
(* Each step preserves the invariant. *)

LEMMA UnregisteredIsHook == Unregistered("not_configured") \in Hooks
<1>1. 0 \in 0..MaxAttempts /\ 0 \in (0 - MaxDelay)..RetrySec
  BY RunnerAssumption
<1>2. "not_configured" \in HookStatuses
  BY DEF HookStatuses
<1> QED
  BY <1>1, <1>2 DEF Unregistered, Hooks

LEMMA InitRInv ==
  ASSUME Init
  PROVE  RInv
<1>1. TypeOK
  <2>1. /\ 0 \in 0..MaxAttempts
        /\ 0 \in 0..MaxDelay
        /\ 0 \in 0..RetrySec + MaxDelay
    BY RunnerAssumption
  <2> QED
    BY <2>1, UnregisteredIsHook DEF Init, TypeOK, Hooks
<1>2. Phases
  BY DEF Init, Phases
<1>3. HookHistory
  BY DEF Init, HookHistory, Unregistered, Failing
<1> QED
  BY <1>1, <1>2, <1>3 DEF RInv

LEMMA NextRInv ==
  ASSUME RInv, [Next]_vars
  PROVE  RInv'
<1> USE DEF RInv
<1>1. /\ RetrySec \in Nat /\ MaxAttempts \in Nat /\ MaxDelay \in Nat
      /\ hook \in Hooks
      /\ hook.status \in HookStatuses
      /\ hook.attempts \in 0..MaxAttempts
      /\ hook.retryIn \in (0 - MaxDelay)..RetrySec
  BY RunnerAssumption DEF TypeOK, Hooks
<1>2. CASE FirstRegistration
  <2>1. PICK d \in 0..MaxDelay : Register(d)
    BY <1>2 DEF FirstRegistration
  <2>2. hook = Unregistered("not_configured") /\ UNCHANGED config
    BY <1>2 DEF FirstRegistration, MainGoes, Phases
  <2>3. /\ hook' \in Hooks
        /\ streak' \in 0..MaxAttempts
        /\ sinceAttempt' \in 0..RetrySec + MaxDelay
        /\ HookHistory'
        /\ HooksConfigured => hook'.status # "not_configured"
    BY <2>1, <2>2, RegisterTells
  <2>4. TypeOK'
    BY <1>2, <2>3 DEF FirstRegistration, MainGoes, TypeOK, Hooks
  <2>5. Phases'
    BY <1>2, <2>3 DEF FirstRegistration, MainGoes, Phases, HooksConfigured, TypeOK
  <2> QED
    BY <2>3, <2>4, <2>5
<1>3. CASE RetryHooks
  <2>1. /\ Register(cycleAge) /\ hook.status \in Failing
        /\ UNCHANGED config /\ cycleAge \in 0..MaxDelay
    BY <1>3 DEF RetryHooks, RetryDue, TypeOK
  <2>2. /\ hook' \in Hooks
        /\ streak' \in 0..MaxAttempts
        /\ sinceAttempt' \in 0..RetrySec + MaxDelay
        /\ HookHistory'
        /\ HooksConfigured => hook'.status # "not_configured"
    BY <2>1, RegisterTells
  <2>3. TypeOK'
    BY <1>3, <2>2 DEF RetryHooks, LoopGoes, processVars, TypeOK, Hooks
  <2>4. Phases'
    BY <1>3, <2>2 DEF RetryHooks, LoopGoes, processVars, Phases, HooksConfigured, TypeOK
  <2> QED
    BY <2>2, <2>3, <2>4
<1>4. CASE \/ StartHttp \/ BecomeReady \/ StartLoop \/ JoinLoop \/ StopHttp
           \/ CloseConnection \/ Stop \/ RequestBegins \/ RequestEnds
  <2>1. TypeOK'
    <3>1. CASE StartLoop
      <4>1. loop' \in {"none", "waiting"}
        BY <3>1 DEF StartLoop
      <4> QED
        BY <3>1, <4>1 DEF StartLoop, MainGoes, hookVars, TypeOK
    <3>2. CASE StartHttp \/ BecomeReady \/ JoinLoop \/ StopHttp \/ CloseConnection
      BY <3>2
      DEF StartHttp, BecomeReady, JoinLoop, StopHttp, CloseConnection, MainGoes, hookVars,
          TypeOK
    <3>3. CASE Stop \/ RequestBegins \/ RequestEnds
      BY <3>3 DEF Stop, RequestBegins, RequestEnds, hookVars, TypeOK
    <3> QED
      BY <1>4, <3>1, <3>2, <3>3
  <2>2. Phases'
    <3>1. CASE StartHttp \/ BecomeReady \/ StartLoop \/ JoinLoop
      <4>1. CASE StartHttp
        BY <4>1 DEF StartHttp, MainGoes, hookVars, Phases, HooksConfigured
      <4>2. CASE BecomeReady
        BY <4>2 DEF BecomeReady, MainGoes, hookVars, Phases, HooksConfigured
      <4>3. CASE StartLoop
        BY <4>3 DEF StartLoop, MainGoes, hookVars, Phases, HooksConfigured
      <4>4. CASE JoinLoop
        BY <4>4 DEF JoinLoop, MainGoes, hookVars, Phases, HooksConfigured
      <4> QED
        BY <3>1, <4>1, <4>2, <4>3, <4>4
    <3>2. CASE StopHttp \/ CloseConnection
      BY <1>4, <3>2
      DEF StopHttp, CloseConnection, MainGoes, hookVars, TypeOK, Phases, HooksConfigured
    <3>3. CASE Stop
      BY <1>4, <3>3 DEF Stop, hookVars, Phases, HooksConfigured
    <3>4. CASE RequestBegins \/ RequestEnds
      BY <1>4, <3>4 DEF RequestBegins, RequestEnds, hookVars, TypeOK, Phases, HooksConfigured
    <3> QED
      BY <1>4, <3>1, <3>2, <3>3, <3>4
  <2>3. HookHistory'
    BY <1>4
    DEF StartHttp, BecomeReady, StartLoop, JoinLoop, StopHttp, CloseConnection, Stop,
        RequestBegins, RequestEnds, hookVars, HookHistory, HooksConfigured
  <2> QED
    BY <2>1, <2>2, <2>3
<1>5. CASE \/ StartCycle \/ LoopExits \/ CycleWorks \/ NoHookRetry \/ CycleEnds \/ CycleFails
  <2>1. TypeOK'
    BY <1>1, <1>5
    DEF StartCycle, LoopExits, CycleWorks, NoHookRetry, CycleEnds, CycleFails, LoopGoes,
        processVars, hookVars, TypeOK
  <2>2. Phases'
    BY <1>5
    DEF StartCycle, LoopExits, CycleWorks, NoHookRetry, CycleEnds, CycleFails, LoopGoes,
        processVars, hookVars, Phases, HooksConfigured
  <2>3. HookHistory'
    BY <1>5
    DEF StartCycle, LoopExits, CycleWorks, NoHookRetry, CycleEnds, CycleFails,
        hookVars, HookHistory, HooksConfigured
  <2> QED
    BY <2>1, <2>2, <2>3
<1>6. CASE Tick
  <2>1. /\ hook'.status = hook.status
        /\ hook'.attempts = hook.attempts
        /\ hook'.retryIn \in (0 - MaxDelay)..RetrySec
        /\ hook.status \notin Failing => hook' = hook
        /\ hook.status \in Failing =>
             hook'.retryIn = IF hook.retryIn > 0 - MaxDelay THEN hook.retryIn - 1 ELSE hook.retryIn
        /\ hook' \in Hooks
    BY <1>1, <1>6 DEF Tick, Hooks
  <2>2. cycleAge' \in 0..MaxDelay
    BY <1>1, <1>6 DEF Tick, TypeOK
  <2>3. sinceAttempt' = AtMost(sinceAttempt + 1, RetrySec + MaxDelay)
    BY <1>6 DEF Tick
  <2>4. TypeOK'
    BY <1>1, <1>6, <2>1, <2>2, <2>3 DEF Tick, processVars, TypeOK, Hooks, AtMost
  <2>5. Phases'
    BY <1>6, <2>1 DEF Tick, processVars, Phases, HooksConfigured, Unregistered, Failing
  <2>6. HookHistory'
    BY <1>1, <1>6, <2>1, <2>3
    DEF Tick, processVars, HookHistory, HooksConfigured, TypeOK, AtMost
  <2> QED
    BY <2>4, <2>5, <2>6
<1>7. CASE NewProcess
  <2>1. TypeOK'
    <3>1. /\ 0 \in 0..MaxAttempts
          /\ 0 \in 0..MaxDelay
          /\ 0 \in 0..RetrySec + MaxDelay
      BY <1>1
    <3> QED
      BY <1>7, <3>1, UnregisteredIsHook DEF NewProcess, TypeOK, Hooks
  <2>2. Phases'
    BY <1>7 DEF NewProcess, Phases
  <2>3. HookHistory'
    BY <1>7 DEF NewProcess, HookHistory, Unregistered, Failing
  <2> QED
    BY <2>1, <2>2, <2>3
<1>8. CASE UNCHANGED vars
  BY <1>8 DEF vars, TypeOK, Phases, HookHistory, HooksConfigured
<1> QED
  BY <1>2, <1>3, <1>4, <1>5, <1>6, <1>7, <1>8 DEF Next, Main, Loop

-------------------------------------------------------------------------------
(* What holds in every reachable state and of every step. *)

\* The inductive invariant of the service: types, phases, and a registration
\* state that tells its history.
THEOREM RunnerInvariance == Spec => []RInv
<1>1. Init => RInv
  BY InitRInv
<1>2. RInv /\ [Next]_vars => RInv'
  BY NextRInv
<1> QED
  BY <1>1, <1>2, PTL DEF Spec

\* Every counter and every distance of the registration stays within its
\* bounds, and each thread at a step of its code.
THEOREM RunnerTypeCorrect == Spec => []TypeOK
<1>1. RInv => TypeOK
  BY DEF RInv
<1> QED
  BY <1>1, RunnerInvariance, PTL

\* A service that is up reports ready if and only if fewer than AlertAfter
\* registrations in a row have failed, and only after the first one was tried.
THEOREM ReadinessIsTrue == Spec => []ReadinessTellsTheTruth
<1>1. RInv => ReadinessTellsTheTruth
  <2> SUFFICES ASSUME RInv, lifecycle = "ready"
               PROVE  /\ Readiness = "ready" <=> (AlertAfter = 0 \/ streak < AlertAfter)
                      /\ HooksConfigured => hook.status # "not_configured"
    BY DEF ReadinessTellsTheTruth
  <2>1. HookAlarm <=> AlertAfter > 0 /\ streak >= AlertAfter
    BY RunnerAssumption DEF RInv, TypeOK, HookHistory, HookAlarm
  <2>2. Readiness = "ready" <=> ~HookAlarm
    BY DEF Readiness
  <2>3. AlertAfter \in Nat /\ streak \in Nat
    BY RunnerAssumption DEF RInv, TypeOK
  <2> QED
    BY <2>1, <2>2, <2>3 DEF RInv, Phases
<1> QED
  BY <1>1, RunnerInvariance, PTL

\* stop() never takes the server or the connection away from a request.
THEOREM RequestsAlwaysFindConnection == Spec => []RequestsFindConnection
<1>1. RInv => RequestsFindConnection
  BY DEF RInv, TypeOK, Phases, RequestsFindConnection
<1> QED
  BY <1>1, RunnerInvariance, PTL

\* The gateway is not asked again within RetrySec of the last attempt, by the
\* clock of the cycle that asks, and never after it accepted.
THEOREM RegistrationBacksOff == Spec => RetriesBackOff
<1>1. ASSUME RInv, RetryHooks
      PROVE  hook.status # "registered" /\ sinceAttempt - cycleAge >= RetrySec
  <2>1. hook.status \in Failing /\ hook.retryIn + cycleAge <= 0
    BY <1>1 DEF RetryHooks, RetryDue
  <2>2. hook.retryIn = RetrySec - sinceAttempt
    BY <1>1, <2>1 DEF RInv, HookHistory
  <2>3. RetrySec \in Nat /\ sinceAttempt \in Int /\ cycleAge \in Int
    BY <1>1, RunnerAssumption DEF RInv, TypeOK
  <2> QED
    BY <2>1, <2>2, <2>3 DEF Failing
<1>2. RInv => [RetryHooks => hook.status # "registered" /\ sinceAttempt - cycleAge >= RetrySec]_vars
  BY <1>1
<1> QED
  BY <1>2, RunnerInvariance, PTL DEF RetriesBackOff
================================================================================
