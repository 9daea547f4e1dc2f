------------------------------ MODULE ProbeCache ------------------------------
(***************************************************************************)
(* The integration probe of service_runner.py: its cache and history, and  *)
(* the two threads that refresh them.  The maintenance thread refreshes    *)
(* them in every cycle with the time at which the cycle began; the HTTP    *)
(* thread does when a client asks and the cache has expired.  Both probe   *)
(* the upstreams outside the lock, and take it twice: to record the result *)
(* and to store it.                                                        *)
(*                                                                         *)
(* Time is relative: a variable that holds a time stamp in the code holds  *)
(* its distance from now, which Tick changes.                              *)
(***************************************************************************)
EXTENDS Naturals, Sequences

CONSTANTS
  ProbeTtl,     \* integration_probe_ttl_sec
  HistoryLimit, \* length of the probe history (20 in the code)
  MaxDelay      \* bound: longest duration of a maintenance cycle or a request

ASSUME ProbeAssumption ==
  /\ ProbeTtl \in Nat
  /\ HistoryLimit \in Nat \ {0}
  /\ MaxDelay \in Nat

VARIABLES
  gateway,  \* a gateway is configured
  runtime,  \* a runtime is configured
  cycleAge, \* time since the cycle_time of the current maintenance cycle
  probing,  \* per thread: the refresh it is in
  history,  \* _integration_probe_history
  cache     \* _integration_probe_cache and _integration_probe_cached_at

vars == <<gateway, runtime, cycleAge, probing, history, cache>>

Threads == {"loop", "http"}

ProbeFailures == {"degraded", "unreachable"}
ProbeStatuses == ProbeFailures \cup {"none", "not_configured", "reachable"}

AtMost(x, bound) == IF x < bound THEN x ELSE bound

\* age: the distance of probed_at from now; began (history): of the moment the
\* refresh really began; failures: consecutive_failure_count.  Ages are counted
\* up to Stale: the code only compares them with ProbeTtl.
NoProbe == [status |-> "none", age |-> 0, began |-> 0, failures |-> 0]

Stale == ProbeTtl + 1

Idle == [stage |-> "idle", probe |-> NoProbe]

Init ==
  /\ gateway \in BOOLEAN
  /\ runtime \in BOOLEAN
  /\ cycleAge = 0
  /\ probing = [t \in Threads |-> Idle]
  /\ history = << >>
  /\ cache = NoProbe

\* status of the payload, from what the configured components answer.
OverallStatuses ==
  CASE gateway /\ runtime -> {"reachable", "degraded", "unreachable"}
    [] gateway # runtime -> {"reachable", "unreachable"}
    [] OTHER -> {"not_configured"}

\* _probe_failure_stats: the failures at the end of the history.
TrailingFailures(h) ==
  CHOOSE n \in 0..Len(h) :
    /\ \A i \in Len(h) - n + 1 .. Len(h) : h[i] \in ProbeFailures
    /\ n < Len(h) => h[Len(h) - n] \notin ProbeFailures

\* Plausible fault: the history is not cut.
RecordedForever(status) == Append(history, status)

Recorded(status) ==
  LET longer == Append(history, status)
  IN  IF Len(longer) <= HistoryLimit THEN longer ELSE Tail(longer)

BeginProbe(t, age) ==
  /\ probing[t].stage = "idle"
  /\ probing' = [probing EXCEPT ![t] = [stage |-> "asking", probe |-> [NoProbe EXCEPT !.age = age]]]
  /\ UNCHANGED <<gateway, runtime, cycleAge, history, cache>>

-------------------------------------------------------------------------------
\* A maintenance cycle that has come to its probe, or one that has not: the
\* cycle_time is as old as the cycle.
LoopProbes == BeginProbe("loop", AtMost(cycleAge, Stale))

\* The cycle ends (or raises) and another one begins.
StartCycle ==
  /\ probing["loop"].stage = "idle"
  /\ cycleAge' = 0
  /\ UNCHANGED <<gateway, runtime, probing, history, cache>>

\* _integration_probe_cache_expired.
CacheExpired == cache.status = "none" \/ ProbeTtl = 0 \/ cache.age > ProbeTtl

\* _integration_probe_payload, for one of the GET requests that report it.
ServeCached ==
  /\ probing["http"].stage = "idle"
  /\ gateway \/ runtime
  /\ ~CacheExpired
  /\ UNCHANGED vars

ServeAfterProbe ==
  /\ gateway \/ runtime
  /\ CacheExpired
  /\ BeginProbe("http", 0)

\* Plausible fault: the counters are taken before the result is recorded.
CountThenRecord(t) ==
  /\ probing[t].stage = "asking"
  /\ \E status \in OverallStatuses :
       /\ history' = Recorded(status)
       /\ probing' = [probing EXCEPT ![t].stage = "counted", ![t].probe.status = status,
                                     ![t].probe.failures = TrailingFailures(history)]
  /\ UNCHANGED <<gateway, runtime, cycleAge, cache>>

\* The history is extended and copied under the lock, the counters come from
\* the copy.
RecordProbe(t) ==
  /\ probing[t].stage = "asking"
  /\ \E status \in OverallStatuses :
       /\ history' = Recorded(status)
       /\ probing' = [probing EXCEPT ![t].stage = "counted", ![t].probe.status = status,
                                     ![t].probe.failures = TrailingFailures(Recorded(status))]
  /\ UNCHANGED <<gateway, runtime, cycleAge, cache>>

\* Plausible fault: the result is stamped with the time at which it is stored.
CacheProbeStampedNow(t) ==
  /\ probing[t].stage = "counted"
  /\ cache' = [probing[t].probe EXCEPT !.age = 0]
  /\ probing' = [probing EXCEPT ![t] = Idle]
  /\ UNCHANGED <<gateway, runtime, cycleAge, history>>

\* The lock is taken again to store the result; the HTTP thread answers with it.
CacheProbe(t) ==
  /\ probing[t].stage = "counted"
  /\ cache' = probing[t].probe
  /\ probing' = [probing EXCEPT ![t] = Idle]
  /\ UNCHANGED <<gateway, runtime, cycleAge, history>>

Older(probe) ==
  [probe EXCEPT !.age = AtMost(@ + 1, Stale), !.began = AtMost(@ + 1, Stale)]

\* The delay of a cycle and of a request is bounded, not the code's.
Tick ==
  /\ cycleAge < MaxDelay
  /\ probing["http"].probe.began < MaxDelay
  /\ cycleAge' = cycleAge + 1
  /\ probing' = [t \in Threads |->
                   IF probing[t].stage = "idle" THEN Idle
                   ELSE [probing[t] EXCEPT !.probe = Older(@)]]
  /\ cache' = IF cache.status = "none" THEN cache ELSE Older(cache)
  /\ UNCHANGED <<gateway, runtime, history>>

\* Nothing of this is persisted.
NewProcess ==
  /\ cycleAge' = 0
  /\ probing' = [t \in Threads |-> Idle]
  /\ history' = << >>
  /\ cache' = NoProbe
  /\ UNCHANGED <<gateway, runtime>>

Next ==
  \/ StartCycle \/ LoopProbes
  \/ ServeCached \/ ServeAfterProbe
  \/ \E t \in Threads : RecordProbe(t) \/ CacheProbe(t)
  \/ Tick \/ NewProcess

Spec == Init /\ [][Next]_vars

-------------------------------------------------------------------------------
Probes == [status : ProbeStatuses, age : 0..Stale, began : 0..Stale, failures : 0..HistoryLimit]

TypeOK ==
  /\ gateway \in BOOLEAN
  /\ runtime \in BOOLEAN
  /\ cycleAge \in 0..MaxDelay
  /\ probing \in [Threads -> [stage : {"idle", "asking", "counted"}, probe : Probes]]
  /\ history \in Seq(ProbeStatuses)
  /\ Len(history) <= HistoryLimit
  /\ cache \in Probes

\* A probe that an HTTP client is shown without a new one began at most
\* ProbeTtl ago, whichever thread stored it last and however long that thread
\* took from reading the clock to storing the result (README,
\* "OPENCLAW_INTEGRATION_PROBE_TTL_SEC controls when a cached probe result
\* should be considered stale").
ServedProbeIsFresh ==
  cache.status # "none" /\ ~CacheExpired => cache.began <= ProbeTtl

\* The status and the failure counter of a cached probe belong together, though
\* the threads may record their results in one order and store them in the
\* other.
CountersMatchStatus ==
  cache.status # "none" => (cache.status \in ProbeFailures <=> cache.failures > 0)
===============================================================================
