------------------------------- MODULE CacheProofs -------------------------------
(***************************************************************************)
(* Theorems about ProbeCache, for every time to live, length of history    *)
(* and delay: what a client is served without a new probe.                 *)
(***************************************************************************)
EXTENDS ProbeCache, SequenceTheorems, WellFoundedInduction, TLAPS

\* A probe is at least as old as its time stamp says, and its failure counter
\* fits its status.
Honest(probe) ==
  /\ probe.began <= probe.age
  /\ probe.status \in ProbeFailures <=> probe.failures > 0

PInv ==
  /\ TypeOK
  /\ Honest(cache)
  /\ \A t \in Threads : Honest(probing[t].probe)

Refreshes == [stage : {"idle", "asking", "counted"}, probe : Probes]

-------------------------------------------------------------------------------
(* The history. *)

\* There are trailing failures to count in every history: the count is the
\* least distance from the end at which no failure is found.
LEMMA TrailingFailuresCount ==
  ASSUME NEW h \in Seq(ProbeStatuses)
  PROVE  LET n == TrailingFailures(h)
         IN  /\ n \in 0..Len(h)
             /\ \A i \in Len(h) - n + 1 .. Len(h) : h[i] \in ProbeFailures
             /\ n < Len(h) => h[Len(h) - n] \notin ProbeFailures
<1> DEFINE Ends == {n \in Nat : n <= Len(h) /\ (n < Len(h) => h[Len(h) - n] \notin ProbeFailures)}
<1>1. Len(h) \in Nat
  OBVIOUS
<1>2. Len(h) \in Ends
  BY <1>1
<1>3. PICK n \in Ends : \A m \in Ends : <<m, n>> \notin OpToRel(<, Nat)
  <2>1. Ends \subseteq Nat /\ Ends # {}
    BY <1>2
  <2> HIDE DEF Ends
  <2> QED
    BY <2>1, WFMin, NatLessThanWellFounded, Zenon
<1>4. \A m \in Nat : m < n => m \notin Ends
  <2>1. n \in Nat
    BY <1>3
  <2> HIDE DEF Ends
  <2> QED
    BY <1>3, <2>1, Zenon DEF OpToRel
<1>5. \A i \in Len(h) - n + 1 .. Len(h) : h[i] \in ProbeFailures
  <2> SUFFICES ASSUME NEW i \in Len(h) - n + 1 .. Len(h)
               PROVE  h[i] \in ProbeFailures
    OBVIOUS
  <2>1. n \in Nat /\ n <= Len(h)
    BY <1>3
  <2>2. /\ Len(h) - i \in Nat
        /\ Len(h) - i < n
        /\ Len(h) - (Len(h) - i) = i
    BY <1>1, <2>1
  <2>3. Len(h) - i \notin Ends
    BY <1>4, <2>2
  <2> QED
    BY <1>1, <2>1, <2>2, <2>3
<1> DEFINE Counts(k) ==
      /\ \A i \in Len(h) - k + 1 .. Len(h) : h[i] \in ProbeFailures
      /\ k < Len(h) => h[Len(h) - k] \notin ProbeFailures
<1>6. n \in 0..Len(h) /\ Counts(n)
  <2>1. /\ n \in Nat
        /\ n <= Len(h)
        /\ n < Len(h) => h[Len(h) - n] \notin ProbeFailures
    BY <1>3
  <2>2. n \in 0..Len(h)
    BY <1>1, <2>1
  <2> QED
    BY <1>5, <2>1, <2>2, Zenon
<1>7. TrailingFailures(h) = CHOOSE k \in 0..Len(h) : Counts(k)
  BY DEF TrailingFailures
<1> HIDE DEF Ends
<1>8. TrailingFailures(h) \in 0..Len(h) /\ Counts(TrailingFailures(h))
  <2> HIDE DEF Counts
  <2> QED
    BY <1>6, <1>7
<1> QED
  BY <1>8

\* A recorded history is not too long and ends with what was recorded.
LEMMA RecordedEnds ==
  ASSUME history \in Seq(ProbeStatuses), Len(history) <= HistoryLimit, NEW s \in ProbeStatuses
  PROVE  /\ Recorded(s) \in Seq(ProbeStatuses)
         /\ Len(Recorded(s)) \in 1..HistoryLimit
         /\ Recorded(s)[Len(Recorded(s))] = s
<1> DEFINE longer == Append(history, s)
<1>1. /\ longer \in Seq(ProbeStatuses)
      /\ longer # << >>
      /\ Len(longer) = Len(history) + 1
      /\ longer[Len(history) + 1] = s
  BY AppendProperties
<1>2. /\ HistoryLimit \in Nat \ {0}
      /\ Len(history) \in Nat
  BY ProbeAssumption
<1>3. /\ Tail(longer) \in Seq(ProbeStatuses)
      /\ Len(Tail(longer)) = Len(longer) - 1
      /\ \A i \in 1..Len(Tail(longer)) : Tail(longer)[i] = longer[i + 1]
  BY <1>1, HeadTailProperties
<1>4. Recorded(s) = IF Len(longer) <= HistoryLimit THEN longer ELSE Tail(longer)
  BY DEF Recorded
<1> HIDE DEF longer
<1>5. CASE Len(longer) <= HistoryLimit
  BY <1>1, <1>2, <1>4, <1>5
<1>6. CASE ~(Len(longer) <= HistoryLimit)
  BY <1>1, <1>2, <1>3, <1>4, <1>6
<1> QED
  BY <1>5, <1>6

\* The failures at the end of a recorded history fit the status recorded last.
LEMMA RecordedCounts ==
  ASSUME history \in Seq(ProbeStatuses), Len(history) <= HistoryLimit, NEW s \in ProbeStatuses
  PROVE  /\ TrailingFailures(Recorded(s)) \in 0..HistoryLimit
         /\ s \in ProbeFailures <=> TrailingFailures(Recorded(s)) > 0
<1> DEFINE h == Recorded(s)
           n == TrailingFailures(h)
<1>1. /\ h \in Seq(ProbeStatuses)
      /\ Len(h) \in 1..HistoryLimit
      /\ h[Len(h)] = s
  BY RecordedEnds
<1>2. /\ n \in 0..Len(h)
      /\ \A i \in Len(h) - n + 1 .. Len(h) : h[i] \in ProbeFailures
      /\ n < Len(h) => h[Len(h) - n] \notin ProbeFailures
  BY <1>1, TrailingFailuresCount
<1>3. HistoryLimit \in Nat
  BY ProbeAssumption
<1> HIDE DEF h, n
<1>4. CASE n = 0
  BY <1>1, <1>2, <1>3, <1>4 DEF n, h
<1>5. CASE n # 0
  <2>1. Len(h) \in Len(h) - n + 1 .. Len(h)
    BY <1>1, <1>2, <1>3, <1>5
  <2> QED
    BY <1>1, <1>2, <1>3, <1>5, <2>1 DEF n, h
<1> QED
  BY <1>4, <1>5
-------------------------------------------------------------------------------
(* The probes. *)

LEMMA NoProbeIsHonest ==
  NoProbe \in Probes /\ Honest(NoProbe) /\ Idle \in Refreshes
<1>1. 0 \in 0..Stale /\ 0 \in 0..HistoryLimit
  BY ProbeAssumption DEF Stale
<1>2. "none" \in ProbeStatuses /\ "none" \notin ProbeFailures
  BY DEF ProbeStatuses, ProbeFailures
<1>3. NoProbe \in Probes /\ Honest(NoProbe)
  BY <1>1, <1>2 DEF NoProbe, Probes, Honest
<1> QED
  BY <1>3 DEF Idle, Refreshes

\* A probe that has just begun, under the time stamp of its thread.
LEMMA BegunIsHonest ==
  ASSUME NEW age \in 0..Stale
  PROVE  [NoProbe EXCEPT !.age = age] \in Probes /\ Honest([NoProbe EXCEPT !.age = age])
<1>1. age \in Nat /\ 0 \in 0..Stale /\ 0 \in 0..HistoryLimit
  BY ProbeAssumption DEF Stale
<1>2. "none" \in ProbeStatuses /\ "none" \notin ProbeFailures
  BY DEF ProbeStatuses, ProbeFailures
<1>3. [NoProbe EXCEPT !.age = age] = [status |-> "none", age |-> age, began |-> 0, failures |-> 0]
  BY DEF NoProbe
<1> QED
  BY <1>1, <1>2, <1>3 DEF Probes, Honest

\* A probe grows old and stays honest.
LEMMA OlderIsHonest ==
  ASSUME NEW probe \in Probes, Honest(probe)
  PROVE  Older(probe) \in Probes /\ Honest(Older(probe))
<1>1. /\ Stale \in Nat
      /\ probe.age \in 0..Stale
      /\ probe.began \in 0..Stale
      /\ probe.status \in ProbeStatuses
      /\ probe.failures \in 0..HistoryLimit
  BY ProbeAssumption DEF Stale, Probes
<1>2. /\ Older(probe).age = AtMost(probe.age + 1, Stale)
      /\ Older(probe).began = AtMost(probe.began + 1, Stale)
      /\ Older(probe).status = probe.status
      /\ Older(probe).failures = probe.failures
  BY DEF Older, Probes
<1>3. Older(probe) \in Probes
  <2>1. AtMost(probe.age + 1, Stale) \in 0..Stale /\ AtMost(probe.began + 1, Stale) \in 0..Stale
    BY <1>1 DEF AtMost
  <2> QED
    BY <2>1 DEF Older, Probes
<1>4. Honest(Older(probe))
  BY <1>1, <1>2 DEF Honest, AtMost
<1> QED
  BY <1>3, <1>4

-------------------------------------------------------------------------------
(* Each step preserves the invariant. *)

LEMMA InitPInv ==
  ASSUME Init
  PROVE  PInv
<1>1. TypeOK
  <2>1. << >> \in Seq(ProbeStatuses) /\ Len(<< >>) = 0 /\ 0 <= HistoryLimit
    BY ProbeAssumption
  <2>2. 0 \in 0..MaxDelay
    BY ProbeAssumption
  <2>3. [t \in Threads |-> Idle] \in [Threads -> Refreshes]
    BY NoProbeIsHonest
  <2> QED
    BY <2>1, <2>2, <2>3, NoProbeIsHonest DEF Init, TypeOK, Refreshes
<1>2. Honest(cache) /\ \A t \in Threads : Honest(probing[t].probe)
  BY NoProbeIsHonest DEF Init, Idle
<1> QED
  BY <1>1, <1>2 DEF PInv

LEMMA BeginProbePInv ==
  ASSUME PInv, NEW t \in Threads, NEW age \in 0..Stale, BeginProbe(t, age)
  PROVE  PInv'
<1> DEFINE begun == [NoProbe EXCEPT !.age = age]
<1>1. begun \in Probes /\ Honest(begun)
  BY BegunIsHonest
<1> HIDE DEF begun
<1>2. probing' = [probing EXCEPT ![t] = [stage |-> "asking", probe |-> begun]]
  BY DEF BeginProbe, begun
<1>3. [stage |-> "asking", probe |-> begun] \in Refreshes
  BY <1>1 DEF Refreshes
<1>4. probing \in [Threads -> Refreshes]
  BY DEF PInv, TypeOK, Refreshes
<1>5. probing' \in [Threads -> Refreshes]
  BY <1>2, <1>3, <1>4
<1>6. \A u \in Threads : Honest(probing'[u].probe)
  BY <1>1, <1>2, <1>4 DEF PInv
<1> QED
  BY <1>5, <1>6 DEF BeginProbe, PInv, TypeOK, Refreshes

LEMMA RecordProbePInv ==
  ASSUME PInv, NEW t \in Threads, RecordProbe(t)
  PROVE  PInv'
<1>1. PICK status \in OverallStatuses :
        /\ history' = Recorded(status)
        /\ probing' = [probing EXCEPT ![t].stage = "counted", ![t].probe.status = status,
                                      ![t].probe.failures = TrailingFailures(Recorded(status))]
  BY DEF RecordProbe
<1>2. status \in ProbeStatuses
  BY DEF OverallStatuses, ProbeStatuses, ProbeFailures
<1> DEFINE n == TrailingFailures(Recorded(status))
<1>3. history \in Seq(ProbeStatuses) /\ Len(history) <= HistoryLimit
  BY DEF PInv, TypeOK
<1>4. n \in 0..HistoryLimit /\ (status \in ProbeFailures <=> n > 0)
  BY <1>2, <1>3, RecordedCounts
<1>5. probing \in [Threads -> Refreshes]
  BY DEF PInv, TypeOK, Refreshes
<1> DEFINE r1 == [probing[t] EXCEPT !.stage = "counted"]
           r2 == [r1 EXCEPT !.probe.status = status]
           r3 == [r2 EXCEPT !.probe.failures = n]
           counted == [probing[t].probe EXCEPT !.status = status, !.failures = n]
<1>6. probing' = [probing EXCEPT ![t] = r3]
  BY <1>1
<1> HIDE DEF n
<1>7. /\ probing' \in [Threads -> Refreshes]
      /\ probing'[t].probe.status = status
      /\ probing'[t].probe.failures = n
      /\ probing'[t].probe.age = probing[t].probe.age
      /\ probing'[t].probe.began = probing[t].probe.began
      /\ \A u \in Threads \ {t} : probing'[u] = probing[u]
  <2>1. /\ probing[t] = [stage |-> probing[t].stage, probe |-> probing[t].probe]
        /\ probing[t].probe \in Probes
    BY <1>5 DEF Refreshes
  <2>2. r1 = [stage |-> "counted", probe |-> probing[t].probe]
    BY <2>1
  <2> HIDE DEF r1
  <2>3. r2 = [stage |-> "counted", probe |-> [probing[t].probe EXCEPT !.status = status]]
    BY <2>2
  <2> HIDE DEF r2
  <2>4. r3 = [stage |-> "counted", probe |-> counted]
    BY <2>3
  <2> HIDE DEF r3
  <2>5. /\ counted \in Probes
        /\ counted.status = status
        /\ counted.failures = n
        /\ counted.age = probing[t].probe.age
        /\ counted.began = probing[t].probe.began
    BY <1>2, <1>4, <2>1 DEF Probes
  <2> HIDE DEF counted
  <2>6. r3 \in Refreshes /\ r3.probe = counted
    BY <2>4, <2>5 DEF Refreshes
  <2>7. probing' \in [Threads -> Refreshes]
    BY <1>5, <1>6, <2>6
  <2>8. probing'[t] = r3 /\ \A u \in Threads \ {t} : probing'[u] = probing[u]
    BY <1>5, <1>6
  <2> QED
    BY <2>5, <2>6, <2>7, <2>8
<1>8. Honest(probing'[t].probe)
  BY <1>4, <1>7 DEF Honest, PInv
<1>9. \A u \in Threads : Honest(probing'[u].probe)
  BY <1>7, <1>8 DEF PInv
<1>10. history' \in Seq(ProbeStatuses) /\ Len(history') <= HistoryLimit
  BY <1>1, <1>2, <1>3, RecordedEnds, ProbeAssumption
<1> QED
  BY <1>7, <1>9, <1>10 DEF RecordProbe, PInv, TypeOK, Refreshes

LEMMA CacheProbePInv ==
  ASSUME PInv, NEW t \in Threads, CacheProbe(t)
  PROVE  PInv'
<1>1. cache' = probing[t].probe /\ probing' = [probing EXCEPT ![t] = Idle]
  BY DEF CacheProbe
<1>2. probing \in [Threads -> Refreshes]
  BY DEF PInv, TypeOK, Refreshes
<1>3. cache' \in Probes /\ Honest(cache')
  BY <1>1, <1>2 DEF PInv, Refreshes
<1>4. probing' \in [Threads -> Refreshes]
  BY <1>1, <1>2, NoProbeIsHonest
<1>5. \A u \in Threads : Honest(probing'[u].probe)
  BY <1>1, <1>2, NoProbeIsHonest DEF PInv, Idle
<1> QED
  BY <1>3, <1>4, <1>5 DEF CacheProbe, PInv, TypeOK, Refreshes

LEMMA TickPInv ==
  ASSUME PInv, Tick
  PROVE  PInv'
<1>1. probing \in [Threads -> Refreshes]
  BY DEF PInv, TypeOK, Refreshes
<1>2. ASSUME NEW t \in Threads
      PROVE  probing'[t] \in Refreshes /\ Honest(probing'[t].probe)
  <2>1. CASE probing[t].stage = "idle"
    BY <2>1, NoProbeIsHonest DEF Tick, Idle
  <2>2. CASE probing[t].stage # "idle"
    <3>1. probing[t].probe \in Probes /\ Honest(probing[t].probe)
      BY <1>1 DEF PInv, Refreshes
    <3>2. Older(probing[t].probe) \in Probes /\ Honest(Older(probing[t].probe))
      BY <3>1, OlderIsHonest
    <3>3. probing'[t] = [probing[t] EXCEPT !.probe = Older(probing[t].probe)]
      BY <2>2 DEF Tick
    <3> QED
      BY <1>1, <3>2, <3>3 DEF Refreshes
  <2> QED
    BY <2>1, <2>2
<1>3. probing' \in [Threads -> Refreshes]
  BY <1>2 DEF Tick
<1>4. cache' \in Probes /\ Honest(cache')
  BY OlderIsHonest DEF Tick, PInv, TypeOK
<1>5. cycleAge' \in 0..MaxDelay
  BY ProbeAssumption DEF Tick, PInv, TypeOK
<1> QED
  BY <1>2, <1>3, <1>4, <1>5 DEF Tick, PInv, TypeOK, Refreshes

LEMMA NextPInv ==
  ASSUME PInv, [Next]_vars
  PROVE  PInv'
<1>1. 0 \in 0..Stale /\ 0 \in 0..MaxDelay
  BY ProbeAssumption DEF Stale
<1>2. CASE StartCycle
  BY <1>1, <1>2 DEF StartCycle, PInv, TypeOK
<1>3. CASE LoopProbes
  <2>1. AtMost(cycleAge, Stale) \in 0..Stale
    BY ProbeAssumption DEF PInv, TypeOK, AtMost, Stale
  <2> QED
    BY <1>3, <2>1, BeginProbePInv DEF LoopProbes, Threads
<1>4. CASE ServeCached \/ UNCHANGED vars
  BY <1>4 DEF ServeCached, vars, PInv, TypeOK
<1>5. CASE ServeAfterProbe
  BY <1>1, <1>5, BeginProbePInv DEF ServeAfterProbe, Threads
<1>6. CASE \E t \in Threads : RecordProbe(t) \/ CacheProbe(t)
  BY <1>6, RecordProbePInv, CacheProbePInv
<1>7. CASE Tick
  BY <1>7, TickPInv
<1>8. CASE NewProcess
  <2>1. << >> \in Seq(ProbeStatuses) /\ Len(<< >>) = 0 /\ 0 <= HistoryLimit
    BY ProbeAssumption
  <2>2. [t \in Threads |-> Idle] \in [Threads -> Refreshes]
    BY NoProbeIsHonest
  <2>3. TypeOK'
    BY <1>1, <1>8, <2>1, <2>2, NoProbeIsHonest DEF NewProcess, PInv, TypeOK, Refreshes
  <2>4. Honest(cache') /\ \A t \in Threads : Honest(probing'[t].probe)
    BY <1>8, NoProbeIsHonest DEF NewProcess, Idle
  <2> QED
    BY <2>3, <2>4 DEF PInv
<1> QED
  BY <1>2, <1>3, <1>4, <1>5, <1>6, <1>7, <1>8 DEF Next

-------------------------------------------------------------------------------
(* What holds in every reachable state. *)

\* The inductive invariant of the probe: types, and no probe that looks younger
\* than it is or whose counter does not fit its status.
THEOREM ProbeInvariance == Spec => []PInv
<1>1. Init => PInv
  BY InitPInv
<1>2. PInv /\ [Next]_vars => PInv'
  BY NextPInv
<1> QED
  BY <1>1, <1>2, PTL DEF Spec

\* The history never outgrows its limit, and the cache and both refreshes hold
\* well-formed probes.
THEOREM ProbeTypeCorrect == Spec => []TypeOK
<1>1. PInv => TypeOK
  BY DEF PInv
<1> QED
  BY <1>1, ProbeInvariance, PTL

\* A probe that an HTTP client is shown without a new one began at most
\* ProbeTtl ago.
THEOREM ServedProbesAreFresh == Spec => []ServedProbeIsFresh
<1>1. PInv => ServedProbeIsFresh
  BY ProbeAssumption DEF PInv, TypeOK, Probes, Honest, ServedProbeIsFresh, CacheExpired, Stale
<1> QED
  BY <1>1, ProbeInvariance, PTL

\* The status and the failure counter of a cached probe belong together,
\* whichever thread recorded its result first.
THEOREM CountersFitStatus == Spec => []CountersMatchStatus
<1>1. PInv => CountersMatchStatus
  BY DEF PInv, Honest, CountersMatchStatus
<1> QED
  BY <1>1, ProbeInvariance, PTL
================================================================================
