------------------------------ MODULE BatchProofs ------------------------------
(***************************************************************************)
(* Theorems about Batches, for any number of tasks and any limit: a batch  *)
(* holds no more tasks than the limit allows, and what a task waits for.   *)
(***************************************************************************)
EXTENDS Batches, FiniteSetTheorems, WellFoundedInduction, TLAPS

\* A set of tasks that is not empty has a last one: its least upper bound.
LEMMA LastOf ==
  ASSUME NEW S \in SUBSET Tasks, S # {}
  PROVE  \E t \in S : \A u \in S : u <= t
<1> DEFINE Bounds == {n \in Nat : \A u \in S : u <= n}
<1>1. LastTask \in Nat /\ S \subseteq 1..LastTask
  BY BatchAssumption DEF Tasks
<1>2. LastTask \in Bounds
  BY <1>1
<1>3. PICK n \in Bounds : \A m \in Bounds : <<m, n>> \notin OpToRel(<, Nat)
  <2>1. Bounds \subseteq Nat /\ Bounds # {}
    BY <1>2
  <2> HIDE DEF Bounds
  <2> QED
    BY <2>1, WFMin, NatLessThanWellFounded, Zenon
<1>4. n \in Nat /\ \A u \in S : u <= n
  BY <1>3
<1>5. n \in S
  <2> SUFFICES ASSUME n \notin S
               PROVE  FALSE
    OBVIOUS
  <2>1. PICK u \in S : TRUE
    OBVIOUS
  <2>2. n - 1 \in Nat /\ n - 1 < n
    BY <1>1, <1>4, <2>1
  <2>3. n - 1 \in Bounds
    BY <1>1, <1>4, <2>2
  <2>4. <<n - 1, n>> \in OpToRel(<, Nat)
    BY <1>4, <2>2 DEF OpToRel
  <2> QED
    BY <1>3, <2>3, <2>4
<1> QED
  BY <1>4, <1>5

LEMMA TasksAreFinite ==
  ASSUME NEW S \in SUBSET Tasks
  PROVE  IsFiniteSet(S) /\ Cardinality(S) \in Nat
<1>1. IsFiniteSet(Tasks)
  BY BatchAssumption, FS_Interval DEF Tasks
<1> QED
  BY <1>1, FS_Subset, FS_CardinalityType

\* The SELECT returns no more rows than its limit: before the last one it
\* returns there are fewer (dispatch_ready_tasks).
LEMMA OldestAreFew == Oldest \in SUBSET Tasks /\ Cardinality(Oldest) <= BatchLimit
<1>1. Ready \in SUBSET Tasks /\ Oldest \in SUBSET Ready
  BY DEF Ready, Oldest
<1>2. BatchLimit \in Nat /\ BatchLimit > 0
  BY BatchAssumption
<1>3. CASE Oldest = {}
  BY <1>2, <1>3, FS_EmptySet
<1>4. CASE Oldest # {}
  <2>1. PICK t \in Oldest : \A u \in Oldest : u <= t
    BY <1>1, <1>4, LastOf
  <2> DEFINE Before == {u \in Ready : u < t}
  <2>2. IsFiniteSet(Before) /\ Cardinality(Before) \in Nat /\ Cardinality(Before) < BatchLimit
    BY <1>1, <2>1, TasksAreFinite DEF Oldest
  <2>3. Oldest \subseteq Before \cup {t}
    <3> SUFFICES ASSUME NEW u \in Oldest, u # t
                 PROVE  u \in Before
      OBVIOUS
    <3>1. u <= t /\ u \in Nat /\ t \in Nat
      BY <1>1, <2>1, BatchAssumption DEF Tasks
    <3> QED
      BY <1>1, <3>1
  <2> HIDE DEF Before
  <2>4. /\ IsFiniteSet(Before \cup {t})
        /\ Cardinality(Before \cup {t}) <= Cardinality(Before) + 1
    <3>1. IsFiniteSet(Before \cup {t})
      BY <2>2, FS_AddElement
    <3>2. \/ Cardinality(Before \cup {t}) = Cardinality(Before)
          \/ Cardinality(Before \cup {t}) = Cardinality(Before) + 1
      BY <2>2, FS_AddElement
    <3> QED
      BY <2>2, <3>1, <3>2
  <2>5. Cardinality(Oldest) <= Cardinality(Before \cup {t})
    BY <2>3, <2>4, FS_Subset
  <2>6. Cardinality(Oldest) \in Nat /\ Cardinality(Before \cup {t}) \in Nat
    BY <1>1, <2>4, TasksAreFinite, FS_CardinalityType
  <2> QED
    BY <1>1, <1>2, <2>2, <2>4, <2>5, <2>6
<1> QED
  BY <1>3, <1>4

LEMMA ShorterBatch ==
  ASSUME TypeOK, NEW t
  PROVE  /\ batch \ {t} \in SUBSET Tasks
         /\ Cardinality(batch \ {t}) <= BatchLimit
<1>1. batch \in SUBSET Tasks /\ Cardinality(batch) <= BatchLimit
  BY DEF TypeOK
<1>2. IsFiniteSet(batch) /\ Cardinality(batch) \in Nat
  BY <1>1, TasksAreFinite
<1>3. Cardinality(batch \ {t}) <= Cardinality(batch) /\ Cardinality(batch \ {t}) \in Nat
  BY <1>1, <1>2, FS_Subset, TasksAreFinite
<1> QED
  BY <1>1, <1>2, <1>3, BatchAssumption

LEMMA ReleasedStatus ==
  ASSUME TypeOK, NEW released
  PROVE  BackToIdle(released) \in [Tasks -> Statuses]
BY DEF TypeOK, BackToIdle, Statuses

-------------------------------------------------------------------------------
LEMMA TypeStep == TypeOK /\ [Next]_vars => TypeOK'
<1> SUFFICES ASSUME TypeOK, [Next]_vars
             PROVE  TypeOK'
  OBVIOUS
<1> USE DEF TypeOK
<1>1. CASE TimeoutPass
  BY <1>1, ReleasedStatus DEF TimeoutPass, Goes
<1>2. CASE RetryPass
  BY <1>2, ReleasedStatus DEF RetryPass, Goes, Places
<1>3. CASE InflightPass
  BY <1>3, ReleasedStatus DEF InflightPass, Goes
<1>4. CASE SelectReady
  BY <1>4, OldestAreFew DEF SelectReady, Goes
<1>5. ASSUME NEW t \in Tasks, Dispatch(t)
      PROVE  TypeOK'
  <2>1. /\ batch' \in SUBSET Tasks
        /\ Cardinality(batch') <= BatchLimit
    BY <1>5, ShorterBatch DEF Dispatch
  <2>2. attempts' \in [Tasks -> 0..SubmitMaxAttempts]
    BY <1>5, BatchAssumption DEF Dispatch, AtMost
  <2>3. place' \in [Tasks -> Places] /\ status' \in [Tasks -> Statuses]
    BY <1>5 DEF Dispatch, Places, Statuses
  <2> QED
    BY <1>5, <2>1, <2>2, <2>3 DEF Dispatch
<1>6. ASSUME NEW t \in Tasks, SkipTask(t)
      PROVE  TypeOK'
  BY <1>6, ShorterBatch DEF SkipTask
<1>7. CASE EndCycle
  BY <1>7 DEF EndCycle, Goes
<1>8. ASSUME NEW t \in Tasks, ApplyResult(t)
      PROVE  TypeOK'
  BY <1>8 DEF ApplyResult, Statuses
<1>9. ASSUME NEW t \in Tasks, ClientRequest(t)
      PROVE  TypeOK'
  BY <1>9 DEF ClientRequest
<1>10. CASE UNCHANGED vars
  BY <1>10 DEF vars
<1> QED
  BY <1>1, <1>2, <1>3, <1>4, <1>5, <1>6, <1>7, <1>8, <1>9, <1>10
     DEF Next, Maintenance, Recovery, Scheduler

\* Every variable keeps its type, and a batch never exceeds the limit of the
\* SELECT in dispatch_ready_tasks.
THEOREM TypeCorrect == Spec => []TypeOK
<1>1. Init => TypeOK
  BY BatchAssumption, FS_EmptySet DEF Init, TypeOK, Places, Statuses
<1> QED
  BY <1>1, TypeStep, PTL DEF Spec
-------------------------------------------------------------------------------
(* Who waits. *)

\* A batch, while it is worked off, has every task that is to be served.
Served(t) == pc = "dispatch" => t \in batch

\* A task that stays ready stays in its batch: it leaves it only when it is
\* dispatched, blocked or finished.
LEMMA ReadyStaysServed ==
  ASSUME TypeOK, [Next]_vars, NEW t \in Tasks, t \in Ready, t \in Ready', Served(t),
         pc = "schedule" => Cardinality({u \in Ready : u < t}) < BatchLimit
  PROVE  Served(t)'
<1> USE DEF Served
<1>1. CASE TimeoutPass \/ RetryPass \/ InflightPass
  BY <1>1 DEF TimeoutPass, RetryPass, InflightPass, Goes
<1>2. CASE SelectReady
  BY <1>2 DEF SelectReady, Goes, Oldest
<1>3. ASSUME NEW u \in batch, Dispatch(u)
      PROVE  Served(t)'
  <2>1. u # t
    BY <1>3 DEF Dispatch, Ready, TypeOK
  <2> QED
    BY <1>3, <2>1 DEF Dispatch
<1>4. ASSUME NEW u \in batch, SkipTask(u)
      PROVE  Served(t)'
  BY <1>4 DEF SkipTask, Ready
<1>5. CASE EndCycle
  BY <1>5 DEF EndCycle, Goes
<1>6. ASSUME NEW u \in Tasks, ApplyResult(u) \/ ClientRequest(u)
      PROVE  Served(t)'
  BY <1>6 DEF ApplyResult, ClientRequest
<1>7. CASE UNCHANGED vars
  BY <1>7 DEF vars
<1> QED
  BY <1>1, <1>2, <1>3, <1>4, <1>5, <1>6, <1>7 DEF Next, Maintenance, Recovery, Scheduler

\* As long as cycles are completed, a ready task waits for ever only if again
\* and again, when a batch is selected, at least BatchLimit older tasks are
\* ready too: nothing else that the two threads do keeps it waiting.
THEOREM WaitingNeedsACrowd ==
  ASSUME NEW t \in Tasks
  PROVE  /\ Spec
         /\ []<><<EndCycle>>_vars
         /\ <>[](pc = "schedule" => Cardinality({u \in Ready : u < t}) < BatchLimit)
         => (t \in Ready ~> t \notin Ready)
<1> DEFINE Room == pc = "schedule" => Cardinality({u \in Ready : u < t}) < BatchLimit
           In   == t \in Ready
<1>1. TypeOK /\ [Next]_vars /\ Room /\ Served(t) /\ In => Served(t)' \/ ~In'
  BY ReadyStaysServed
<1>2. <<EndCycle>>_vars => Served(t)'
  BY DEF EndCycle, Goes, Served
<1>3. Served(t) => ~<<EndCycle>>_vars
  BY DEF EndCycle, Goes, Served
<1>4. Spec /\ []<><<EndCycle>>_vars /\ <>[]Room => (In ~> ~In)
  <2> HIDE DEF Room, In
  <2> QED
    BY <1>1, <1>2, <1>3, TypeCorrect, PTL DEF Spec
<1>5. (t \notin Ready) <=> ~In
  OBVIOUS
<1> QED
  BY <1>4, <1>5, PTL
===============================================================================
