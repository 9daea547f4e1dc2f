---------------------------- MODULE ConnectionProofs ----------------------------
(***************************************************************************)
(* Theorems about SharedConnection, for every bound: what stays true of    *)
(* the database although two threads share its only connection.            *)
(***************************************************************************)
EXTENDS SharedConnection, TLAPS

\* The fields of a database, for the provers.
LEMMA Fields ==
  ASSUME NEW db \in Databases
  PROVE  /\ db.version \in Nat
         /\ db.attempts \in Nat
         /\ db.running \in BOOLEAN
         /\ db.invoke \in Invokes
         /\ db.dispatches \in SUBSET Invokes
         /\ db.results \in SUBSET Invokes
         /\ db.effects \in SUBSET Invokes
  BY DEF Databases

\* What the statements may write into it.
LEMMA Updates ==
  ASSUME NEW db \in Databases, NEW b \in BOOLEAN, NEW n \in Nat, NEW inv \in Invokes,
         NEW S \in SUBSET Invokes
  PROVE  /\ [db EXCEPT !.running = b] \in Databases
         /\ [db EXCEPT !.running = b, !.invoke = inv] \in Databases
         /\ [db EXCEPT !.running = b, !.attempts = n, !.invoke = inv] \in Databases
         /\ [db EXCEPT !.dispatches = S] \in Databases
         /\ [db EXCEPT !.results = S] \in Databases
         /\ [db EXCEPT !.version = n, !.effects = S] \in Databases
<1>1. [db EXCEPT !.running = b] \in Databases
  BY DEF Databases
<1>2. [db EXCEPT !.running = b, !.invoke = inv] \in Databases
  BY DEF Databases
<1>3. [db EXCEPT !.running = b, !.attempts = n, !.invoke = inv] \in Databases
  BY DEF Databases
<1>4. [db EXCEPT !.dispatches = S] \in Databases
  BY DEF Databases
<1>5. [db EXCEPT !.results = S] \in Databases
  BY DEF Databases
<1>6. [db EXCEPT !.version = n, !.effects = S] \in Databases
  BY DEF Databases
<1> QED
  BY <1>1, <1>2, <1>3, <1>4, <1>5, <1>6

\* What each statement does to the data that the connection shows.
Statement ==
  \/ work' = work
  \/ work' = disk
  \/ work' = [work EXCEPT !.running = FALSE]
  \/ work' = [work EXCEPT !.running = TRUE, !.attempts = job.attempt, !.invoke = job]
  \/ work' = [work EXCEPT !.running = FALSE, !.attempts = job.attempt, !.invoke = job]
  \/ work' = [work EXCEPT !.dispatches = @ \cup {job}]
  \/ work' = [work EXCEPT !.results = @ \cup {request}]
  \/ work' = [work EXCEPT !.version = @ + 1, !.effects = @ \cup {request}]
  \/ work' = [work EXCEPT !.running = FALSE, !.invoke = request]

\* Only a commit changes the disk, and it writes what the connection shows.
LEMMA NextStatement ==
  ASSUME [Next]_vars
  PROVE  Statement /\ (disk' = disk \/ disk' = work)
  BY DEF Next, Loop, Http, Crash, vars, Statement, Commit, Rollback, ReleaseInflight,
         CommitRelease, ReadForDispatch, NothingReady, MarkRunning, LogDispatch,
         DispatchRefused, RollbackDispatch, CommitDispatch, Submit, SubmitRaises,
         CheckFailure, RecordFailure, CommitFailure, TakeResult, ReplayResult, LogResult,
         ApplyEffect, RefuseResult, RollbackResult, CloseDispatch, CommitResult

-------------------------------------------------------------------------------
(* Types. *)

LEMMA InitTypeOK ==
  ASSUME Init
  PROVE  TypeOK
  BY DEF Init, TypeOK, EmptyDatabase, Databases, NoInvoke, Invokes, LoopPlaces

LEMMA NextTypeOK ==
  ASSUME TypeOK, [Next]_vars
  PROVE  TypeOK'
<1>1. /\ job \in Invokes
      /\ request \in Invokes
      /\ job.attempt \in Nat
      /\ work \in Databases
      /\ disk \in Databases
      /\ work.version \in Nat
      /\ work.version + 1 \in Nat
      /\ work.attempts + 1 \in Nat
  BY Fields DEF TypeOK, Invokes
<1>2. work' \in Databases /\ disk' \in Databases
  <2>1. /\ TRUE \in BOOLEAN /\ FALSE \in BOOLEAN
        /\ work.dispatches \cup {job} \in SUBSET Invokes
        /\ work.results \cup {request} \in SUBSET Invokes
        /\ work.effects \cup {request} \in SUBSET Invokes
    BY <1>1, Fields
  <2>2. work' \in Databases
    <3>1. CASE \/ work' = work \/ work' = disk
      BY <1>1, <3>1
    <3>2. CASE \/ work' = [work EXCEPT !.running = FALSE]
               \/ work' = [work EXCEPT !.running = FALSE, !.invoke = request]
      BY <1>1, <2>1, <3>2, Updates, Zenon
    <3>3. CASE work' = [work EXCEPT !.running = TRUE, !.attempts = job.attempt, !.invoke = job]
      BY <1>1, <2>1, <3>3, Updates, Zenon
    <3>6. CASE work' = [work EXCEPT !.running = FALSE, !.attempts = job.attempt, !.invoke = job]
      BY <1>1, <2>1, <3>6, Updates, Zenon
    <3>4. CASE \/ work' = [work EXCEPT !.dispatches = @ \cup {job}]
               \/ work' = [work EXCEPT !.results = @ \cup {request}]
      BY <1>1, <2>1, <3>4, Updates, Zenon
    <3>5. CASE work' = [work EXCEPT !.version = @ + 1, !.effects = @ \cup {request}]
      BY <1>1, <2>1, <3>5, Updates, Zenon
    <3> QED
      BY <3>1, <3>2, <3>3, <3>4, <3>5, <3>6, NextStatement DEF Statement
  <2> QED
    BY <1>1, <2>2, NextStatement
<1>3. mixed' \in BOOLEAN /\ refused' \in BOOLEAN
  <2>1. mixed' = mixed \/ LoopEnds \/ HttpEnds
    BY DEF Next, Loop, Http, Crash, vars, ReleaseInflight, CommitRelease, ReadForDispatch,
           NothingReady, MarkRunning, LogDispatch, DispatchRefused, RollbackDispatch,
           CommitDispatch, Submit, SubmitRaises, CheckFailure, RecordFailure,
           CommitFailure, TakeResult, ReplayResult, LogResult, ApplyEffect,
           RefuseResult, RollbackResult, CloseDispatch, CommitResult
  <2>2. refused' = refused \/ refused' = TRUE
    BY DEF Next, Loop, Http, Crash, vars, ReleaseInflight, CommitRelease, ReadForDispatch,
           NothingReady, MarkRunning, LogDispatch, DispatchRefused, RollbackDispatch,
           CommitDispatch, Submit, SubmitRaises, CheckFailure, RecordFailure,
           CommitFailure, TakeResult, ReplayResult, LogResult, ApplyEffect,
           RefuseResult, RollbackResult, CloseDispatch, CommitResult, OthersOfLoop
  <2> QED
    BY <2>1, <2>2, Zenon DEF TypeOK, LoopEnds, HttpEnds
<1> DEFINE Registers ==
      /\ http \in {"idle", "key", "effect", "settle", "commit", "refused"}
      /\ request \in Invokes
      /\ loop \in LoopPlaces
      /\ job \in Invokes
      /\ received \in SUBSET Invokes
      /\ confirmed \in SUBSET Invokes
      /\ crashes \in Nat
<1>4. Registers'
  <2>1. CASE Loop
    <3>1. loop' \in LoopPlaces
      BY <2>1
      DEF Loop, LoopGoes, ReleaseInflight, CommitRelease, ReadForDispatch, NothingReady,
          MarkRunning, LogDispatch, DispatchRefused, RollbackDispatch, CommitDispatch,
          Submit, SubmitRaises, CheckFailure, RecordFailure, CommitFailure, LoopPlaces
    <3>2. job' \in Invokes /\ received' \in SUBSET Invokes
      BY <1>1, <2>1
      DEF TypeOK, Loop, NoInvoke, Invokes, ReleaseInflight, CommitRelease, ReadForDispatch,
          NothingReady, MarkRunning, LogDispatch, DispatchRefused, RollbackDispatch,
          CommitDispatch, Submit, SubmitRaises, CheckFailure, RecordFailure, CommitFailure
    <3>3. OthersOfLoop
      BY <2>1
      DEF Loop, ReleaseInflight, CommitRelease, ReadForDispatch, NothingReady, MarkRunning,
          LogDispatch, DispatchRefused, RollbackDispatch, CommitDispatch, Submit,
          SubmitRaises, CheckFailure, RecordFailure, CommitFailure
    <3> QED
      BY <3>1, <3>2, <3>3 DEF TypeOK, OthersOfLoop
  <2>2. CASE Http
    BY <1>1, <2>2
    DEF TypeOK, Http, OthersOfHttp, HttpGoes, NoInvoke, Invokes, TakeResult, ReplayResult,
        LogResult, ApplyEffect, RefuseResult, RollbackResult, CloseDispatch, CommitResult
  <2>3. CASE Crash \/ UNCHANGED vars
    BY <2>3 DEF TypeOK, Crash, NoInvoke, Invokes, LoopPlaces, vars
  <2> QED
    BY <2>1, <2>2, <2>3 DEF Next
<1> QED
  BY <1>2, <1>3, <1>4 DEF TypeOK

-------------------------------------------------------------------------------
(* The row. *)

Whole(db) == db.running => db.invoke.attempt = db.attempts

WholeRows == Whole(work) /\ Whole(disk)

LEMMA NextWholeRows ==
  ASSUME TypeOK, WholeRows, [Next]_vars
  PROVE  WholeRows'
<1>1. disk' = disk \/ disk' = work
  BY NextStatement
<1>2. Whole(disk')
  BY <1>1 DEF WholeRows
<1>3. Whole(work')
  BY NextStatement DEF TypeOK, WholeRows, Whole, Statement, Databases
<1> QED
  BY <1>2, <1>3 DEF WholeRows, Whole

-------------------------------------------------------------------------------
(* Invoke ids. *)

\* No attempt is counted twice: without a rollback that undoes a count, the
\* attempt about to be logged is later than all that are.
FreshIds ==
  ~refused =>
    /\ \A inv \in work.dispatches : inv.attempt <= work.attempts
    /\ \A inv \in disk.dispatches : inv.attempt <= disk.attempts
    /\ loop = "mark" => job.attempt = work.attempts + 1
    /\ loop = "log" => /\ job.attempt = work.attempts
                       /\ \A inv \in work.dispatches : inv.attempt < job.attempt
    /\ loop \in {"commit", "submit", "check", "fail"} => job.attempt = work.attempts
    /\ loop # "failed"
    /\ http # "refused"

\* The result whose transaction the HTTP thread is in.
Pending == IF http \in {"effect", "settle", "commit"} THEN {request} ELSE {}

\* Results stay: with neither a rollback nor a crash, every result key on the
\* connection has its effect on disk or belongs to the transaction under way,
\* which has its effect on the connection before it is committed.
LastingResults ==
  ~refused /\ crashes = 0 =>
    /\ disk.effects \subseteq work.effects
    /\ work.results \subseteq disk.effects \cup Pending
    /\ http \in {"settle", "commit"} => request \in work.effects
    /\ confirmed \subseteq disk.effects

-------------------------------------------------------------------------------
(* The image.                                                              *)

\* What the connection shows while only the maintenance thread is in a
\* transaction, and while only the HTTP thread is.
DispatchRow(db) == [db EXCEPT !.running = TRUE, !.attempts = job.attempt, !.invoke = job]

FailedRow(db) == [db EXCEPT !.running = FALSE, !.attempts = job.attempt, !.invoke = job]

LoopImage(db) ==
  CASE loop = "released" -> [db EXCEPT !.running = FALSE]
    [] loop \in {"log", "failed"} -> DispatchRow(db)
    [] loop = "commit" -> [DispatchRow(db) EXCEPT !.dispatches = @ \cup {job}]
    [] loop = "noted" -> FailedRow(db)
    [] OTHER -> db

KeyedRow(db) == [db EXCEPT !.results = @ \cup {request}]

AppliedRow(db) ==
  [KeyedRow(db) EXCEPT !.version = @ + 1, !.effects = @ \cup {request}]

HttpImage(db) ==
  CASE http \in {"effect", "refused"} -> KeyedRow(db)
    [] http = "settle" -> AppliedRow(db)
    [] http = "commit" -> [AppliedRow(db) EXCEPT !.running = FALSE, !.invoke = request]
    [] OTHER -> db

\* The row the dispatcher means to mark: idle, at the attempt before its job.
Dispatchable(db) ==
  /\ ~db.running
  /\ job.version <= db.version
  /\ job = [version |-> job.version, attempt |-> db.attempts + 1]

\* As long as each thread ends its own transactions only, the connection is
\* the disk with the statements of the one transaction under way.  When both
\* threads are inside, nothing is said: whoever ends its transaction first
\* mixes the two, and a crash drops both.
Image ==
  ~mixed =>
    /\ ~HttpInside => work = LoopImage(disk)
    /\ ~LoopInside => work = HttpImage(disk)
    /\ loop = "mark" => Dispatchable(work)
    /\ loop \in {"log", "commit"} /\ ~HttpInside => Dispatchable(disk)
    /\ loop \in {"submit", "check", "fail", "noted"} =>
         job \in disk.dispatches /\ job.attempt = disk.attempts
    /\ http # "idle" => request \in received \ disk.results

CInv == TypeOK /\ WholeRows /\ FreshIds /\ LastingResults /\ Image /\ WholeUnlessMixed


-------------------------------------------------------------------------------
(* Each step preserves the invariant.                                      *)

\* The fields that a statement leaves alone or writes, statement by statement.
LEMMA Released ==
  ASSUME NEW db \in Databases, NEW q, NEW inv,
         \/ q = [db EXCEPT !.running = FALSE]
         \/ q = [db EXCEPT !.running = FALSE, !.invoke = inv]
  PROVE  /\ q.attempts = db.attempts
         /\ q.dispatches = db.dispatches
         /\ q.results = db.results
         /\ q.effects = db.effects
  BY DEF Databases

LEMMA Marked ==
  ASSUME NEW db \in Databases, NEW q, NEW inv,
         \/ q = [db EXCEPT !.running = TRUE, !.attempts = inv.attempt, !.invoke = inv]
         \/ q = [db EXCEPT !.running = FALSE, !.attempts = inv.attempt, !.invoke = inv]
  PROVE  /\ q.attempts = inv.attempt
         /\ q.dispatches = db.dispatches
         /\ q.results = db.results
         /\ q.effects = db.effects
  BY DEF Databases

LEMMA Logged ==
  ASSUME NEW db \in Databases, NEW q, NEW inv,
         q = [db EXCEPT !.dispatches = @ \cup {inv}]
  PROVE  /\ q.attempts = db.attempts
         /\ q.dispatches = db.dispatches \cup {inv}
         /\ q.results = db.results
         /\ q.effects = db.effects
  BY DEF Databases

LEMMA Keyed ==
  ASSUME NEW db \in Databases, NEW q, NEW inv,
         q = [db EXCEPT !.results = @ \cup {inv}]
  PROVE  /\ q.attempts = db.attempts
         /\ q.dispatches = db.dispatches
         /\ q.results = db.results \cup {inv}
         /\ q.effects = db.effects
  BY DEF Databases

LEMMA Applied ==
  ASSUME NEW db \in Databases, NEW q, NEW inv, NEW n,
         q = [db EXCEPT !.version = n, !.effects = @ \cup {inv}]
  PROVE  /\ q.attempts = db.attempts
         /\ q.dispatches = db.dispatches
         /\ q.results = db.results
         /\ q.effects = db.effects \cup {inv}
  BY DEF Databases

\* The steps, by those fields only.
LEMMA ReleaseInflightWrites ==
  ASSUME TypeOK, ReleaseInflight
  PROVE  /\ work'.attempts = work.attempts
         /\ work'.dispatches = work.dispatches
         /\ work'.results = work.results
         /\ work'.effects = work.effects
<1>1. work \in Databases
  BY DEF TypeOK
<1> QED
  BY <1>1, Released DEF ReleaseInflight

LEMMA CloseDispatchWrites ==
  ASSUME TypeOK, CloseDispatch
  PROVE  /\ work'.attempts = work.attempts
         /\ work'.dispatches = work.dispatches
         /\ work'.results = work.results
         /\ work'.effects = work.effects
<1>1. work \in Databases
  BY DEF TypeOK
<1> QED
  BY <1>1, Released DEF CloseDispatch

LEMMA MarkRunningWrites ==
  ASSUME TypeOK, MarkRunning
  PROVE  /\ work'.attempts = job.attempt
         /\ work'.dispatches = work.dispatches
         /\ work'.results = work.results
         /\ work'.effects = work.effects
<1>1. work \in Databases
  BY DEF TypeOK
<1> QED
  BY <1>1, Marked DEF MarkRunning

LEMMA LogDispatchWrites ==
  ASSUME TypeOK, LogDispatch
  PROVE  /\ work'.attempts = work.attempts
         /\ work'.dispatches = work.dispatches \cup {job}
         /\ work'.results = work.results
         /\ work'.effects = work.effects
<1>1. work \in Databases
  BY DEF TypeOK
<1> QED
  BY <1>1, Logged DEF LogDispatch

LEMMA RecordFailureWrites ==
  ASSUME TypeOK, RecordFailure
  PROVE  /\ work'.attempts = job.attempt
         /\ work'.dispatches = work.dispatches
         /\ work'.results = work.results
         /\ work'.effects = work.effects
<1>1. work \in Databases
  BY DEF TypeOK
<1> QED
  BY <1>1, Marked DEF RecordFailure

LEMMA LogResultWrites ==
  ASSUME TypeOK, LogResult
  PROVE  /\ work'.attempts = work.attempts
         /\ work'.dispatches = work.dispatches
         /\ work'.results = work.results \cup {request}
         /\ work'.effects = work.effects
<1>1. work \in Databases
  BY DEF TypeOK
<1> QED
  BY <1>1, Keyed DEF LogResult

LEMMA ApplyEffectWrites ==
  ASSUME TypeOK, ApplyEffect
  PROVE  /\ work'.attempts = work.attempts
         /\ work'.dispatches = work.dispatches
         /\ work'.results = work.results
         /\ work'.effects = work.effects \cup {request}
<1>1. work \in Databases
  BY DEF TypeOK
<1>2. work' = [work EXCEPT !.version = work.version + 1, !.effects = @ \cup {request}]
  BY DEF ApplyEffect
<1> QED
  BY <1>1, <1>2, Applied, Zenon

LEMMA NextFreshIds ==
  ASSUME TypeOK, FreshIds, [Next]_vars
  PROVE  FreshIds'
<1>1. /\ work.attempts \in Nat
      /\ job.attempt \in Nat
      /\ \A inv \in Invokes : inv.attempt \in Nat
      /\ work.dispatches \in SUBSET Invokes
      /\ disk.dispatches \in SUBSET Invokes
  BY Fields DEF TypeOK, Invokes
<1>2. CASE ReleaseInflight
  BY <1>2, ReleaseInflightWrites DEF ReleaseInflight, LoopGoes, OthersOfLoop, FreshIds
<1>3. CASE CommitRelease
  BY <1>3 DEF CommitRelease, Commit, LoopGoes, OthersOfLoop, FreshIds
<1>4. CASE ReadForDispatch
  BY <1>4 DEF ReadForDispatch, LoopGoes, OthersOfLoop, FreshIds
<1>5. CASE NothingReady \/ Submit
  BY <1>5 DEF NothingReady, Submit, LoopGoes, OthersOfLoop, FreshIds
<1>6. CASE MarkRunning
  BY <1>1, <1>6, MarkRunningWrites DEF MarkRunning, LoopGoes, OthersOfLoop, FreshIds
<1>7. CASE LogDispatch
  BY <1>1, <1>7, LogDispatchWrites DEF LogDispatch, LoopGoes, OthersOfLoop, FreshIds
<1>8. CASE DispatchRefused
  BY <1>1, <1>8 DEF DispatchRefused, LoopGoes, OthersOfLoop, FreshIds
<1>9. CASE RollbackDispatch
  BY <1>9 DEF RollbackDispatch, LoopGoes, OthersOfLoop, FreshIds
<1>10. CASE CommitDispatch
  BY <1>10 DEF CommitDispatch, Commit, LoopGoes, OthersOfLoop, FreshIds
<1>11. CASE \E inv \in received : TakeResult(inv) \/ ReplayResult(inv)
  BY <1>11 DEF TakeResult, ReplayResult, HttpGoes, OthersOfHttp, FreshIds
<1>12. CASE LogResult
  BY <1>12, LogResultWrites DEF LogResult, HttpGoes, OthersOfHttp, FreshIds
<1>13. CASE ApplyEffect
  BY <1>13, ApplyEffectWrites DEF ApplyEffect, HttpGoes, OthersOfHttp, FreshIds
<1>14. CASE RefuseResult \/ RollbackResult
  BY <1>14 DEF RefuseResult, RollbackResult, HttpGoes, OthersOfHttp, FreshIds
<1>15. CASE CloseDispatch
  BY <1>15, CloseDispatchWrites DEF CloseDispatch, HttpGoes, OthersOfHttp, FreshIds
<1>16. CASE CommitResult
  BY <1>16 DEF CommitResult, Commit, HttpGoes, OthersOfHttp, FreshIds
<1>17. CASE Crash \/ UNCHANGED vars
  BY <1>17 DEF Crash, Rollback, vars, FreshIds
<1>18. CASE SubmitRaises \/ CheckFailure
  BY <1>18 DEF SubmitRaises, CheckFailure, LoopGoes, OthersOfLoop, FreshIds
<1>19. CASE RecordFailure
  BY <1>1, <1>19, RecordFailureWrites DEF RecordFailure, LoopGoes, OthersOfLoop, FreshIds
<1>20. CASE CommitFailure
  BY <1>20 DEF CommitFailure, Commit, OthersOfLoop, FreshIds
<1> QED
  BY <1>2, <1>3, <1>4, <1>5, <1>6, <1>7, <1>8, <1>9, <1>10, <1>11, <1>12, <1>13, <1>14,
     <1>15, <1>16, <1>17, <1>18, <1>19, <1>20 DEF Next, Loop, Http

LEMMA NextLastingResults ==
  ASSUME TypeOK, FreshIds, LastingResults, [Next]_vars
  PROVE  LastingResults'
<1>1. CASE ReleaseInflight
  BY <1>1, ReleaseInflightWrites
  DEF ReleaseInflight, LoopGoes, OthersOfLoop, FreshIds, LastingResults, Pending
<1>2. CASE CommitRelease \/ CommitDispatch
  BY <1>2
  DEF CommitRelease, CommitDispatch, LoopGoes, OthersOfLoop, Commit, LoopEnds, LoopInside,
      HttpInside, FreshIds, LastingResults, Pending
<1>3. CASE ReadForDispatch \/ NothingReady \/ Submit \/ DispatchRefused
  BY <1>3
  DEF ReadForDispatch, NothingReady, Submit, DispatchRefused, LoopGoes, OthersOfLoop,
      FreshIds, LastingResults, Pending
<1>4. CASE MarkRunning
  BY <1>4, MarkRunningWrites
  DEF MarkRunning, LoopGoes, OthersOfLoop, FreshIds, LastingResults, Pending
<1>5. CASE LogDispatch
  BY <1>5, LogDispatchWrites
  DEF LogDispatch, LoopGoes, OthersOfLoop, FreshIds, LastingResults, Pending
<1>6. CASE RollbackDispatch
  BY <1>6
  DEF RollbackDispatch, LoopGoes, OthersOfLoop, Rollback, LoopEnds, LoopInside,
      HttpInside, FreshIds, LastingResults, Pending
<1>7. CASE \E inv \in received : TakeResult(inv) \/ ReplayResult(inv)
  BY <1>7
  DEF TakeResult, ReplayResult, HttpGoes, OthersOfHttp, FreshIds, LastingResults, Pending
<1>8. CASE LogResult
  BY <1>8, LogResultWrites
  DEF LogResult, HttpGoes, OthersOfHttp, FreshIds, LastingResults, Pending
<1>9. CASE ApplyEffect
  BY <1>9, ApplyEffectWrites
  DEF ApplyEffect, HttpGoes, OthersOfHttp, FreshIds, LastingResults, Pending
<1>10. CASE RefuseResult \/ CloseDispatch
  BY <1>10, CloseDispatchWrites
  DEF RefuseResult, CloseDispatch, HttpGoes, OthersOfHttp, FreshIds, LastingResults,
      Pending
<1>11. CASE RollbackResult \/ CommitResult
  BY <1>11
  DEF RollbackResult, CommitResult, HttpGoes, OthersOfHttp, Commit, Rollback, HttpEnds,
      LoopInside, HttpInside, FreshIds, LastingResults, Pending
<1>12. CASE Crash \/ UNCHANGED vars
  <2>1. crashes + 1 # 0
    BY DEF TypeOK
  <2> QED
    BY <1>12, <2>1 DEF Crash, Rollback, vars, FreshIds, LastingResults, Pending
<1>13. CASE SubmitRaises \/ CheckFailure
  BY <1>13
  DEF SubmitRaises, CheckFailure, LoopGoes, OthersOfLoop, FreshIds, LastingResults, Pending
<1>14. CASE RecordFailure
  BY <1>14, RecordFailureWrites
  DEF RecordFailure, LoopGoes, OthersOfLoop, FreshIds, LastingResults, Pending
<1>15. CASE CommitFailure
  BY <1>15 DEF CommitFailure, OthersOfLoop, Commit, FreshIds, LastingResults, Pending
<1> QED
  BY <1>1, <1>2, <1>3, <1>4, <1>5, <1>6, <1>7, <1>8, <1>9, <1>10, <1>11, <1>12, <1>13,
     <1>14, <1>15
  DEF Next, Loop, Http

-------------------------------------------------------------------------------
(* The image and the transactions.                                         *)

\* Looking at the fields of the images only.
LEMMA LoopImageFields ==
  ASSUME NEW db \in Databases, job \in Invokes
  PROVE  /\ LoopImage(db).results = db.results
         /\ loop \notin {"log", "failed", "commit", "noted"} =>
              LoopImage(db).version = db.version
  BY DEF LoopImage, DispatchRow, FailedRow, Databases

LEMMA HttpImageFields ==
  ASSUME NEW db \in Databases, request \in Invokes
  PROVE  /\ HttpImage(db).dispatches = db.dispatches
         /\ HttpImage(db).attempts = db.attempts
         /\ http # "commit" => HttpImage(db).running = db.running
         /\ http \notin {"settle", "commit"} => HttpImage(db).version = db.version
  BY DEF HttpImage, KeyedRow, AppliedRow, Databases

LEMMA NextImage ==
  ASSUME TypeOK, Image, [Next]_vars
  PROVE  Image'
<1>0. /\ disk \in Databases
      /\ work \in Databases
      /\ job \in Invokes
      /\ request \in Invokes
      /\ work.version \in Nat
      /\ http \in {"idle", "key", "effect", "settle", "commit", "refused"}
  BY Fields DEF TypeOK
<1> USE DEF Image, LoopInside, HttpInside
<1>1. CASE ReleaseInflight
  BY <1>0, <1>1
  DEF ReleaseInflight, LoopGoes, OthersOfLoop, LoopImage, HttpImage
<1>2. CASE CommitRelease \/ CommitDispatch
  <2>1. ~mixed' => ~mixed /\ ~HttpInside
    BY <1>2, Zenon DEF CommitRelease, CommitDispatch, LoopEnds
  <2>2. SUFFICES ASSUME ~mixed'
                 PROVE  Image'
    OBVIOUS
  <2>3. work = LoopImage(disk) /\ disk' = work /\ work' = work
    BY <1>2, <2>1, <2>2 DEF CommitRelease, CommitDispatch, Commit
  <2>4. loop' = "submit" => job \in work.dispatches /\ job.attempt = work.attempts
    BY <1>0, <1>2, <2>3
    DEF CommitRelease, CommitDispatch, LoopGoes, LoopImage, DispatchRow, FailedRow, Databases
  <2> QED
    BY <1>0, <1>2, <2>1, <2>2, <2>3, <2>4, LoopImageFields
    DEF CommitRelease, CommitDispatch, LoopGoes, OthersOfLoop, LoopImage, HttpImage
<1>3. CASE ReadForDispatch
  <2>1. job' = [version |-> job'.version, attempt |-> work.attempts + 1]
        /\ job'.version = work.version
    BY <1>3 DEF ReadForDispatch
  <2> QED
    BY <1>0, <1>3, <2>1
    DEF ReadForDispatch, LoopGoes, OthersOfLoop, LoopImage, HttpImage, KeyedRow, AppliedRow,
        Dispatchable
<1>4. CASE NothingReady \/ Submit \/ DispatchRefused
  BY <1>0, <1>4
  DEF NothingReady, Submit, DispatchRefused, LoopGoes, OthersOfLoop, LoopImage, HttpImage,
      DispatchRow, FailedRow, KeyedRow, AppliedRow
<1>5. CASE MarkRunning
  BY <1>0, <1>5
  DEF MarkRunning, LoopGoes, OthersOfLoop, LoopImage, HttpImage, DispatchRow, FailedRow, Dispatchable
<1>6. CASE LogDispatch
  BY <1>0, <1>6
  DEF LogDispatch, LoopGoes, OthersOfLoop, LoopImage, HttpImage, DispatchRow, FailedRow, Dispatchable
<1>7. CASE RollbackDispatch
  BY <1>0, <1>7
  DEF RollbackDispatch, Rollback, LoopGoes, OthersOfLoop, LoopEnds, LoopImage, HttpImage
<1>8. CASE \E inv \in received : TakeResult(inv) \/ ReplayResult(inv)
  <2>1. PICK inv \in received : TakeResult(inv) \/ ReplayResult(inv)
    BY <1>8
  <2>2. ~mixed => work.results = disk.results
    BY <1>0, <2>1, LoopImageFields DEF TakeResult, ReplayResult, HttpGoes
  <2>3. CASE TakeResult(inv)
    BY <1>0, <2>2, <2>3
    DEF TakeResult, HttpGoes, OthersOfHttp, LoopImage, HttpImage, DispatchRow, FailedRow, Dispatchable
  <2>4. CASE ReplayResult(inv)
    BY <1>0, <2>4
    DEF ReplayResult, OthersOfHttp, LoopImage, HttpImage, DispatchRow, FailedRow, Dispatchable
  <2> QED
    BY <2>1, <2>3, <2>4
<1>9. CASE LogResult
  <2>1. work'.running = work.running /\ work'.version = work.version
        /\ work'.attempts = work.attempts
    BY <1>0, <1>9 DEF LogResult, Databases
  <2> QED
    BY <1>0, <1>9, <2>1
    DEF LogResult, HttpGoes, OthersOfHttp, HttpImage, KeyedRow, Dispatchable
<1>10. CASE ApplyEffect
  <2>1. work'.running = work.running /\ work'.version = work.version + 1
        /\ work'.attempts = work.attempts
    BY <1>0, <1>10 DEF ApplyEffect, Databases
  <2>2. job.version \in Nat
    BY <1>0 DEF Invokes
  <2>3. Dispatchable(work) => Dispatchable(work')
    BY <1>0, <2>1, <2>2 DEF Dispatchable
  <2> QED
    BY <1>0, <1>10, <2>3
    DEF ApplyEffect, HttpGoes, OthersOfHttp, HttpImage, KeyedRow, AppliedRow, Dispatchable
<1>11. CASE RefuseResult
  BY <1>0, <1>11
  DEF RefuseResult, HttpGoes, OthersOfHttp, HttpImage, KeyedRow, Dispatchable
<1>12. CASE CloseDispatch
  <2>1. ~work'.running /\ work'.version = work.version
        /\ work'.attempts = work.attempts
    BY <1>0, <1>12 DEF CloseDispatch, Databases
  <2> QED
    BY <1>0, <1>12, <2>1
    DEF CloseDispatch, HttpGoes, OthersOfHttp, HttpImage, KeyedRow, AppliedRow, Dispatchable
<1>13. CASE RollbackResult \/ CommitResult
  <2>1. ~mixed' => ~mixed /\ ~LoopInside
    BY <1>13, Zenon DEF RollbackResult, CommitResult, HttpEnds
  <2>2. SUFFICES ASSUME ~mixed'
                 PROVE  Image'
    OBVIOUS
  <2>3. work = HttpImage(disk) /\ work' = disk'
    BY <1>13, <2>1, <2>2 DEF RollbackResult, CommitResult, Commit, Rollback
  <2>4. disk' = disk \/ disk' = work
    BY <1>13 DEF RollbackResult, CommitResult, Commit, Rollback
  <2>5. loop = "mark" => Dispatchable(work')
    BY <1>0, <1>13, <2>1, <2>2, <2>3, <2>4, HttpImageFields
    DEF RollbackResult, CommitResult, HttpGoes, Commit, Rollback, Dispatchable
  <2> QED
    BY <1>0, <1>13, <2>1, <2>2, <2>3, <2>4, <2>5, HttpImageFields
    DEF RollbackResult, CommitResult, HttpGoes, OthersOfHttp, LoopImage, HttpImage,
        Dispatchable
<1>16. CASE SubmitRaises \/ CheckFailure
  BY <1>0, <1>16
  DEF SubmitRaises, CheckFailure, LoopGoes, OthersOfLoop, LoopImage, HttpImage, KeyedRow,
      AppliedRow
<1>17. CASE RecordFailure
  BY <1>0, <1>17
  DEF RecordFailure, LoopGoes, OthersOfLoop, LoopImage, HttpImage, FailedRow
<1>18. CASE CommitFailure
  <2>1. ~mixed' => ~mixed /\ ~HttpInside
    BY <1>18, Zenon DEF CommitFailure, LoopEnds
  <2>2. SUFFICES ASSUME ~mixed'
                 PROVE  Image'
    OBVIOUS
  <2>3. work = LoopImage(disk) /\ disk' = work /\ work' = work
    BY <1>18, <2>1, <2>2 DEF CommitFailure, Commit
  <2> QED
    BY <1>0, <1>18, <2>1, <2>2, <2>3, LoopImageFields
    DEF CommitFailure, OthersOfLoop, LoopImage, HttpImage
<1>14. CASE Crash
  BY <1>0, <1>14 DEF Crash, Rollback, LoopImage, HttpImage
<1>15. CASE UNCHANGED vars
  BY <1>15 DEF vars, LoopImage, HttpImage, DispatchRow, FailedRow, KeyedRow, AppliedRow, Dispatchable
<1> QED
  BY <1>1, <1>2, <1>3, <1>4, <1>5, <1>6, <1>7, <1>8, <1>9, <1>10, <1>11, <1>12, <1>13,
     <1>14, <1>15, <1>16, <1>17, <1>18 DEF Next, Loop, Http

\* Committing one of the images is one of the transactions.
LEMMA CommitsAreTransactions ==
  ASSUME NEW db \in Databases, job \in Invokes, request \in Invokes
  PROVE  /\ loop = "commit" =>
              LoopImage(db) = [db EXCEPT !.running = TRUE, !.attempts = job.attempt,
                                         !.invoke = job, !.dispatches = @ \cup {job}]
         /\ http = "commit" =>
              HttpImage(db) = [db EXCEPT !.version = @ + 1, !.running = FALSE,
                                         !.invoke = request, !.results = @ \cup {request},
                                         !.effects = @ \cup {request}]
<1>1. ASSUME loop = "commit"
      PROVE  LoopImage(db) = [db EXCEPT !.running = TRUE, !.attempts = job.attempt,
                                        !.invoke = job, !.dispatches = @ \cup {job}]
  BY <1>1 DEF LoopImage, DispatchRow, FailedRow, Databases
<1>2. ASSUME http = "commit"
      PROVE  HttpImage(db) = [db EXCEPT !.version = @ + 1, !.running = FALSE,
                                        !.invoke = request, !.results = @ \cup {request},
                                        !.effects = @ \cup {request}]
  <2>1. HttpImage(db) = [AppliedRow(db) EXCEPT !.running = FALSE, !.invoke = request]
    BY <1>2 DEF HttpImage
  <2>2. KeyedRow(db).version = db.version /\ KeyedRow(db).effects = db.effects
    BY DEF KeyedRow, Databases
  <2> QED
    BY <2>1, <2>2 DEF KeyedRow, AppliedRow, Databases
<1> QED
  BY <1>1, <1>2

\* Each commit is a transaction, and nothing else changes the disk.
LEMMA NextAtomic ==
  ASSUME TypeOK, Image, [Next]_vars, ~mixed'
  PROVE  Atomic!TransactionsNext \/ UNCHANGED Atomic!transactions
<1>0. /\ disk \in Databases
      /\ job \in Invokes
      /\ request \in Invokes
      /\ disk.version \in Nat
  BY Fields DEF TypeOK
<1>1. CASE CommitRelease
  <2>1. disk' = [disk EXCEPT !.running = FALSE]
    BY <1>1 DEF CommitRelease, LoopGoes, LoopEnds, Commit, Image, LoopImage
  <2> QED
    BY <1>1, <2>1
    DEF CommitRelease, OthersOfLoop, Atomic!Release, Atomic!TransactionsNext
<1>2. CASE CommitDispatch
  <2>1. /\ ~mixed /\ ~HttpInside
        /\ loop = "commit"
        /\ disk' = work
        /\ UNCHANGED <<received, confirmed>>
    BY <1>2, Zenon DEF CommitDispatch, LoopGoes, LoopEnds, Commit, OthersOfLoop
  <2>2. work = LoopImage(disk) /\ Dispatchable(disk)
    BY <2>1 DEF Image
  <2>3. disk' = [disk EXCEPT !.running = TRUE, !.attempts = job.attempt, !.invoke = job,
                             !.dispatches = @ \cup {job}]
    BY <1>0, <2>1, <2>2, CommitsAreTransactions
  <2>4. /\ job = [version |-> job.version, attempt |-> disk.attempts + 1]
        /\ job.version \in 0..disk.version
        /\ ~disk.running
        /\ job.attempt = disk.attempts + 1
    BY <1>0, <2>2 DEF Dispatchable, Invokes
  <2> QED
    BY <2>1, <2>3, <2>4 DEF Atomic!Dispatch, Atomic!TransactionsNext
<1>3. CASE Submit
  BY <1>3 DEF Submit, LoopGoes, OthersOfLoop, Image, Atomic!Submit, Atomic!TransactionsNext
<1>4. ASSUME NEW inv \in received, ReplayResult(inv)
      PROVE  Atomic!TransactionsNext
  <2>1. inv \in disk.results
    BY <1>0, <1>4, LoopImageFields DEF ReplayResult, Image, HttpInside
  <2> QED
    BY <1>4, <2>1 DEF ReplayResult, OthersOfHttp, Atomic!Replay, Atomic!TransactionsNext
<1>5. CASE CommitResult
  <2>1. /\ ~mixed /\ ~LoopInside
        /\ http = "commit"
        /\ disk' = work
        /\ confirmed' = confirmed \cup {request}
        /\ UNCHANGED received
    BY <1>5, Zenon DEF CommitResult, HttpGoes, HttpEnds, Commit, OthersOfHttp
  <2>2. work = HttpImage(disk) /\ request \in received \ disk.results
    BY <2>1 DEF Image
  <2> QED
    BY <1>0, <2>1, <2>2, CommitsAreTransactions DEF Atomic!Apply, Atomic!TransactionsNext
<1>6. CASE \/ ReleaseInflight \/ ReadForDispatch \/ NothingReady \/ MarkRunning
           \/ LogDispatch \/ DispatchRefused \/ RollbackDispatch
  BY <1>6
  DEF ReleaseInflight, ReadForDispatch, NothingReady, MarkRunning, LogDispatch,
      DispatchRefused, RollbackDispatch, Rollback, OthersOfLoop, Atomic!transactions
<1>9. CASE SubmitRaises
  <2>1. received' = received \/ received' = received \cup {job}
    BY <1>9 DEF SubmitRaises
  <2>2. CASE UNCHANGED received
    BY <1>9, <2>2 DEF SubmitRaises, OthersOfLoop, Atomic!transactions
  <2>3. CASE received' = received \cup {job}
    BY <1>9, <2>3
    DEF SubmitRaises, LoopGoes, OthersOfLoop, Image, Atomic!Submit, Atomic!TransactionsNext
  <2> QED
    BY <2>1, <2>2, <2>3
<1>10. CASE CheckFailure \/ RecordFailure
  BY <1>10 DEF CheckFailure, RecordFailure, OthersOfLoop, Atomic!transactions
<1>11. CASE CommitFailure
  <2>1. /\ ~mixed /\ ~HttpInside
        /\ loop \in {"noted", "ignored"}
        /\ disk' = work
        /\ UNCHANGED <<received, confirmed>>
    BY <1>11, Zenon DEF CommitFailure, LoopEnds, Commit, OthersOfLoop
  <2>2. work = LoopImage(disk)
    BY <2>1 DEF Image
  <2>3. CASE loop = "ignored"
    BY <2>1, <2>2, <2>3 DEF LoopImage, Atomic!transactions
  <2>4. CASE loop = "noted"
    <3>1. /\ disk' = [disk EXCEPT !.running = FALSE, !.attempts = job.attempt, !.invoke = job]
          /\ job \in disk.dispatches /\ job.attempt = disk.attempts
      BY <2>1, <2>2, <2>4 DEF LoopImage, FailedRow, Image
    <3>2. disk' = [disk EXCEPT !.running = FALSE, !.invoke = job]
      BY <1>0, <3>1 DEF Databases
    <3> QED
      BY <2>1, <3>1, <3>2 DEF Atomic!Fail, Atomic!TransactionsNext
  <2> QED
    BY <2>1, <2>3, <2>4
<1>7. CASE \/ \E inv \in received : TakeResult(inv)
           \/ LogResult \/ ApplyEffect \/ RefuseResult \/ RollbackResult \/ CloseDispatch
  BY <1>7
  DEF TakeResult, LogResult, ApplyEffect, RefuseResult, RollbackResult, CloseDispatch,
      Rollback, OthersOfHttp, Atomic!transactions
<1>8. CASE Crash \/ UNCHANGED vars
  BY <1>8 DEF Crash, Rollback, vars, Atomic!transactions
<1> QED
  BY <1>1, <1>2, <1>3, <1>4, <1>5, <1>6, <1>7, <1>8, <1>9, <1>10, <1>11
  DEF Next, Loop, Http

\* Transactions keep results with their effects, dispatches with their
\* counter, and submit nothing that is not on record.
Recorded ==
  /\ disk.results = disk.effects
  /\ \A inv \in disk.dispatches : inv.attempt <= disk.attempts
  /\ received \subseteq disk.dispatches

LEMMA TransactionsKeepRecorded ==
  ASSUME TypeOK, Recorded, Atomic!TransactionsNext
  PROVE  Recorded'
<1>0. /\ disk \in Databases
      /\ disk.attempts \in Nat
      /\ disk.dispatches \in SUBSET Invokes
      /\ \A inv \in Invokes : inv.attempt \in Nat
  BY Fields DEF TypeOK, Invokes
<1>1. ASSUME NEW version \in 0..disk.version, Atomic!Dispatch(version)
      PROVE  Recorded'
  <2> PICK inv : inv = [version |-> version, attempt |-> disk.attempts + 1]
    OBVIOUS
  <2>1. /\ disk'.attempts = disk.attempts + 1
        /\ disk'.dispatches = disk.dispatches \cup {inv}
        /\ disk'.results = disk.results
        /\ disk'.effects = disk.effects
        /\ received' = received
    BY <1>0, <1>1 DEF Atomic!Dispatch, Databases
  <2> QED
    BY <1>0, <2>1 DEF Recorded
<1>2. CASE Atomic!Release
  <2>1. /\ disk'.attempts = disk.attempts
        /\ disk'.dispatches = disk.dispatches
        /\ disk'.results = disk.results
        /\ disk'.effects = disk.effects
        /\ received' = received
    BY <1>0, <1>2 DEF Atomic!Release, Databases
  <2> QED
    BY <2>1 DEF Recorded
<1>3. ASSUME NEW inv \in disk.dispatches, Atomic!Submit(inv)
      PROVE  Recorded'
  BY <1>3 DEF Atomic!Submit, Recorded
<1>6. ASSUME NEW inv \in disk.dispatches, Atomic!Fail(inv)
      PROVE  Recorded'
  <2>1. /\ disk'.attempts = disk.attempts
        /\ disk'.dispatches = disk.dispatches
        /\ disk'.results = disk.results
        /\ disk'.effects = disk.effects
        /\ received' = received
    BY <1>0, <1>6 DEF Atomic!Fail, Databases
  <2> QED
    BY <2>1 DEF Recorded
<1>4. ASSUME NEW inv \in received, Atomic!Apply(inv)
      PROVE  Recorded'
  <2>1. /\ disk'.attempts = disk.attempts
        /\ disk'.dispatches = disk.dispatches
        /\ disk'.results = disk.results \cup {inv}
        /\ disk'.effects = disk.effects \cup {inv}
        /\ received' = received
    BY <1>0, <1>4 DEF Atomic!Apply, Databases
  <2> QED
    BY <2>1 DEF Recorded
<1>5. ASSUME NEW inv \in disk.results, Atomic!Replay(inv)
      PROVE  Recorded'
  BY <1>5 DEF Atomic!Replay, Recorded
<1> QED
  BY <1>1, <1>2, <1>3, <1>4, <1>5, <1>6 DEF Atomic!TransactionsNext

LEMMA NextWholeUnlessMixed ==
  ASSUME TypeOK, Image, WholeUnlessMixed, [Next]_vars
  PROVE  WholeUnlessMixed'
<1> SUFFICES ASSUME ~mixed'
             PROVE  Recorded'
  BY DEF WholeUnlessMixed, Recorded
<1>1. ~mixed
  BY DEF Next, Loop, Http, Crash, vars, LoopEnds, HttpEnds, ReleaseInflight, CommitRelease,
         ReadForDispatch, NothingReady, MarkRunning, LogDispatch, DispatchRefused,
         RollbackDispatch, CommitDispatch, Submit, SubmitRaises, CheckFailure,
         RecordFailure, CommitFailure, TakeResult, ReplayResult, LogResult,
         ApplyEffect, RefuseResult, RollbackResult, CloseDispatch, CommitResult
<1>2. Recorded
  BY <1>1 DEF WholeUnlessMixed, Recorded
<1>3. CASE UNCHANGED Atomic!transactions
  BY <1>2, <1>3 DEF Atomic!transactions, Recorded
<1>4. CASE Atomic!TransactionsNext
  BY <1>2, <1>4, TransactionsKeepRecorded
<1> QED
  BY <1>3, <1>4, NextAtomic

-------------------------------------------------------------------------------
(* What holds in every reachable state. *)

LEMMA InitCInv ==
  ASSUME Init
  PROVE  CInv
<1>1. TypeOK
  BY InitTypeOK
<1>2. WholeRows /\ FreshIds /\ LastingResults /\ WholeUnlessMixed
  BY DEF Init, EmptyDatabase, NoInvoke, WholeRows, Whole, FreshIds, LastingResults, Pending,
         WholeUnlessMixed
<1>3. Image
  BY DEF Init, Image, LoopImage, HttpImage
<1> QED
  BY <1>1, <1>2, <1>3 DEF CInv

LEMMA NextCInv ==
  ASSUME CInv, [Next]_vars
  PROVE  CInv'
  BY NextTypeOK, NextWholeRows, NextFreshIds, NextLastingResults, NextImage, NextWholeUnlessMixed DEF CInv

\* The inductive invariant of the connection: types, whole rows, fresh invoke
\* ids, lasting results and the image of the transaction under way.
THEOREM ConnectionInvariance == Spec => []CInv
<1>1. Init => CInv
  BY InitCInv
<1>2. CInv /\ [Next]_vars => CInv'
  BY NextCInv
<1> QED
  BY <1>1, <1>2, PTL DEF Spec

\* Each thread is always at a statement of its code, and whatever a commit or a
\* rollback leaves behind is a database.
THEOREM ConnectionTypeCorrect == Spec => []TypeOK
<1>1. CInv => TypeOK
  BY DEF CInv
<1> QED
  BY <1>1, ConnectionInvariance, PTL

\* Whoever commits or rolls back, a committed row that is running names the
\* invocation its attempt counter counts.
THEOREM RunningRowsAreWhole == Spec => []RunningRowIsWhole
<1>1. CInv => RunningRowIsWhole
  BY DEF CInv, WholeRows, Whole, RunningRowIsWhole
<1> QED
  BY <1>1, ConnectionInvariance, PTL

\* As long as each thread ends its own transactions only, dispatches and
\* results are all or nothing on disk, also across crashes.
THEOREM TransactionsAreWhole == Spec => []WholeUnlessMixed
<1>1. CInv => WholeUnlessMixed
  BY DEF CInv
<1> QED
  BY <1>1, ConnectionInvariance, PTL

\* As long as each thread ends its own transactions only, whatever the
\* statements of the two do in between, the disk goes from commit to commit by
\* whole transactions.
THEOREM TransactionsAreAtomic == Spec => AtomicUnlessMixed
<1>1. CInv /\ [Next]_vars => [~mixed' => Atomic!TransactionsNext \/ UNCHANGED Atomic!transactions]_vars
  BY NextAtomic DEF CInv
<1> QED
  BY <1>1, ConnectionInvariance, PTL DEF Spec, AtomicUnlessMixed

\* A behaviour in which the transactions are never mixed is one of Transactions.
THEOREM UnmixedRefinement == Spec /\ []~mixed => Atomic!TransactionsSpec
<1>1. Init => Atomic!TransactionsInit
  BY DEF Init, Atomic!TransactionsInit
<1>2. CInv /\ (~mixed)' /\ [Next]_vars => [Atomic!TransactionsNext]_(Atomic!transactions)
  BY NextAtomic DEF CInv
<1> QED
  BY <1>1, <1>2, ConnectionInvariance, PTL DEF Spec, Atomic!TransactionsSpec

\* With neither a rollback nor a crash, a result the runtime was told is
\* applied has its effect on disk, even when transactions were mixed.
THEOREM ConfirmedResultsLast == Spec => []ConfirmedIsApplied
<1>1. CInv => ConfirmedIsApplied
  BY DEF CInv, LastingResults, ConfirmedIsApplied
<1> QED
  BY <1>1, ConnectionInvariance, PTL

\* Without a rollback of the HTTP thread, no dispatch is refused by the unique
\* index.
THEOREM InvokeIdsAreFresh == Spec => []IdsFreshUnlessRefused
<1>1. CInv => IdsFreshUnlessRefused
  BY DEF CInv, FreshIds, IdsFreshUnlessRefused
<1> QED
  BY <1>1, ConnectionInvariance, PTL
================================================================================
