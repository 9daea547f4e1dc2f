--------------------------- MODULE IngressProofs ---------------------------
(***************************************************************************)
(* What module Ingress promises of every set of requests and every slug.   *)
(***************************************************************************)
EXTENDS Ingress, TLAPS

\* A creation event belongs to a task that exists, and to no other request's.
SoundDatabase(db) ==
  /\ \A event \in db.events : event.task \in db.tasks
  /\ \A e, f \in db.events :
       e.key \in Own /\ f.key \in Own /\ e.task = f.task => e.key = f.key

\* Between two ingests nothing is uncommitted.
NothingPending == pc \in {"idle", "insert"} => work = disk

\* An ingest has inserted its task, which no request owns before its event is
\* written.
IngestInProgress ==
  /\ pc \in {"event", "commit"} => Slug[current] \in work.tasks
  /\ pc = "event" =>
       \A event \in work.events : ~(event.task = Slug[current] /\ event.key \in Own)
  /\ pc = "commit" => [task |-> Slug[current], key |-> current] \in work.events

\* Every answer rests on a committed event, and a creation on a committed task.
AnswersRecorded ==
  \A a \in answers :
    /\ [task |-> a.task, key |-> a.request] \in disk.events
    /\ a.created => a.task \in disk.tasks

\* The task of an ingest has its event, or the ingest is at work.
HasEvent(db, t) ==
  \E event \in db.events : event.task = t /\ event.key \in Requests /\ Slug[event.key] = t

TasksRecognised ==
  crashes = 0 =>
    /\ \A t \in work.tasks \ fromApi :
         HasEvent(work, t) \/ (pc = "event" /\ Slug[current] = t)
    /\ \A t \in disk.tasks \ fromApi :
         HasEvent(disk, t) \/ (pc \in {"event", "commit"} /\ Slug[current] = t)

Undisturbed ==
  /\ SoundDatabase(disk)
  /\ SoundDatabase(work)
  /\ disk.tasks \subseteq work.tasks
  /\ disk.events \subseteq work.events
  /\ IngestInProgress
  /\ AnswersRecorded
  /\ TasksRecognised

\* An ingest is the first for its request: it has not been answered, it has no
\* event of another task, and its own event is all that is not yet on disk.
FirstIngest ==
  /\ pc # "idle" => \A a \in answers : a.request # current
  /\ pc # "idle" /\ current \in Own =>
       \A event \in work.events : event.key = current => event.task = Slug[current]
  /\ \A event \in work.events :
       \/ event \in disk.events
       \/ pc = "commit" /\ event = [task |-> Slug[current], key |-> current]

\* A rollback by the maintenance thread may undo half an ingest: what the
\* properties say is said of behaviours without one.
IInv == TypeOK /\ NothingPending /\ (~rolledBack => Undisturbed /\ FirstIngest)

-------------------------------------------------------------------------------
LEMMA InitIInv == Init => IInv
<1> SUFFICES ASSUME Init PROVE IInv
  OBVIOUS
<1>1. disk = work /\ disk.tasks = {} /\ disk.events = {} /\ disk \in Databases
  BY DEF Init, Databases
<1>2. TypeOK
  BY <1>1 DEF Init, TypeOK
<1>3. NothingPending
  BY <1>1 DEF NothingPending
<1>4. Undisturbed
  BY <1>1 DEF Init, Undisturbed, SoundDatabase, IngestInProgress, AnswersRecorded, TasksRecognised
<1>5. FirstIngest
  BY <1>1 DEF Init, FirstIngest
<1> QED
  BY <1>2, <1>3, <1>4, <1>5 DEF IInv

\* What an INSERT into either table makes of a database.
LEMMA InsertIntoTasks ==
  ASSUME NEW db \in Databases, NEW t \in TaskIds, NEW new,
         new = [db EXCEPT !.tasks = @ \cup {t}]
  PROVE  new \in Databases /\ new.tasks = db.tasks \cup {t} /\ new.events = db.events
BY DEF Databases

LEMMA InsertIntoEvents ==
  ASSUME NEW db \in Databases, NEW t \in TaskIds, NEW k \in Keys, NEW new,
         new = [db EXCEPT !.events = @ \cup {[task |-> t, key |-> k]}]
  PROVE  /\ new \in Databases
         /\ new.tasks = db.tasks
         /\ new.events = db.events \cup {[task |-> t, key |-> k]}
<1>1. [task |-> t, key |-> k] \in Events
  BY DEF Events
<1> QED
  BY <1>1 DEF Databases

\* What the tables of the connection are after a statement of an ingest.
LEMMA IngestWrites ==
  ASSUME TypeOK
  PROVE  /\ Slug[current] \in TaskIds
         /\ current \in Keys
         /\ InsertTask => /\ work' \in Databases
                          /\ work'.tasks = work.tasks \cup {Slug[current]}
                          /\ work'.events = work.events
         /\ AppendCreated =>
              /\ work' \in Databases
              /\ work'.tasks = work.tasks
              /\ work'.events = work.events \cup {[task |-> Slug[current], key |-> current]}
<1>1. Slug[current] \in TaskIds /\ current \in Keys /\ work \in Databases
  BY IngressAssumption DEF TypeOK, Keys
<1>2. ASSUME InsertTask
      PROVE  /\ work' \in Databases
             /\ work'.tasks = work.tasks \cup {Slug[current]}
             /\ work'.events = work.events
  <2>1. work' = [work EXCEPT !.tasks = @ \cup {Slug[current]}]
    BY <1>2 DEF InsertTask
  <2> QED
    BY <1>1, <2>1, InsertIntoTasks
<1>3. ASSUME AppendCreated
      PROVE  /\ work' \in Databases
             /\ work'.tasks = work.tasks
             /\ work'.events = work.events \cup {[task |-> Slug[current], key |-> current]}
  <2>1. work' = [work EXCEPT !.events = @ \cup {[task |-> Slug[current], key |-> current]}]
    BY <1>3 DEF AppendCreated
  <2> QED
    BY <1>1, <2>1, InsertIntoEvents
<1> QED
  BY <1>1, <1>2, <1>3

\* The same for the API.
LEMMA ApiWrites ==
  ASSUME TypeOK, NEW t \in TaskIds
  PROVE  /\ ApiCreates(t) => /\ work' \in Databases
                             /\ work'.tasks = work.tasks \cup {t}
                             /\ work'.events = work.events
         /\ \A k \in ApiKeys : ApiAppends(t, k) =>
              /\ work' \in Databases
              /\ work'.tasks = work.tasks
              /\ work'.events = work.events \cup {[task |-> t, key |-> k]}
<1>1. work \in Databases
  BY DEF TypeOK
<1>2. ASSUME ApiCreates(t)
      PROVE  work' \in Databases /\ work'.tasks = work.tasks \cup {t} /\ work'.events = work.events
  <2>1. work' = [work EXCEPT !.tasks = @ \cup {t}]
    BY <1>2 DEF ApiCreates
  <2> QED
    BY <1>1, <2>1, InsertIntoTasks
<1>3. ASSUME NEW k \in ApiKeys, ApiAppends(t, k)
      PROVE  /\ work' \in Databases
             /\ work'.tasks = work.tasks
             /\ work'.events = work.events \cup {[task |-> t, key |-> k]}
  <2>1. work' = [work EXCEPT !.events = @ \cup {[task |-> t, key |-> k]}]
    BY <1>3 DEF ApiAppends
  <2>2. k \in Keys
    BY <1>3 DEF Keys
  <2> QED
    BY <1>1, <2>1, <2>2, InsertIntoEvents
<1> QED
  BY <1>2, <1>3

\* Every step keeps the types.
LEMMA TypeStep ==
  ASSUME TypeOK, [Next]_vars
  PROVE  TypeOK'
<1> USE DEF TypeOK
<1>1. ASSUME NEW r \in Requests, ReplayIngest(r) PROVE TypeOK'
  <2>1. PICK event \in work.events : answers' = answers \cup {[request |-> r, task |-> event.task, created |-> FALSE]}
    BY <1>1 DEF ReplayIngest, Answer
  <2>2. event.task \in TaskIds
    BY <2>1 DEF Databases, Events
  <2>3. [request |-> r, task |-> event.task, created |-> FALSE] \in Answers
    BY <1>1, <2>2 DEF Answers
  <2> QED
    BY <1>1, <2>1, <2>3 DEF ReplayIngest
<1>2. ASSUME NEW r \in Requests, BeginIngest(r) PROVE TypeOK'
  BY <1>2 DEF BeginIngest, Goes
<1>3. CASE InsertTask
  BY <1>3, IngestWrites DEF InsertTask, Goes
<1>4. CASE InsertFails
  BY <1>4 DEF InsertFails, Goes
<1>5. CASE AppendCreated
  BY <1>5, IngestWrites DEF AppendCreated, Goes
<1>6. CASE CommitIngest
  <2>1. [request |-> current, task |-> Slug[current], created |-> TRUE] \in Answers
    BY IngestWrites DEF Answers
  <2> QED
    BY <1>6, <2>1 DEF CommitIngest, Goes, Answer
<1>7. ASSUME NEW t \in TaskIds, ApiCreates(t) PROVE TypeOK'
  <2>1. work' \in Databases /\ disk' \in Databases
    BY <1>7, ApiWrites DEF ApiCreates
  <2> QED
    BY <1>7, <2>1 DEF ApiCreates
<1>8. ASSUME NEW t \in TaskIds, NEW k \in ApiKeys, ApiAppends(t, k) PROVE TypeOK'
  <2>1. work' \in Databases /\ disk' \in Databases
    BY <1>8, ApiWrites DEF ApiAppends
  <2> QED
    BY <1>8, <2>1 DEF ApiAppends
<1>9. CASE OtherThreadCommits
  BY <1>9 DEF OtherThreadCommits
<1>10. CASE OtherThreadRollsBack
  BY <1>10 DEF OtherThreadRollsBack
<1>11. CASE Crash
  BY <1>11 DEF Crash
<1>12. CASE UNCHANGED vars
  BY <1>12 DEF vars
<1> QED
  BY <1>1, <1>2, <1>3, <1>4, <1>5, <1>6, <1>7, <1>8, <1>9, <1>10, <1>11, <1>12 DEF Next, Ingest

\* Nothing is pending before the first write of an ingest and after its commit.
LEMMA PendingStep ==
  ASSUME TypeOK, NothingPending, [Next]_vars
  PROVE  NothingPending'
<1> USE DEF NothingPending
<1>1. ASSUME NEW r \in Requests, ReplayIngest(r) PROVE NothingPending'
  BY <1>1 DEF ReplayIngest
<1>2. ASSUME NEW r \in Requests, BeginIngest(r) PROVE NothingPending'
  BY <1>2 DEF BeginIngest, Goes
<1>3. CASE InsertTask \/ AppendCreated
  BY <1>3 DEF InsertTask, AppendCreated, Goes
<1>4. CASE InsertFails
  BY <1>4 DEF InsertFails, Goes
<1>5. CASE CommitIngest
  BY <1>5 DEF CommitIngest, Goes
<1>6. ASSUME NEW t \in TaskIds, ApiCreates(t) PROVE NothingPending'
  BY <1>6 DEF ApiCreates
<1>7. ASSUME NEW t \in TaskIds, NEW k \in ApiKeys, ApiAppends(t, k) PROVE NothingPending'
  BY <1>7 DEF ApiAppends
<1>8. CASE OtherThreadCommits \/ OtherThreadRollsBack \/ Crash
  BY <1>8 DEF OtherThreadCommits, OtherThreadRollsBack, Crash
<1>9. CASE UNCHANGED vars
  BY <1>9 DEF vars
<1> QED
  BY <1>1, <1>2, <1>3, <1>4, <1>5, <1>6, <1>7, <1>8, <1>9 DEF Next, Ingest

-------------------------------------------------------------------------------
\* Statements of an ingest.
LEMMA UndisturbedByReplay ==
  ASSUME TypeOK, NothingPending, Undisturbed, NEW r \in Requests, ReplayIngest(r)
  PROVE  Undisturbed'
<1>1. PICK event \in work.events :
        /\ event.key = r
        /\ answers' = answers \cup {[request |-> r, task |-> event.task, created |-> FALSE]}
  BY DEF ReplayIngest, Answer
<1>2. event \in disk.events
  BY <1>1 DEF ReplayIngest, NothingPending
<1>3. event = [task |-> event.task, key |-> r]
  BY <1>1 DEF TypeOK, Databases, Events
<1>4. AnswersRecorded'
  <2> SUFFICES ASSUME NEW a \in answers'
               PROVE  /\ [task |-> a.task, key |-> a.request] \in disk.events
                      /\ a.created => a.task \in disk.tasks
    BY DEF AnswersRecorded, ReplayIngest
  <2>1. CASE a \in answers
    BY <2>1 DEF Undisturbed, AnswersRecorded
  <2>2. CASE a = [request |-> r, task |-> event.task, created |-> FALSE]
    BY <1>2, <1>3, <2>2
  <2> QED
    BY <1>1, <2>1, <2>2
<1> QED
  BY <1>4 DEF ReplayIngest, Undisturbed, SoundDatabase, IngestInProgress, TasksRecognised, HasEvent

LEMMA UndisturbedByBegin ==
  ASSUME Undisturbed, NEW r \in Requests, BeginIngest(r)
  PROVE  Undisturbed'
BY DEF BeginIngest, Goes, Undisturbed, SoundDatabase, IngestInProgress, AnswersRecorded,
       TasksRecognised, HasEvent

\* The task is new, so no event belongs to it yet.
LEMMA UndisturbedByInsert ==
  ASSUME TypeOK, Undisturbed, InsertTask
  PROVE  Undisturbed'
<1>1. /\ pc = "insert" /\ pc' = "event" /\ Slug[current] \notin work.tasks
      /\ UNCHANGED <<disk, current, answers, crashes, fromApi>>
  BY DEF InsertTask, Goes
<1>2. work'.tasks = work.tasks \cup {Slug[current]} /\ work'.events = work.events
  BY IngestWrites
<1>3. SoundDatabase(disk)' /\ SoundDatabase(work)'
  BY <1>1, <1>2 DEF Undisturbed, SoundDatabase
<1>4. (disk.tasks \subseteq work.tasks)' /\ (disk.events \subseteq work.events)'
  BY <1>1, <1>2 DEF Undisturbed
<1>5. IngestInProgress'
  BY <1>1, <1>2 DEF Undisturbed, SoundDatabase, IngestInProgress
<1>6. AnswersRecorded'
  BY <1>1 DEF Undisturbed, AnswersRecorded
<1>7. TasksRecognised'
  BY <1>1, <1>2 DEF Undisturbed, TasksRecognised, HasEvent
<1> QED
  BY <1>3, <1>4, <1>5, <1>6, <1>7 DEF Undisturbed

LEMMA UndisturbedByRefusal ==
  ASSUME Undisturbed, InsertFails
  PROVE  Undisturbed'
BY DEF InsertFails, Goes, Undisturbed, SoundDatabase, IngestInProgress, AnswersRecorded,
       TasksRecognised, HasEvent

\* The event is the first one of a request for the task.
LEMMA UndisturbedByAppend ==
  ASSUME TypeOK, Undisturbed, AppendCreated
  PROVE  Undisturbed'
<1> DEFINE created == [task |-> Slug[current], key |-> current]
<1>1. /\ pc = "event" /\ pc' = "commit"
      /\ UNCHANGED <<disk, current, answers, crashes, fromApi>>
  BY DEF AppendCreated, Goes
<1>2. work'.tasks = work.tasks /\ work'.events = work.events \cup {created}
  BY IngestWrites
<1>3. SoundDatabase(disk)'
  BY <1>1 DEF Undisturbed, SoundDatabase
<1>4. SoundDatabase(work)'
  <2>1. \A event \in work'.events : event.task \in work'.tasks
    BY <1>1, <1>2 DEF Undisturbed, SoundDatabase, IngestInProgress
  <2>2. ASSUME NEW e \in work'.events, NEW f \in work'.events,
               e.key \in Own, f.key \in Own, e.task = f.task
        PROVE  e.key = f.key
    BY <1>1, <1>2, <2>2 DEF Undisturbed, SoundDatabase, IngestInProgress
  <2> QED
    BY <2>1, <2>2 DEF SoundDatabase
<1>5. (disk.tasks \subseteq work.tasks)' /\ (disk.events \subseteq work.events)'
  BY <1>1, <1>2 DEF Undisturbed
<1>6. IngestInProgress'
  BY <1>1, <1>2 DEF Undisturbed, IngestInProgress
<1>7. AnswersRecorded'
  BY <1>1 DEF Undisturbed, AnswersRecorded
<1>8. TasksRecognised'
  <2>1. created.task = Slug[current] /\ created.key = current /\ current \in Requests
    BY DEF TypeOK
  <2> QED
    BY <1>1, <1>2, <2>1 DEF Undisturbed, TasksRecognised, HasEvent
<1> QED
  BY <1>3, <1>4, <1>5, <1>6, <1>7, <1>8 DEF Undisturbed

LEMMA UndisturbedByCommit ==
  ASSUME TypeOK, Undisturbed, CommitIngest
  PROVE  Undisturbed'
<1> DEFINE answer == [request |-> current, task |-> Slug[current], created |-> TRUE]
<1>1. /\ pc = "commit" /\ pc' = "idle" /\ disk' = work
      /\ answers' = answers \cup {answer}
      /\ UNCHANGED <<work, current, crashes, fromApi>>
  BY DEF CommitIngest, Goes, Answer
<1>2. AnswersRecorded'
  <2> SUFFICES ASSUME NEW a \in answers'
               PROVE  /\ [task |-> a.task, key |-> a.request] \in work.events
                      /\ a.created => a.task \in work.tasks
    BY <1>1 DEF AnswersRecorded
  <2>1. CASE a \in answers
    BY <2>1 DEF Undisturbed, AnswersRecorded
  <2>2. CASE a = answer
    BY <1>1, <2>2 DEF Undisturbed, IngestInProgress
  <2> QED
    BY <1>1, <2>1, <2>2
<1>3. TasksRecognised'
  BY <1>1 DEF Undisturbed, TasksRecognised, HasEvent
<1> QED
  BY <1>1, <1>2, <1>3 DEF Undisturbed, SoundDatabase, IngestInProgress

-------------------------------------------------------------------------------
\* Transactions of the API.
LEMMA UndisturbedByApi ==
  ASSUME TypeOK, NothingPending, Undisturbed, NEW t \in TaskIds,
         ApiCreates(t) \/ \E k \in ApiKeys : ApiAppends(t, k)
  PROVE  Undisturbed'
<1>1. /\ pc = "idle" /\ disk = work /\ disk' = work'
      /\ UNCHANGED <<pc, current, answers, crashes>>
  BY DEF ApiCreates, ApiAppends, NothingPending
<1>2. CASE ApiCreates(t)
  <2>1. /\ work'.tasks = work.tasks \cup {t} /\ work'.events = work.events
        /\ fromApi' = fromApi \cup {t}
    BY <1>2, ApiWrites DEF ApiCreates
  <2>2. SoundDatabase(work)' /\ AnswersRecorded'
    BY <1>1, <2>1 DEF Undisturbed, SoundDatabase, AnswersRecorded
  <2>3. TasksRecognised'
    BY <1>1, <2>1 DEF Undisturbed, TasksRecognised, HasEvent
  <2> QED
    BY <1>1, <2>2, <2>3 DEF Undisturbed, SoundDatabase, IngestInProgress
<1>3. ASSUME NEW k \in ApiKeys, ApiAppends(t, k) PROVE Undisturbed'
  <2>1. /\ work'.tasks = work.tasks /\ fromApi' = fromApi /\ t \in work.tasks
        /\ work'.events = work.events \cup {[task |-> t, key |-> k]}
    BY <1>3, ApiWrites DEF ApiAppends
  <2>2. SoundDatabase(work)'
    BY <1>1, <1>3, <2>1 DEF Undisturbed, SoundDatabase, Own
  <2>3. AnswersRecorded'
    BY <1>1, <2>1 DEF Undisturbed, AnswersRecorded
  <2>4. TasksRecognised'
    BY <1>1, <2>1 DEF Undisturbed, TasksRecognised, HasEvent
  <2> QED
    BY <1>1, <2>2, <2>3, <2>4 DEF Undisturbed, SoundDatabase, IngestInProgress
<1> QED
  BY <1>2, <1>3

\* A commit of the other thread, and a restart.
LEMMA UndisturbedByOthers ==
  ASSUME TypeOK, Undisturbed, OtherThreadCommits \/ Crash
  PROVE  Undisturbed'
<1>1. CASE OtherThreadCommits
  <2>1. disk' = work /\ UNCHANGED <<work, pc, current, answers, crashes, fromApi>>
    BY <1>1 DEF OtherThreadCommits
  <2>2. TasksRecognised'
    BY <2>1 DEF Undisturbed, TasksRecognised, HasEvent
  <2> QED
    BY <2>1, <2>2 DEF Undisturbed, SoundDatabase, IngestInProgress, AnswersRecorded
<1>2. CASE Crash
  <2>1. /\ work' = disk /\ pc' = "idle" /\ crashes' # 0
        /\ UNCHANGED <<disk, current, answers, fromApi>>
    BY <1>2 DEF Crash, TypeOK
  <2> QED
    BY <2>1 DEF Undisturbed, SoundDatabase, IngestInProgress, AnswersRecorded, TasksRecognised
<1> QED
  BY <1>1, <1>2

\* An ingest begins only for a request without an event, hence without an
\* answer, and requests are served one at a time.
LEMMA FirstIngestStep ==
  ASSUME TypeOK, NothingPending, Undisturbed, FirstIngest, [Next]_vars, ~rolledBack'
  PROVE  FirstIngest'
<1>1. ASSUME NEW r \in Requests, ReplayIngest(r) PROVE FirstIngest'
  BY <1>1 DEF ReplayIngest, FirstIngest
<1>2. ASSUME NEW r \in Requests, BeginIngest(r) PROVE FirstIngest'
  <2>1. \A a \in answers : a.request # r
    BY <1>2 DEF BeginIngest, Undisturbed, AnswersRecorded
  <2> QED
    BY <1>2, <2>1 DEF BeginIngest, Goes, NothingPending, FirstIngest
<1>3. CASE InsertTask
  BY <1>3, IngestWrites DEF InsertTask, Goes, FirstIngest
<1>4. CASE InsertFails
  BY <1>4 DEF InsertFails, Goes, FirstIngest
<1>5. CASE AppendCreated
  BY <1>5, IngestWrites DEF AppendCreated, Goes, FirstIngest
<1>6. CASE CommitIngest
  BY <1>6 DEF CommitIngest, Goes, FirstIngest
<1>7. ASSUME NEW t \in TaskIds, ApiCreates(t) \/ \E k \in ApiKeys : ApiAppends(t, k)
      PROVE  FirstIngest'
  BY <1>7 DEF ApiCreates, ApiAppends, FirstIngest
<1>8. CASE OtherThreadCommits
  BY <1>8 DEF OtherThreadCommits, FirstIngest
<1>9. CASE OtherThreadRollsBack
  BY <1>9 DEF OtherThreadRollsBack
<1>10. CASE Crash
  BY <1>10 DEF Crash, FirstIngest
<1>11. CASE UNCHANGED vars
  BY <1>11 DEF vars, FirstIngest
<1> QED
  BY <1>1, <1>2, <1>3, <1>4, <1>5, <1>6, <1>7, <1>8, <1>9, <1>10, <1>11 DEF Next, Ingest

\* Every step keeps the invariant.
LEMMA StepIInv ==
  ASSUME IInv, [Next]_vars
  PROVE  IInv'
<1> USE DEF IInv
<1>1. TypeOK' /\ NothingPending'
  BY TypeStep, PendingStep
<1>2. SUFFICES ASSUME ~rolledBack' PROVE Undisturbed' /\ FirstIngest'
  BY <1>1
<1>3. ~OtherThreadRollsBack
  BY <1>2 DEF OtherThreadRollsBack
<1>4. ~rolledBack
  BY <1>2, <1>3 DEF Next, Ingest, vars, ReplayIngest, BeginIngest, InsertTask, InsertFails,
              AppendCreated, CommitIngest, ApiCreates, ApiAppends, OtherThreadCommits,
              OtherThreadRollsBack, Crash
<1>5. SUFFICES Undisturbed'
  BY <1>2, <1>4, FirstIngestStep
<1>6. ASSUME NEW r \in Requests, ReplayIngest(r) \/ BeginIngest(r) PROVE Undisturbed'
  BY <1>4, <1>6, UndisturbedByReplay, UndisturbedByBegin
<1>7. CASE InsertTask \/ InsertFails \/ AppendCreated \/ CommitIngest
  BY <1>4, <1>7, UndisturbedByInsert, UndisturbedByRefusal, UndisturbedByAppend,
     UndisturbedByCommit
<1>8. ASSUME NEW t \in TaskIds, ApiCreates(t) \/ \E k \in ApiKeys : ApiAppends(t, k)
      PROVE  Undisturbed'
  BY <1>4, <1>8, UndisturbedByApi
<1>9. CASE OtherThreadCommits \/ Crash
  BY <1>4, <1>9, UndisturbedByOthers
<1>10. CASE UNCHANGED vars
  BY <1>4, <1>10 DEF vars, Undisturbed, SoundDatabase, IngestInProgress, AnswersRecorded,
                     TasksRecognised, HasEvent
<1> QED
  BY <1>3, <1>6, <1>7, <1>8, <1>9, <1>10 DEF Next, Ingest

\* The invariant holds of every behaviour.
THEOREM Invariance == Spec => []IInv
<1>1. Init => IInv
  BY InitIInv
<1>2. IInv /\ [Next]_vars => IInv'
  BY StepIInv
<1> QED
  BY <1>1, <1>2, PTL DEF Spec

\* The variables have their types (adapters/ingress.py).
THEOREM TypeCorrect == Spec => []TypeOK
<1>1. IInv => TypeOK
  BY DEF IInv
<1> QED
  BY <1>1, Invariance, PTL

\* Different requests are never answered with the same task, whatever slugs
\* they have (adapters/ingress.py, the idempotency lookup of ingest).
THEOREM RequestsShareNothing == Spec => []RequestsDoNotShareTasks
<1>1. ASSUME IInv PROVE RequestsDoNotShareTasks
  <2> SUFFICES ASSUME NEW a \in answers, NEW b \in answers, a.task = b.task,
                      {a.request, b.request} \cap ApiKeys = {}, ~rolledBack
               PROVE  a.request = b.request
    BY DEF RequestsDoNotShareTasks
  <2>1. a.request \in Own /\ b.request \in Own
    BY <1>1 DEF IInv, TypeOK, Answers, Own
  <2>2. /\ [task |-> a.task, key |-> a.request] \in disk.events
        /\ [task |-> b.task, key |-> b.request] \in disk.events
    BY <1>1 DEF IInv, Undisturbed, AnswersRecorded
  <2>3. SoundDatabase(disk)
    BY <1>1 DEF IInv, Undisturbed
  <2> QED
    BY <2>1, <2>2, <2>3 DEF SoundDatabase
<1> QED
  BY <1>1, Invariance, PTL

-------------------------------------------------------------------------------
(* Refinement.                                                             *)

Registered ==
  {[request |-> event.key, task |-> event.task] : event \in {e \in disk.events : e.key \in Own}}

Told == {a \in answers : a.request \in Own}

\* A commit of what is pending registers the request of the ingest, or nothing.
LEMMA CommitRegisters ==
  ASSUME TypeOK, Undisturbed, FirstIngest, disk' = work,
         NEW r \in Requests, NEW t \in TaskIds, r = current, t = Slug[current]
  PROVE  \/ UNCHANGED Registered
         \/ r \in Own /\ Registrations!Register(r, t)
<1> DEFINE own == [task |-> t, key |-> r]
<1>1. CASE work.events = disk.events
  BY <1>1 DEF Registered
<1>2. ASSUME work.events # disk.events
      PROVE  pc = "commit" /\ work.events = disk.events \cup {own} /\ own \notin disk.events
  BY <1>2 DEF Undisturbed, FirstIngest
<1>3. CASE work.events # disk.events /\ r \notin Own
  BY <1>2, <1>3 DEF Registered
<1>4. CASE work.events # disk.events /\ r \in Own
  <2>1. Registered' = Registered \cup {[request |-> r, task |-> t]}
    BY <1>2, <1>4 DEF Registered
  <2>2. ASSUME NEW entry \in Registered
        PROVE  entry.request # r /\ entry.task # t
    <3> PICK event \in disk.events : /\ event.key \in Own
                                     /\ entry = [request |-> event.key, task |-> event.task]
      BY DEF Registered
    <3>1. event \in work.events /\ own \in work.events /\ event # own
      BY <1>2, <1>4
    <3>2. event = [task |-> event.task, key |-> event.key]
      BY DEF TypeOK, Databases, Events
    <3>3. event.key # r
      BY <1>2, <1>4, <3>1, <3>2 DEF FirstIngest
    <3>4. event.task # t
      BY <1>4, <3>1, <3>3 DEF Undisturbed, SoundDatabase
    <3> QED
      BY <3>3, <3>4
  <2> QED
    BY <1>4, <2>1, <2>2 DEF Registrations!Register, Registered
<1> QED
  BY <1>1, <1>3, <1>4

LEMMA NextRegisters ==
  ASSUME IInv, [Next]_vars, ~rolledBack'
  PROVE  Registrations!RegistryNext \/ UNCHANGED Registrations!registry
<1>1. /\ TypeOK /\ NothingPending
      /\ current \in Requests
      /\ Slug[current] \in TaskIds
  BY IngressAssumption DEF IInv, TypeOK
<1>2. ~rolledBack
  BY DEF Next, Ingest, vars, ReplayIngest, BeginIngest, InsertTask, InsertFails,
         AppendCreated, CommitIngest, ApiCreates, ApiAppends, OtherThreadCommits,
         OtherThreadRollsBack, Crash
<1>3. Undisturbed /\ FirstIngest
  BY <1>2 DEF IInv
<1>4. ASSUME UNCHANGED Registered, UNCHANGED Told
      PROVE  UNCHANGED Registrations!registry
  BY <1>4 DEF Registered, Told, Registrations!registry
<1>5. ASSUME NEW r \in Requests, ReplayIngest(r)
      PROVE  Registrations!RegistryNext \/ UNCHANGED Registrations!registry
  <2>1. PICK event \in work.events :
          /\ event.key = r
          /\ answers' = answers \cup {[request |-> r, task |-> event.task, created |-> FALSE]}
    BY <1>5 DEF ReplayIngest, Answer
  <2>2. UNCHANGED Registered
    BY <1>5 DEF ReplayIngest, Registered
  <2>3. CASE r \notin Own
    <3>1. UNCHANGED Told
      BY <2>1, <2>3 DEF Told
    <3> QED
      BY <1>4, <2>2, <3>1
  <2>4. CASE r \in Own
    <3>1. event \in disk.events /\ event = [task |-> event.task, key |-> r]
          /\ event.task \in TaskIds
      BY <1>1, <1>5, <2>1 DEF ReplayIngest, NothingPending, TypeOK, Databases, Events
    <3>2. [request |-> r, task |-> event.task] \in Registered
      BY <2>4, <3>1 DEF Registered
    <3>3. Told' = Told \cup {[request |-> r, task |-> event.task, created |-> FALSE]}
      BY <2>1, <2>4 DEF Told
    <3>4. Registrations!Tell(r, event.task, FALSE)
      BY <2>2, <3>2, <3>3 DEF Registrations!Tell, Registered, Told
    <3> QED
      BY <2>2, <3>1, <3>4 DEF Registrations!RegistryNext, Registered
  <2> QED
    BY <2>3, <2>4
<1>6. CASE CommitIngest
  <2> PICK r \in Requests, t \in TaskIds : r = current /\ t = Slug[current]
    BY <1>1
  <2>1. /\ pc = "commit" /\ disk' = work
        /\ answers' = answers \cup {[request |-> r, task |-> t, created |-> TRUE]}
    BY <1>6 DEF CommitIngest, Goes, Answer
  <2>2. \/ UNCHANGED Registered
        \/ r \in Own /\ Registrations!Register(r, t)
    BY <1>1, <1>3, <2>1, CommitRegisters
  <2>3. CASE r \notin Own
    <3>1. UNCHANGED Told
      BY <2>1, <2>3 DEF Told
    <3> QED
      BY <1>4, <2>2, <2>3, <3>1
  <2>4. CASE r \in Own
    <3>1. [task |-> t, key |-> r] \in disk'.events
      BY <1>3, <2>1 DEF Undisturbed, IngestInProgress
    <3>2. [request |-> r, task |-> t] \in Registered'
      BY <2>4, <3>1 DEF Registered
    <3>3. Told' = Told \cup {[request |-> r, task |-> t, created |-> TRUE]}
      BY <2>1, <2>4 DEF Told
    <3>4. \A a \in Told : a.request # r
      BY <1>3, <2>1 DEF FirstIngest, Told
    <3>5. Registrations!Tell(r, t, TRUE)
      BY <3>2, <3>3, <3>4 DEF Registrations!Tell, Registered, Told
    <3> QED
      BY <2>2, <3>5 DEF Registrations!RegistryNext, Registered
  <2> QED
    BY <2>3, <2>4
<1>7. CASE OtherThreadCommits
  <2> PICK r \in Requests, t \in TaskIds : r = current /\ t = Slug[current]
    BY <1>1
  <2>1. disk' = work /\ UNCHANGED Told
    BY <1>7 DEF OtherThreadCommits, Told
  <2>2. \/ UNCHANGED Registered
        \/ Registrations!Register(r, t)
    BY <1>1, <1>3, <2>1, CommitRegisters
  <2>3. CASE UNCHANGED Registered
    BY <1>4, <2>1, <2>3
  <2>4. CASE Registrations!Register(r, t)
    BY <2>1, <2>4 DEF Registrations!RegistryNext, Told
  <2> QED
    BY <2>2, <2>3, <2>4
<1>8. ASSUME NEW t \in TaskIds, ApiCreates(t) \/ \E k \in ApiKeys : ApiAppends(t, k)
      PROVE  UNCHANGED Registrations!registry
  <2>1. disk = work /\ disk' = work' /\ UNCHANGED Told
    BY <1>1, <1>8 DEF ApiCreates, ApiAppends, NothingPending, Told
  <2>2. \A event : event.key \in Own => (event \in work'.events <=> event \in work.events)
    BY <1>1, <1>8, ApiWrites DEF Own
  <2>3. UNCHANGED Registered
    BY <2>1, <2>2 DEF Registered
  <2> QED
    BY <1>4, <2>1, <2>3
<1>9. CASE \/ \E r \in Requests : BeginIngest(r)
           \/ InsertTask \/ InsertFails \/ AppendCreated \/ Crash \/ UNCHANGED vars
  <2>1. UNCHANGED <<disk, answers>>
    BY <1>9 DEF BeginIngest, InsertTask, InsertFails, AppendCreated, Crash, vars
  <2> QED
    BY <1>4, <2>1 DEF Registered, Told
<1>10. ~OtherThreadRollsBack
  BY DEF OtherThreadRollsBack
<1> QED
  BY <1>5, <1>6, <1>7, <1>8, <1>9, <1>10 DEF Next, Ingest

\* A request is registered once and for ever, for a task of its own, and its
\* answers follow (adapters/ingress.py, ingest).
THEOREM RegistryRefinement == Spec => ImplementsRegistry
<1>1. IInv /\ [Next]_vars =>
        [~rolledBack' => Registrations!RegistryNext \/ UNCHANGED Registrations!registry]_vars
  BY NextRegisters
<1> QED
  BY <1>1, Invariance, PTL DEF Spec, ImplementsRegistry

\* A behaviour without a rollback by the maintenance thread is one of Registry.
THEOREM UndisturbedRefinement == Spec /\ []~rolledBack => Registrations!RegistrySpec
<1>1. Init => Registrations!RegistryInit
  BY DEF Init, Registrations!RegistryInit
<1>2. IInv /\ (~rolledBack)' /\ [Next]_vars
        => [Registrations!RegistryNext]_(Registrations!registry)
  BY NextRegisters
<1> QED
  BY <1>1, <1>2, Invariance, PTL DEF Spec, Registrations!RegistrySpec

\* "Created" is only ever said of a task on disk with the event that
\* recognises its retries (adapters/ingress.py, the commit of ingest).
THEOREM CreatedStaysDurable == Spec => []CreatedIsDurable
<1>1. IInv => CreatedIsDurable
  BY DEF IInv, Undisturbed, AnswersRecorded, CreatedIsDurable
<1> QED
  BY <1>1, Invariance, PTL

\* Without a crash and a rollback no task is left on disk without its event
\* (adapters/ingress.py, the two INSERTs of ingest).
THEOREM HalfTasksNeedCrash == Spec => []HalfTaskNeedsCrash
<1>1. ASSUME IInv PROVE HalfTaskNeedsCrash
  <2> SUFFICES ASSUME NEW t \in disk.tasks \ fromApi, ~(crashes > 0), ~rolledBack
               PROVE  \/ HasEvent(disk, t)
                      \/ pc \in {"event", "commit"} /\ Slug[current] = t
    BY DEF HalfTaskNeedsCrash, HasEvent
  <2>1. crashes = 0
    BY <1>1 DEF IInv, TypeOK
  <2> QED
    BY <1>1, <2>1 DEF IInv, Undisturbed, TasksRecognised
<1> QED
  BY <1>1, Invariance, PTL
===============================================================================
