------------------------------- MODULE Ingress -------------------------------
(***************************************************************************)
(* How outside requests become tasks (adapters/ingress.py).  A request_id  *)
(* is the idempotency key of the event that creates the task; the id of    *)
(* the task is a slug of it, and different request_ids may have the same   *)
(* slug.  The other tasks and keyed events come from the API (api.py).     *)
(*                                                                         *)
(* HTTP requests are serialised by http_service.py's _lock.  The           *)
(* maintenance thread is not, and ends transactions on the same            *)
(* connection: see module SharedConnection.                                *)
(***************************************************************************)
EXTENDS Naturals

CONSTANTS
  Requests,  \* request_ids
  ApiKeys,   \* idempotency keys that API clients send
  TaskIds,
  Slug,      \* _build_task_id
  MaxCrashes \* bound: restarts of the service

ASSUME IngressAssumption ==
  /\ Slug \in [Requests -> TaskIds]
  /\ MaxCrashes \in Nat

VARIABLES
  disk,    \* what is committed
  work,    \* what the connection shows
  pc,      \* HTTP thread: the next statement of ingest
  current, \* HTTP thread: the request it ingests
  answers, \* what clients were answered
  crashes,
  (* History, read by the properties only. *)
  fromApi,   \* tasks the API created
  rolledBack \* the maintenance thread rolled an ingest back

vars == <<disk, work, pc, current, answers, crashes, fromApi, rolledBack>>

Keys == Requests \cup ApiKeys
Events == [task : TaskIds, key : Keys]
Databases == [tasks : SUBSET TaskIds, events : SUBSET Events]
Answers == [request : Requests, task : TaskIds, created : BOOLEAN]

Init ==
  /\ disk = [tasks |-> {}, events |-> {}]
  /\ work = [tasks |-> {}, events |-> {}]
  /\ pc = "idle"
  /\ current \in Requests
  /\ answers = {}
  /\ crashes = 0
  /\ fromApi = {}
  /\ rolledBack = FALSE

Goes(from, to) == pc = from /\ pc' = to

Answer(r, t, created) ==
  answers' = answers \cup {[request |-> r, task |-> t, created |-> created]}

-------------------------------------------------------------------------------
\* Plausible fault: the key of the event is returned in place of its task.
ReplayWithKey(r) ==
  /\ pc = "idle"
  /\ \E event \in work.events : event.key = r /\ Answer(r, event.key, FALSE)
  /\ UNCHANGED <<disk, work, pc, current, crashes, fromApi, rolledBack>>

\* SELECT ... WHERE idempotency_key = ? LIMIT 1: over the events of all tasks,
\* in no order.
ReplayIngest(r) ==
  /\ pc = "idle"
  /\ \E event \in work.events : event.key = r /\ Answer(r, event.task, FALSE)
  /\ UNCHANGED <<disk, work, pc, current, crashes, fromApi, rolledBack>>

BeginIngest(r) ==
  /\ Goes("idle", "insert")
  /\ \A event \in work.events : event.key # r
  /\ current' = r
  /\ UNCHANGED <<disk, work, answers, crashes, fromApi, rolledBack>>

\* Plausible fault: INSERT OR IGNORE.
InsertOrIgnore ==
  /\ Goes("insert", "event")
  /\ work' = [work EXCEPT !.tasks = @ \cup {Slug[current]}]
  /\ UNCHANGED <<disk, current, answers, crashes, fromApi, rolledBack>>

InsertTask ==
  /\ Goes("insert", "event")
  /\ Slug[current] \notin work.tasks
  /\ work' = [work EXCEPT !.tasks = @ \cup {Slug[current]}]
  /\ UNCHANGED <<disk, current, answers, crashes, fromApi, rolledBack>>

\* The primary key is taken.  The IntegrityError is no ValueError: the handler
\* dies and the client gets no answer.
InsertFails ==
  /\ Goes("insert", "idle")
  /\ Slug[current] \in work.tasks
  /\ UNCHANGED <<disk, work, current, answers, crashes, fromApi, rolledBack>>

\* Plausible fault: the event gets no idempotency key.
AppendUnkeyed ==
  /\ Goes("event", "commit")
  /\ UNCHANGED <<disk, work, current, answers, crashes, fromApi, rolledBack>>

AppendCreated ==
  /\ Goes("event", "commit")
  /\ work' = [work EXCEPT !.events = @ \cup {[task |-> Slug[current], key |-> current]}]
  /\ UNCHANGED <<disk, current, answers, crashes, fromApi, rolledBack>>

\* Plausible fault: the commit is left to whoever commits next.
AnswerWithoutCommit ==
  /\ Goes("commit", "idle")
  /\ Answer(current, Slug[current], TRUE)
  /\ UNCHANGED <<disk, work, current, crashes, fromApi, rolledBack>>

CommitIngest ==
  /\ Goes("commit", "idle")
  /\ disk' = work
  /\ Answer(current, Slug[current], TRUE)
  /\ UNCHANGED <<work, current, crashes, fromApi, rolledBack>>

-------------------------------------------------------------------------------
\* POST /tasks, in one transaction.
ApiCreates(t) ==
  /\ pc = "idle"
  /\ t \notin work.tasks
  /\ work' = [work EXCEPT !.tasks = @ \cup {t}]
  /\ disk' = work'
  /\ fromApi' = fromApi \cup {t}
  /\ UNCHANGED <<pc, current, answers, crashes, rolledBack>>

\* Any other operation on a task, with an idempotency key.
ApiAppends(t, k) ==
  /\ pc = "idle"
  /\ t \in work.tasks
  /\ [task |-> t, key |-> k] \notin work.events
  /\ work' = [work EXCEPT !.events = @ \cup {[task |-> t, key |-> k]}]
  /\ disk' = work'
  /\ UNCHANGED <<pc, current, answers, crashes, fromApi, rolledBack>>

\* The maintenance thread ends a transaction while the HTTP thread is in one.
OtherThreadCommits ==
  /\ disk' = work
  /\ UNCHANGED <<work, pc, current, answers, crashes, fromApi, rolledBack>>

OtherThreadRollsBack ==
  /\ work # disk
  /\ work' = disk
  /\ rolledBack' = TRUE
  /\ UNCHANGED <<disk, pc, current, answers, crashes, fromApi>>

Crash ==
  /\ crashes < MaxCrashes
  /\ crashes' = crashes + 1
  /\ work' = disk
  /\ pc' = "idle"
  /\ UNCHANGED <<disk, current, answers, fromApi, rolledBack>>

Ingest ==
  \/ \E r \in Requests : ReplayIngest(r) \/ BeginIngest(r)
  \/ InsertTask \/ InsertFails \/ AppendCreated \/ CommitIngest

Next ==
  \/ Ingest
  \/ \E t \in TaskIds : ApiCreates(t) \/ \E k \in ApiKeys : ApiAppends(t, k)
  \/ OtherThreadCommits \/ OtherThreadRollsBack \/ Crash

Spec == Init /\ [][Next]_vars

-------------------------------------------------------------------------------
TypeOK ==
  /\ disk \in Databases
  /\ work \in Databases
  /\ pc \in {"idle", "insert", "event", "commit"}
  /\ current \in Requests
  /\ answers \subseteq Answers
  /\ crashes \in Nat
  /\ fromApi \subseteq TaskIds
  /\ rolledBack \in BOOLEAN

\* Different requests are never answered with the same task, in spite of equal
\* slugs, retries after crashes, and transactions ended by the other thread,
\* as long as API clients do not send the request_id as their key and no
\* ingest was rolled back by the maintenance thread.
RequestsDoNotShareTasks ==
  \A a, b \in answers :
    a.task = b.task /\ {a.request, b.request} \cap ApiKeys = {} /\ ~rolledBack
      => a.request = b.request

\* Requests whose request_id no API client sends as a key.
Own == Requests \ ApiKeys

Registrations == INSTANCE Registry WITH
  registered <- {[request |-> event.key, task |-> event.task] :
                   event \in {e \in disk.events : e.key \in Own}},
  told <- {a \in answers : a.request \in Own}

\* Of every step: as long as the maintenance thread rolls no ingest back, the
\* events on disk register a request once and for ever, and answers follow
\* them, in spite of equal slugs, retries, crashes in the middle of an ingest,
\* and commits of the other thread there.
ImplementsRegistry ==
  [][~rolledBack' => \/ Registrations!RegistryNext
                     \/ UNCHANGED Registrations!registry]_vars

\* A client is told "created" only of a task that is on disk together with the
\* event that recognises its retries; only a rollback by the maintenance
\* thread can make that untrue.
CreatedIsDurable ==
  \A a \in answers :
    a.created /\ ~rolledBack =>
      /\ a.task \in disk.tasks
      /\ [task |-> a.task, key |-> a.request] \in disk.events

\* A request whose task exists without its event can never be accepted again.
\* Such a task is left only when the maintenance thread commits the first half
\* of an ingest and the service then dies, or the second half is rolled back.
HalfTaskNeedsCrash ==
  \A t \in disk.tasks \ fromApi :
    \/ \E event \in disk.events : event.task = t /\ event.key \in Requests /\ Slug[event.key] = t
    \/ crashes > 0 \/ rolledBack
    \/ pc \in {"event", "commit"} /\ Slug[current] = t
===============================================================================
