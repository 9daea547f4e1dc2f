------------------------------ MODULE Transactions ------------------------------
(***************************************************************************)
(* What dispatcher, recovery, result adapter and runtime may take the      *)
(* database of a task for: each transaction happens at once or not at all. *)
(* Module Sidecar is written at this grain.                                *)
(*                                                                         *)
(* Module SharedConnection is shown to implement this specification as     *)
(* long as neither thread ends a transaction the other is in.              *)
(***************************************************************************)
EXTENDS Naturals

CONSTANT EmptyDatabase  \* a task nobody has worked on

VARIABLES
  db,        \* the committed row, event keys and effects of the task
  received,  \* invocations the runtime has got
  confirmed  \* results the runtime was told are applied

transactions == <<db, received, confirmed>>

TransactionsInit ==
  /\ db = EmptyDatabase
  /\ received = {}
  /\ confirmed = {}

\* The next attempt, for a version of the task that may have passed since.
Dispatch(version) ==
  LET inv == [version |-> version, attempt |-> db.attempts + 1]
  IN
  /\ ~db.running
  /\ db' = [db EXCEPT !.running = TRUE, !.attempts = inv.attempt, !.invoke = inv,
                      !.dispatches = @ \cup {inv}]
  /\ UNCHANGED <<received, confirmed>>

Release ==
  /\ db' = [db EXCEPT !.running = FALSE]
  /\ UNCHANGED <<received, confirmed>>

\* Only what is on record is submitted.
Submit(inv) ==
  /\ inv \in db.dispatches
  /\ received' = received \cup {inv}
  /\ UNCHANGED <<db, confirmed>>

\* The last dispatch failed to reach the runtime, or so it seemed: its result
\* may have been applied in between.
Fail(inv) ==
  /\ inv \in db.dispatches
  /\ inv.attempt = db.attempts
  /\ db' = [db EXCEPT !.running = FALSE, !.invoke = inv]
  /\ UNCHANGED <<received, confirmed>>

\* Key, effect and the closed dispatch of a result, once, and then the answer.
Apply(inv) ==
  /\ inv \in received \ db.results
  /\ db' = [db EXCEPT !.version = @ + 1, !.running = FALSE, !.invoke = inv,
                      !.results = @ \cup {inv}, !.effects = @ \cup {inv}]
  /\ confirmed' = confirmed \cup {inv}
  /\ UNCHANGED received

Replay(inv) ==
  /\ inv \in db.results
  /\ confirmed' = confirmed \cup {inv}
  /\ UNCHANGED <<db, received>>

TransactionsNext ==
  \/ \E version \in 0..db.version : Dispatch(version)
  \/ Release
  \/ \E inv \in db.dispatches : Submit(inv) \/ Fail(inv)
  \/ \E inv \in received : Apply(inv)
  \/ \E inv \in db.results : Replay(inv)

TransactionsSpec == TransactionsInit /\ [][TransactionsNext]_transactions
================================================================================
