----------------------------- MODULE TaskLifecycle -----------------------------
(***************************************************************************)
(* What the task kernel promises about one task, whoever drives it: the    *)
(* state moves only along the edges of the state machine, a terminal state *)
(* is final, a task becomes done only from reviewing, the review round     *)
(* counts at most one decision per departure from reviewing, and whatever  *)
(* changes state or round raises the version, so that a client that still  *)
(* holds the current version still knows the state.                        *)
(*                                                                         *)
(* Module Sidecar is shown to implement this specification.                *)
(***************************************************************************)
EXTENDS Naturals, TaskStates

CONSTANTS Tasks,       \* task ids
          SeedStates   \* states a caller may create a task in

VARIABLES state, round, version

lifecycle == <<state, round, version>>

LifecycleInit ==
  /\ state   = [t \in Tasks |-> Absent]
  /\ round   = [t \in Tasks |-> 0]
  /\ version = [t \in Tasks |-> 0]

Create(t) ==
  /\ state[t] = Absent
  /\ \E s \in SeedStates : state' = [state EXCEPT ![t] = s]
  /\ version' = [version EXCEPT ![t] = 1]
  /\ UNCHANGED round

\* One edge of the state machine; leaving reviewing may record a decision.
Move(t) ==
  /\ \E s \in States :
       /\ IsValidTransition(state[t], s)
       /\ state' = [state EXCEPT ![t] = s]
  /\ version' = [version EXCEPT ![t] = @ + 1]
  /\ \/ UNCHANGED round
     \/ /\ state[t] = "reviewing"
        /\ state'[t] \in {"done", "rework"}
        /\ round' = [round EXCEPT ![t] = @ + 1]

\* A result of the coordinator or of the executor takes two edges at once.
Handover(t) ==
  /\ \/ /\ state[t] = "inbox"
        /\ state' = [state EXCEPT ![t] = "queued"]
     \/ /\ state[t] \in {"queued", "rework"}
        /\ state' = [state EXCEPT ![t] = "reviewing"]
  /\ version' = [version EXCEPT ![t] = @ + 2]
  /\ UNCHANGED round

\* A change of the row that leaves the state machine alone.
Touch(t) ==
  /\ state[t] # Absent
  /\ version' = [version EXCEPT ![t] = @ + 1]
  /\ UNCHANGED <<state, round>>

LifecycleNext == \E t \in Tasks : Create(t) \/ Move(t) \/ Handover(t) \/ Touch(t)

LifecycleSpec == LifecycleInit /\ [][LifecycleNext]_lifecycle
================================================================================
