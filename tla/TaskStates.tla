------------------------------ MODULE TaskStates ------------------------------
(***************************************************************************)
(* The task state machine of sidecar/state_machine.py: the states of       *)
(* contracts.py, the allowed transitions, the role that owns each state,   *)
(* who may take a transition, and the one-time rework priority flags.      *)
(* Constant operators only: every other module is built on these.          *)
(***************************************************************************)

States == {"inbox", "triaging", "queued", "executing",
           "reviewing", "rework", "done", "cancelled"}

Terminal == {"done", "cancelled"}

\* A row that was never inserted; not a state of the program.
Absent == "absent"

Roles == {"coordinator", "executor", "reviewer"}

\* SQL NULL in a role column.
NoRole == "none"

\* _ALLOWED_TRANSITIONS, as a set of edges.
AllowedTransitions ==
  {<<"inbox", "triaging">>, <<"triaging", "queued">>, <<"queued", "executing">>,
   <<"executing", "reviewing">>, <<"reviewing", "done">>, <<"reviewing", "rework">>,
   <<"rework", "executing">>}
    \cup {<<s, "cancelled">> : s \in States \ Terminal}

IsValidTransition(old, new) == <<old, new>> \in AllowedTransitions

\* _STATE_OWNER_ROLE, and the equal table behind _role_for_state: a state
\* outside both tables (done, cancelled) has no role.
RoleForState(s) ==
  CASE s \in {"inbox", "triaging"}             -> "coordinator"
    [] s \in {"queued", "executing", "rework"} -> "executor"
    [] s = "reviewing"                         -> "reviewer"
    [] OTHER                                   -> NoRole

CanActorTransition(actor, old, new) ==
  /\ IsValidTransition(old, new)
  /\ old \notin Terminal
  /\ RoleForState(old) = actor

\* Plausible fault: every rework is granted the priority, not only the first.
PriorityAvailableAgain(old, new, available, used) ==
  CASE old = "reviewing" /\ new = "rework"    -> TRUE
    [] old = "rework"    /\ new = "executing" -> FALSE
    [] OTHER                                  -> available

\* apply_rework_priority_flags, one operator per flag it returns.
PriorityAvailable(old, new, available, used) ==
  CASE old = "reviewing" /\ new = "rework"    -> ~used
    [] old = "rework"    /\ new = "executing" -> FALSE
    [] OTHER                                  -> available

PriorityUsed(old, new, available, used) ==
  used \/ (old = "rework" /\ new = "executing" /\ available)
===============================================================================
