-------------------------------- MODULE Delivery --------------------------------
(***************************************************************************)
(* What the sidecar promises about the invocations of its tasks, whatever  *)
(* the runtime, the HTTP thread, recovery and crashes do: at most one      *)
(* invocation of a task is current; the next one begins only when none is, *)
(* under an id that was never used; recovery and failures may give the     *)
(* current one up; and the result of an invocation is taken once, late or  *)
(* not.                                                                    *)
(*                                                                         *)
(* Module Sidecar is shown to implement this specification.                *)
(***************************************************************************)
CONSTANTS Tasks,    \* task ids
          Invokes,  \* invoke ids
          NoInvoke  \* not an invoke id

VARIABLES
  issued,    \* invoke ids handed out
  answered,  \* invoke ids whose result was taken
  current    \* the invocation a task waits for, or NoInvoke

delivery == <<issued, answered, current>>

DeliveryInit ==
  /\ issued   = [t \in Tasks |-> {}]
  /\ answered = [t \in Tasks |-> {}]
  /\ current  = [t \in Tasks |-> NoInvoke]

Issue(t) ==
  /\ current[t] = NoInvoke
  /\ current'[t] \in Invokes \ issued[t]
  /\ current' = [current EXCEPT ![t] = current'[t]]
  /\ issued' = [issued EXCEPT ![t] = @ \cup {current'[t]}]
  /\ UNCHANGED answered

\* Recovery gives up several at once.
GiveUp(S) ==
  /\ current' = [t \in Tasks |-> IF t \in S THEN NoInvoke ELSE current[t]]
  /\ UNCHANGED <<issued, answered>>

\* Whatever was current is ended too: a result that comes when its own
\* invocation has been given up may meet the next one.
Answer(t) ==
  /\ \E i \in issued[t] \ answered[t] : answered' = [answered EXCEPT ![t] = @ \cup {i}]
  /\ current' = [current EXCEPT ![t] = NoInvoke]
  /\ UNCHANGED issued

DeliveryNext ==
  \/ \E t \in Tasks : Issue(t) \/ Answer(t)
  \/ \E S \in SUBSET Tasks : GiveUp(S)

DeliverySpec == DeliveryInit /\ [][DeliveryNext]_delivery
================================================================================
