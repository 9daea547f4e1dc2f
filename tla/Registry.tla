-------------------------------- MODULE Registry --------------------------------
(***************************************************************************)
(* What the ingress promises of requests: a request is registered once and *)
(* for ever, for a task no other request is registered for; every answer   *)
(* names the task its request is registered for; and only the first answer *)
(* to a request may say that its task was created.                         *)
(*                                                                         *)
(* Module Ingress is shown to implement this specification as long as the  *)
(* maintenance thread rolls no ingest back, for the requests whose         *)
(* request_id is nobody else's key.                                        *)
(***************************************************************************)
CONSTANTS Requests, TaskIds

VARIABLES
  registered,  \* pairs of a request and its task
  told         \* answers

registry == <<registered, told>>

RegistryInit == registered = {} /\ told = {}

Register(r, t) ==
  /\ \A entry \in registered : entry.request # r /\ entry.task # t
  /\ registered' = registered \cup {[request |-> r, task |-> t]}

Tell(r, t, created) ==
  /\ [request |-> r, task |-> t] \in registered'
  /\ created => \A answer \in told : answer.request # r
  /\ told' = told \cup {[request |-> r, task |-> t, created |-> created]}

\* A request may be registered and its client get no answer.
RegistryNext ==
  \E r \in Requests, t \in TaskIds :
    \/ Register(r, t) /\ (UNCHANGED told \/ Tell(r, t, TRUE))
    \/ UNCHANGED registered /\ \E created \in BOOLEAN : Tell(r, t, created)

RegistrySpec == RegistryInit /\ [][RegistryNext]_registry
================================================================================
