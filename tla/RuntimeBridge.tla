------------------------------ MODULE RuntimeBridge ------------------------------
(***************************************************************************)
(* Module Sidecar with its two runtime bridges (openclaw_runtime.py).      *)
(*                                                                         *)
(* The HTTP bridge hands an invocation to a runtime that answers on its    *)
(* own, through the result callback.  The CLI bridge runs the agent as a   *)
(* child process, waits for it, and posts its answer to the sidecar's own  *)
(* result callback, all of it in the maintenance thread and within         *)
(* submit_invoke; the HTTP thread serves that request meanwhile, or later, *)
(* when the bridge no longer waits.                                        *)
(*                                                                         *)
(* Sidecar lets submit_invoke return or raise at will and the runtime      *)
(* answer at any time.  Here each of these has its cause, and every step   *)
(* is one of Sidecar's or leaves its variables alone.                      *)
(***************************************************************************)
EXTENDS SidecarProps

VARIABLES
  config,  \* what _build_runtime_bridge found in the configuration
  stage,   \* how far submit_invoke has come
  reply,   \* the result payload it posts
  posted,  \* callback requests the HTTP thread has not served yet
  heard,   \* the HTTP response to the request submit_invoke waits for
  worked   \* invocations an agent was started for (history)

bridge     == <<config, stage, reply, posted, heard, worked>>
bridgeVars == <<vars, bridge>>

\* callback: the CLI bridge has a result_callback_url; token: there is a
\* hooks_token, which it sends and _authorize_openclaw_hook asks for.  The
\* runtime behind the HTTP bridge needs neither: it can post to /runtime/result.
Configs == [kind : {"cli"},  callback : BOOLEAN, token : BOOLEAN]
             \cup [kind : {"http"}, callback : {FALSE}, token : {FALSE}]

Stages == {"idle", "agent", "post", "wait"}

\* _parse_role_output: a text that is no answer of the role is "failed".
Replies == [status : {"succeeded", "failed"}, decision : Decisions]

NoReply == [status |-> "failed", decision |-> "reject"]

Responses == {"none", "accepted", "refused"}

BridgeInit ==
  /\ Init
  /\ config \in Configs
  /\ stage  = "idle"
  /\ reply  = NoReply
  /\ posted = [t \in Tasks |-> {}]
  /\ heard  = "none"
  /\ worked = [t \in Tasks |-> {}]

-------------------------------------------------------------------------------
(* Maintenance thread: how submit_invoke fails.                            *)

\* The kinds of OpenClawRequestError raised with retryable=True; "rate_limited" is
\* a client_error with status 429.  "unexpected_error", below, is the dispatcher's
\* name for any other exception.
Retryable == {"rate_limited", "server_error", "timeout", "connection_error"}

\* _submission_recovery_action.
RecoveryAction(failure) ==
  CASE failure = "configuration_error" -> "block"
    [] failure \in Retryable           -> "retry"
    [] OTHER                           -> "hold"

Raise(failure) ==
  /\ SubmitRaises(RecoveryAction(failure))
  /\ stage' = "idle"
  /\ reply' = NoReply
  /\ heard' = "none"
  /\ UNCHANGED <<config, posted, worked>>

-------------------------------------------------------------------------------
(* Maintenance thread: submit_invoke of the HTTP bridge.                   *)

HttpReceived == config.kind = "http" /\ RuntimeReceives /\ UNCHANGED bridge

HttpAccepted == config.kind = "http" /\ SubmitReturns /\ UNCHANGED bridge

\* The runtime may have got the invocation all the same.
HttpFails ==
  /\ config.kind = "http"
  /\ \E failure \in Retryable \cup {"client_error", "unexpected_error"} : Raise(failure)

\* External: the runtime posts results when it likes.
HttpResults == config.kind = "http" /\ Callbacks /\ UNCHANGED bridge

-------------------------------------------------------------------------------
(* Maintenance thread: submit_invoke of the CLI bridge.                    *)

CliSubmits == config.kind = "cli" /\ pc = "submit" /\ stage = "idle"

\* No callback url.
NoCallbackUrl == CliSubmits /\ ~config.callback /\ Raise("configuration_error")

\* FileNotFoundError, or any other OSError of subprocess.run.
CannotStartAgent ==
  /\ CliSubmits
  /\ config.callback
  /\ \E failure \in {"configuration_error", "unexpected_error"} : Raise(failure)

StartAgent ==
  /\ CliSubmits
  /\ config.callback
  /\ stage' = "agent"
  /\ worked' = [worked EXCEPT ![job.task] = @ \cup {job.invoke}]
  /\ UNCHANGED <<vars, config, reply, posted, heard>>

\* Plausible fault: a failing agent is taken for a missing one.
AgentFailsAsMissing ==
  /\ stage = "agent"
  /\ \E failure \in {"timeout", "configuration_error"} : Raise(failure)

\* The child runs out of time; exits with an error or reports a status other
\* than ok; prints no JSON; prints what is no UTF-8.
AgentFails ==
  /\ stage = "agent"
  /\ \E failure \in {"timeout", "runtime_error", "payload_error", "unexpected_error"} :
       Raise(failure)

\* The agent answers; only a reviewer's answer has a decision.
AgentAnswers ==
  /\ stage = "agent"
  /\ \E r \in Replies :
       /\ job.role # "reviewer" \/ r.status = "failed" => r.decision = "reject"
       /\ reply' = r
  /\ stage' = "post"
  /\ UNCHANGED <<vars, config, posted, heard, worked>>

\* The sidecar's own HTTP server cannot be reached.
CallbackUnreachable ==
  /\ stage = "post"
  /\ Raise("connection_error")

PostCallback ==
  /\ stage = "post"
  /\ RuntimeReceives
  /\ posted' = [posted EXCEPT ![job.task] =
                  @ \cup {[invoke |-> job.invoke, reply |-> reply]}]
  /\ stage' = "wait"
  /\ UNCHANGED <<config, reply, heard, worked>>

\* Plausible fault: the response is not waited for.
ReturnWithoutResponse ==
  /\ stage = "wait"
  /\ SubmitReturns
  /\ stage' = "idle"
  /\ reply' = NoReply
  /\ heard' = "none"
  /\ UNCHANGED <<config, posted, worked>>

\* 2xx: submit_invoke returns.
CallbackAccepted ==
  /\ stage = "wait"
  /\ heard = "accepted"
  /\ SubmitReturns
  /\ stage' = "idle"
  /\ reply' = NoReply
  /\ heard' = "none"
  /\ UNCHANGED <<config, posted, worked>>

\* 4xx.
CallbackRefused ==
  /\ stage = "wait"
  /\ heard = "refused"
  /\ Raise("client_error")

\* No response in time; something in between answers 429 or 5xx; the connection
\* breaks; the body is not JSON.  The request may have been served, or may yet be.
CallbackLost ==
  /\ stage = "wait"
  /\ \E failure \in Retryable \cup {"unexpected_error", "callback_payload_error"} :
       Raise(failure)

SubmitInvoke ==
  \/ HttpReceived \/ HttpAccepted \/ HttpFails
  \/ NoCallbackUrl
  \/ CannotStartAgent
  \/ StartAgent
  \/ AgentFails
  \/ AgentAnswers
  \/ CallbackUnreachable
  \/ PostCallback
  \/ CallbackAccepted
  \/ CallbackRefused
  \/ CallbackLost

-------------------------------------------------------------------------------
(* HTTP thread: POST /hooks/openclaw/result.  The bridge posts a result    *)
(* once, so that apply_result never meets one it has applied already.      *)

\* Only the request submit_invoke waits for has somebody to hear the response.
Respond(t, request, response) ==
  heard' = IF stage = "wait" /\ job.task = t /\ job.invoke = request.invoke
           THEN response ELSE heard

\* Plausible fault: a request is delivered twice.
ServedTwice(t, request) ==
  /\ request \in posted[t]
  /\ UNCHANGED <<config, stage, reply, posted, worked>>

Served(t, request) ==
  /\ request \in posted[t]
  /\ posted' = [posted EXCEPT ![t] = @ \ {request}]
  /\ UNCHANGED <<config, stage, reply, worked>>

\* 401, before the body is read.
RejectUnauthorized(t, request) ==
  /\ taken = NoResult
  /\ Served(t, request)
  /\ ~config.token
  /\ Respond(t, request, "refused")
  /\ UNCHANGED vars

\* Plausible fault: the version the invocation was built for must still hold.
RefusableIfMoved(t, request) ==
  \/ ~CurrentInvoke(rows[t], request.invoke)
  \/ request.invoke.version # rows[t].version

\* The ValueErrors of apply_result: another dispatch is running, or a review
\* of a task that is no longer reviewed.
Refusable(t, request) ==
  \/ ~CurrentInvoke(rows[t], request.invoke)
  \/ /\ request.reply.status = "succeeded"
     /\ request.invoke.role = "reviewer"
     /\ rows[t].state # "reviewing"

RefuseResult(t, request) ==
  /\ taken = NoResult
  /\ Served(t, request)
  /\ config.token
  /\ Refusable(t, request)
  /\ Respond(t, request, "refused")
  /\ UNCHANGED vars

\* Plausible fault: whose dispatch is running is not looked at.
TakeAnyRequest(t, request) ==
  /\ request \in posted[t]
  /\ config.token
  /\ taken = NoResult
  /\ Room(t)
  /\ taken' = [task |-> t, invoke |-> request.invoke]
  /\ UNCHANGED <<database, received, maintenance, view, crashes, bridge>>

\* The state a review depends on changes no more before the transaction.
TakeRequest(t, request) ==
  /\ request \in posted[t]
  /\ config.token
  /\ ~Refusable(t, request)
  /\ TakeResult(t, request.invoke)
  /\ UNCHANGED bridge

AcceptResult(t, request) ==
  /\ Served(t, request)
  /\ ApplyResult(t, request.invoke, request.reply.status, request.reply.decision)
  /\ Respond(t, request, "accepted")

ServeCallback ==
  \E t \in Tasks : \E request \in posted[t] :
    \/ RejectUnauthorized(t, request)
    \/ RefuseResult(t, request)
    \/ TakeRequest(t, request)
    \/ AcceptResult(t, request)

-------------------------------------------------------------------------------
\* The steps of Sidecar the bridge has no part in.
Elsewhere ==
  /\ \/ Requests
     \/ StartCycle \/ SelectTimeouts \/ SelectRetries \/ SelectInflight \/ WriteRecovery
     \/ SelectReady \/ EndCycle
     \/ \E t \in batch : SkipTask(t) \/ ReadTask(t)
     \/ BuildInvoke \/ MarkRunning \/ CheckFailure \/ RecordFailure
  /\ UNCHANGED bridge

\* Connections and child processes die with the process.
BridgeCrash ==
  /\ CrashAndRestart
  /\ stage'  = "idle"
  /\ reply'  = NoReply
  /\ posted' = [t \in Tasks |-> {}]
  /\ heard'  = "none"
  /\ UNCHANGED <<config, worked>>

BridgeNext == SubmitInvoke \/ HttpResults \/ ServeCallback \/ Elsewhere \/ BridgeCrash

BridgeSpec == BridgeInit /\ [][BridgeNext]_bridgeVars

-------------------------------------------------------------------------------
(* Properties. *)

\* Types; submit_invoke is under way only while the dispatcher submits, and
\* what is on its way to the HTTP thread is an answer to an invocation that was
\* worked on, and one that is not applied yet.
BridgeTypeOK ==
  /\ config \in Configs
  /\ stage  \in Stages
  /\ reply  \in Replies
  /\ heard  \in Responses
  /\ worked \in [Tasks -> SUBSET Invokes]
  /\ stage # "idle" => pc = "submit" /\ job.invoke \in worked[job.task]
  /\ heard # "none" => stage = "wait"
  /\ \A t \in Tasks : \A request \in posted[t] :
       /\ request.reply \in Replies
       /\ request.invoke \in (received[t] \cap worked[t]) \ answered[t]

\* With their causes spelt out, the bridges do nothing that module Sidecar does
\* not allow for.
ImplementsSidecar == Spec

\* The loop of the CLI bridge is closed: a submission that is reported accepted
\* has its result in the database.
AcceptedIsApplied ==
  [][config.kind = "cli" /\ pc = "submit" /\ pc' = "pick"
       => job.invoke \in answered[job.task]]_bridgeVars

\* While submit_invoke waits nobody takes its row over or answers in its place:
\* the agent's answer is refused only for want of the token, or because a
\* reviewer's task has left reviewing, by a client or a human, in the meantime.
AgentsAreHeard ==
  heard = "refused" =>
    \/ ~config.token
    \/ job.role = "reviewer" /\ reply.status = "succeeded"

\* A task blocked for its configuration has cost no agent's work in the dispatch
\* that blocked it, so that unblocking it repeats nothing.
ConfigurationBlocksBeforeWork ==
  \A t \in Tasks : rows[t].waiting_on = "runtime_configuration" =>
    \A inv \in worked[t] : inv.attempt < rows[t].dispatch_attempts
================================================================================
