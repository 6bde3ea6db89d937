---------------------------- MODULE HttpCommand ----------------------------
(***************************************************************************)
(* HttpCommand.internalExecute (command/http/http_command.go): concurrent  *)
(* calls of one API through one resty client.                              *)
(*                                                                         *)
(* The first call installs the retry policy in the client under a          *)
(* sync.Once; resty then sends the request, asks the policy about each     *)
(* reply, waits and sends again, until the policy or the request context   *)
(* stops it; processResponse or handleError turns the last outcome into    *)
(* the answer.  Meanwhile Config.SetupDefaults, which every ReloadApi of   *)
(* any API runs, empties and refills the acceptable codes of this API      *)
(* under the feet of the calls: policy and processResponse each read them  *)
(* without a lock.                                                         *)
(*                                                                         *)
(* resty (v2.7.0) and the HTTP server are not in the repository.  What the *)
(* request contains is left out, whether it can be built is not.           *)
(***************************************************************************)
EXTENDS Integers, FiniteSets

CONSTANTS
    Calls,              \* concurrent calls of HttpCommand.Execute
    RetryCounts,        \* the values api.RetryCount may have, any integers
    Codes,              \* the status codes the server may reply
    AcceptableCodes,    \* the codes of api.AcceptableCodes
    MaxReloads          \* bound: rewrites of the acceptable codes

ASSUME HttpAssumption ==
    /\ RetryCounts \subseteq Int
    /\ Codes \subseteq Nat
    /\ AcceptableCodes \subseteq Codes
    /\ MaxReloads \in Nat

VARIABLES
    pc,         \* where each call is
    apiRetryCount,  \* api.RetryCount, which the first call reads
    once,       \* h.setRetryFuncOnce
    retryCount, \* client.RetryCount, 0 in a new resty client
    condition,  \* the policy is among client.RetryConditions
    codes,      \* api.acceptableCodes as a reader sees it now
    missing,    \* codes SetupDefaults has still to append
    reloads,    \* number of rewrites so far
    ctx,        \* the request context of each call
    attempt,    \* resty's attempt number, from 0
    sent,       \* history: requests of the call that were sent
    got,        \* outcome of the latest attempt: a code or an error
    answer      \* what internalExecute returned

vars == <<pc, apiRetryCount, once, retryCount, condition, codes, missing, reloads, ctx,
          attempt, sent, got, answer>>

(* The errors of an attempt: the client's own timeout, the context's       *)
(* deadline or cancellation, and any other transport error.                *)
Errors == {"timeout", "deadline", "cancelled", "refused"}

(* resty's Response.IsError.                                               *)
IsError(code) == code > 399

(* Outcomes of an attempt.                                                 *)
None == [code |-> 0, err |-> "none"]
Replied(code) == [code |-> code, err |-> "none"]
Failed(e) == [code |-> 0, err |-> e]

NoAnswer == [status |-> 0, err |-> "none"]

-----------------------------------------------------------------------------
Init ==
    /\ pc = [c \in Calls |-> "idle"]
    /\ apiRetryCount \in RetryCounts
    /\ once = "open"
    /\ retryCount = 0
    /\ condition = FALSE
    /\ codes = AcceptableCodes
    /\ missing = {}
    /\ reloads = 0
    /\ ctx = [c \in Calls |-> "live"]
    /\ attempt = [c \in Calls |-> 0]
    /\ sent = [c \in Calls |-> 0]
    /\ got = [c \in Calls |-> None]
    /\ answer = [c \in Calls |-> NoAnswer]

Goto(c, from, to) ==
    /\ pc[c] = from
    /\ pc' = [pc EXCEPT ![c] = to]

policy == <<apiRetryCount, once, retryCount, condition>>
config == <<codes, missing, reloads>>
data   == <<ctx, attempt, sent, got, answer>>

(* internalExecute enters buildRequest.                                    *)
Execute(c) ==
    /\ Goto(c, "idle", "build")
    /\ UNCHANGED <<policy, config, data>>

(* setRetryFuncOnce.Do, first caller: the retry count, then the condition. *)
(* A negative count installs nothing.                                      *)
EnterOnce(c) ==
    /\ once = "open"
    /\ once' = "running"
    /\ Goto(c, "build", "install")
    /\ UNCHANGED <<apiRetryCount, retryCount, condition, config, data>>

(* A bug: the count is taken for the number of sends. *)
InstallRetryCount_PlusOne(c) ==
    /\ apiRetryCount >= 0
    /\ Goto(c, "install", "installCondition")
    /\ retryCount' = apiRetryCount + 1
    /\ UNCHANGED <<apiRetryCount, once, condition, config, data>>

InstallRetryCount(c) ==
    /\ apiRetryCount >= 0
    /\ Goto(c, "install", "installCondition")
    /\ retryCount' = apiRetryCount
    /\ UNCHANGED <<apiRetryCount, once, condition, config, data>>

InstallCondition(c) ==
    /\ Goto(c, "installCondition", "ready")
    /\ condition' = TRUE
    /\ once' = "done"
    /\ UNCHANGED <<apiRetryCount, retryCount, config, data>>

(* A bug: the early return forgets that the installation is over. *)
InstallNothing_NeverDone(c) ==
    /\ apiRetryCount < 0
    /\ Goto(c, "install", "ready")
    /\ UNCHANGED <<policy, config, data>>

InstallNothing(c) ==
    /\ apiRetryCount < 0
    /\ Goto(c, "install", "ready")
    /\ once' = "done"
    /\ UNCHANGED <<apiRetryCount, retryCount, condition, config, data>>

(* A bug: a flag instead of a sync.Once, set when the first call starts. *)
PassOnce_NoWait(c) ==
    /\ once # "open"
    /\ Goto(c, "build", "ready")
    /\ UNCHANGED <<policy, config, data>>

(* setRetryFuncOnce.Do, every other caller: it waits for the first.        *)
PassOnce(c) ==
    /\ once = "done"
    /\ Goto(c, "build", "ready")
    /\ UNCHANGED <<policy, config, data>>

(* The body cannot be built (a GoxHttpError) or the interceptor fails (an  *)
(* error of another type): no response, nothing is sent.                   *)
BuildFails(c) ==
    /\ Goto(c, "ready", "returned")
    /\ \E e \in {"failed_to_build_request", "not_a_gox_http_error"} :
         answer' = [answer EXCEPT ![c] = [status |-> 0, err |-> e]]
    /\ UNCHANGED <<policy, config, ctx, attempt, sent, got>>

BuildSucceeds(c) ==
    /\ Goto(c, "ready", "send")
    /\ UNCHANGED <<policy, config, data>>

-----------------------------------------------------------------------------
(* One attempt.                                                            *)
Send(c) ==
    /\ ctx[c] = "live"
    /\ Goto(c, "send", "inflight")
    /\ sent' = [sent EXCEPT ![c] = @ + 1]
    /\ UNCHANGED <<policy, config, ctx, attempt, got, answer>>

(* The server replies, or the attempt fails: with the context's error when *)
(* the context is over, which also keeps a request from being sent.        *)
Reply(c) ==
    /\ Goto(c, "inflight", "judge")
    /\ \E code \in Codes : got' = [got EXCEPT ![c] = Replied(code)]
    /\ UNCHANGED <<policy, config, ctx, attempt, sent, answer>>

AttemptFails(c) ==
    /\ Goto(c, "inflight", "judge")
    /\ \E e \in IF ctx[c] = "live" THEN {"timeout", "refused"} ELSE {ctx[c]} :
         got' = [got EXCEPT ![c] = Failed(e)]
    /\ UNCHANGED <<policy, config, ctx, attempt, sent, answer>>

NotSent(c) ==
    /\ ctx[c] # "live"
    /\ Goto(c, "send", "judge")
    /\ got' = [got EXCEPT ![c] = Failed(ctx[c])]
    /\ UNCHANGED <<policy, config, ctx, attempt, sent, answer>>

-----------------------------------------------------------------------------
(* A bug: the policy wants every reply again. *)
WantsRetry_Always(c) == condition \/ got[c].err # "none"

(* resty's Backoff and the policy: anything but an acceptable code is      *)
(* wanted again.  Without the policy resty retries errors only.            *)
WantsRetry(c) == IF condition THEN got[c].code \notin codes
                              ELSE got[c].err # "none"

MayRetry(c) ==
    /\ retryCount # 0
    /\ ctx[c] = "live"
    /\ WantsRetry(c)
    /\ attempt[c] < retryCount

Retry(c) ==
    /\ MayRetry(c)
    /\ Goto(c, "judge", "waiting")
    /\ UNCHANGED <<policy, config, data>>

Settle(c) ==
    /\ ~MayRetry(c)
    /\ Goto(c, "judge", "finish")
    /\ UNCHANGED <<policy, config, data>>

WaitOver(c) ==
    /\ Goto(c, "waiting", "send")
    /\ attempt' = [attempt EXCEPT ![c] = @ + 1]
    /\ got' = [got EXCEPT ![c] = None]
    /\ UNCHANGED <<policy, config, ctx, sent, answer>>

(* The context ends during the wait: its error replaces the reply.         *)
WaitCut(c) ==
    /\ ctx[c] # "live"
    /\ Goto(c, "waiting", "finish")
    /\ got' = [got EXCEPT ![c] = Failed(ctx[c])]
    /\ UNCHANGED <<policy, config, ctx, attempt, sent, answer>>

-----------------------------------------------------------------------------
(* A net.Error that is a timeout becomes 408, any other error 400.         *)
handleError(e) ==
    IF e \in {"timeout", "deadline"}
    THEN [status |-> 408, err |-> "request_timeout_on_client"]
    ELSE [status |-> 400, err |-> "request_failed_on_client"]

(* A bug: acceptable error codes are not looked up. *)
processResponse_NoLookup(code, acceptable) ==
    IF IsError(code)
    THEN {[status |-> code, err |-> "server_response_with_error"]}
    ELSE [status : {code},
          err : {"none", "failed_to_build_response_using_response_builder"}]

(* The possible answers to a code: an error code that is not acceptable is *)
(* an error, everything else goes to the response builder of the request.  *)
processResponse(code, acceptable) ==
    IF IsError(code) /\ code \notin acceptable
    THEN {[status |-> code, err |-> "server_response_with_error"]}
    ELSE [status : {code},
          err : {"none", "failed_to_build_response_using_response_builder"}]

Finish(c) ==
    /\ Goto(c, "finish", "returned")
    /\ \E a \in IF got[c].err # "none" THEN {handleError(got[c].err)}
                 ELSE processResponse(got[c].code, codes) :
         answer' = [answer EXCEPT ![c] = a]
    /\ UNCHANGED <<policy, config, ctx, attempt, sent, got>>

-----------------------------------------------------------------------------
(* The deadline that goxHttpContextImpl.Execute sets, or the caller.       *)
ContextEnds(c) ==
    /\ pc[c] \notin {"idle", "returned"}
    /\ ctx[c] = "live"
    /\ \E why \in {"deadline", "cancelled"} : ctx' = [ctx EXCEPT ![c] = why]
    /\ UNCHANGED <<pc, policy, config, attempt, sent, got, answer>>

(* SetupDefaults: the list is replaced by an empty one and filled code by  *)
(* code.  A reader meanwhile sees some part of it.                         *)
StartRewrite ==
    /\ missing = {}
    /\ reloads < MaxReloads
    /\ reloads' = reloads + 1
    /\ codes' = {}
    /\ missing' = AcceptableCodes
    /\ UNCHANGED <<pc, policy, data>>

AppendCode ==
    /\ \E code \in missing :
         /\ codes' = codes \cup {code}
         /\ missing' = missing \ {code}
    /\ UNCHANGED <<pc, policy, reloads, data>>

Quiescent ==
    /\ \A c \in Calls : pc[c] = "returned"
    /\ missing = {}
    /\ UNCHANGED vars

Step(c) ==
    \/ EnterOnce(c) \/ InstallRetryCount(c) \/ InstallCondition(c)
    \/ InstallNothing(c) \/ PassOnce(c) \/ BuildFails(c) \/ BuildSucceeds(c)
    \/ Send(c) \/ AttemptFails(c) \/ NotSent(c)
    \/ Retry(c) \/ Settle(c) \/ WaitOver(c) \/ WaitCut(c) \/ Finish(c)

Next ==
    \/ \E c \in Calls : Execute(c) \/ Step(c) \/ Reply(c) \/ ContextEnds(c)
    \/ StartRewrite
    \/ AppendCode
    \/ Quiescent

(* A call that can go on does so.  The server need not reply (no fairness  *)
(* of Reply): the client timeout that NewHttpCommand sets ends the attempt.*)
Fairness == \A c \in Calls : WF_vars(Step(c))

Spec == Init /\ [][Next]_vars /\ Fairness

-----------------------------------------------------------------------------
(* Properties.                                                             *)

Running == {"send", "inflight", "judge", "waiting", "finish"}

ErrorCodes == {"none", "failed_to_build_request", "not_a_gox_http_error",
               "request_timeout_on_client", "request_failed_on_client",
               "server_response_with_error",
               "failed_to_build_response_using_response_builder"}

(* The type of every variable.                                             *)
TypeOK ==
    /\ pc \in [Calls -> {"idle", "build", "install", "installCondition",
                         "ready", "returned"} \cup Running]
    /\ once \in {"open", "running", "done"}
    /\ apiRetryCount \in RetryCounts
    /\ retryCount \in {0, apiRetryCount}
    /\ condition \in BOOLEAN
    /\ codes \subseteq AcceptableCodes
    /\ missing \subseteq AcceptableCodes
    /\ reloads \in 0 .. MaxReloads
    /\ ctx \in [Calls -> {"live", "deadline", "cancelled"}]
    /\ attempt \in [Calls -> Nat]
    /\ sent \in [Calls -> Nat]
    /\ got \in [Calls -> [code : Codes \cup {0}, err : Errors \cup {"none"}]]
    /\ answer \in [Calls -> [status : Codes \cup {0, 400, 408}, err : ErrorCodes]]

(* No call sends its request more often than once and RetryCount times     *)
(* again, whatever replies, errors, races for the sync.Once and rewrites   *)
(* of the codes it meets (api/http_command_get_test.go:298 tests one call).*)
BoundedSends ==
    \A c \in Calls : sent[c] <= (IF apiRetryCount > 0 THEN apiRetryCount ELSE 0) + 1

(* A call whose request may go out has the whole retry policy in front of  *)
(* it, also when another call is the one that installs it.                 *)
PolicyBeforeSend ==
    \A c \in Calls : pc[c] \in Running /\ apiRetryCount >= 0 =>
        condition /\ retryCount = apiRetryCount

(* Between reloads the acceptable codes decide: an acceptable reply is     *)
(* answered without server error even if its code is one of an error, an   *)
(* error reply that is not acceptable with that error.                     *)
AnswerFollowsCodes ==
    \A c \in Calls : pc[c] = "returned" /\ got[c].code # 0 /\ reloads = 0 =>
        (answer[c].err = "server_response_with_error"
            <=> IsError(got[c].code) /\ got[c].code \notin AcceptableCodes)

(* An acceptable reply ends the call: it is sent again only by a call that *)
(* reads the codes while SetupDefaults rewrites them.                      *)
AcceptableIsFinal ==
    [][\A c \in Calls :
         pc[c] = "judge" /\ pc'[c] = "waiting" /\ got[c].code \in AcceptableCodes
            => missing # {}]_vars

(* Every Execute returns, though the server may never reply.               *)
CallsReturn == \A c \in Calls : pc[c] = "build" ~> pc[c] = "returned"

(* http_command.go:210, "avoid retry if this status is acceptable".        *)
AcceptableNotRetried ==
    [][\A c \in Calls : pc[c] = "judge" /\ pc'[c] = "waiting"
            => got[c].code \notin AcceptableCodes]_vars
=============================================================================
