----------------------------- MODULE TypedCall ------------------------------
(***************************************************************************)
(* One call of ExecuteHttp or ExecuteHttpListResponse (api/helper.go) from *)
(* the server's reply, or whatever happens instead of one, up to the typed *)
(* response or GoxError its caller sees: the pairs of a GoxResponse and an *)
(* error that HttpCommand can return, what HttpHystrixCommand makes of     *)
(* them, and what processSuccess and processError make of those.  How a    *)
(* pair comes about is in HttpCommand and HystrixCommand; here the data is *)
(* richer: status codes and bodies.                                        *)
(***************************************************************************)
EXTENDS Integers

CONSTANTS
    Codes,              \* status codes of the server and of interceptors
    AcceptableCodes     \* api.AcceptableCodes

ASSUME TypedAssumption ==
    /\ Codes \subseteq 100 .. 599
    /\ AcceptableCodes \subseteq Codes

(* A body is absent, or parses as the success type, as the error type, or  *)
(* as neither.                                                             *)
Bodies == {"none", "success", "failure", "garbage"}

(* Pointers to a GoxResponse: status and body.  No response has status 0.  *)
Response(status, body) == [status |-> status, body |-> body]
NilResponse == Response(0, "none")

(* Errors: nil, a GoxHttpError with its status and code, anything else.    *)
GoxHttpError(status, code) == [kind |-> "gox", status |-> status, code |-> code]
PlainError == [kind |-> "plain", status |-> 0, code |-> "none"]
NilError == [kind |-> "nil", status |-> 0, code |-> "none"]

VARIABLES
    at,         \* how far the call is
    hystrix,    \* the API's command is a HttpHystrixCommand
    resp,       \* the response and ...
    err,        \* ... the error returned at this point
    came,       \* history: what happened to the request
    reply,      \* history: the server's reply
    out         \* what the caller of ExecuteHttp gets

vars == <<at, hystrix, resp, err, came, reply, out>>

(* The outcome: a success, a GoxError with a status, the error it wraps and*)
(* whether it has a payload, or a panic.                                   *)
NoOutcome == [kind |-> "none", status |-> 0, cause |-> NilError, body |-> "none"]
Success(status, body) ==
    [kind |-> "success", status |-> status, cause |-> NilError, body |-> body]
GoxError(status, cause, body) ==
    [kind |-> "error", status |-> status, cause |-> cause, body |-> body]
Panic == [kind |-> "panic", status |-> 0, cause |-> NilError, body |-> "none"]

Init ==
    /\ at = "context"
    /\ hystrix \in BOOLEAN
    /\ resp = NilResponse
    /\ err = NilError
    /\ came = "nothing"
    /\ reply = NilResponse
    /\ out = NoOutcome

(* The call moves on with this response and this error.                    *)
Yield(from, to, why, r, e) ==
    /\ at = from
    /\ at' = to
    /\ came' = why
    /\ resp' = r
    /\ err' = e
    /\ UNCHANGED <<hystrix, out>>

-----------------------------------------------------------------------------
(* goxHttpContextImpl.Execute does not know the API.                       *)
NotRegistered ==
    /\ Yield("context", "helper", "unknown", NilResponse,
             GoxHttpError(400, "command_not_found"))
    /\ UNCHANGED reply

(* hystrix runs the closure, refuses to, or gives up on it.                *)
Refused ==
    /\ hystrix
    /\ \E code \in {"hystrix_circuit_open", "hystrix_rejected"} :
         Yield("context", "helper", "refused", NilResponse, GoxHttpError(400, code))
    /\ UNCHANGED reply

Run ==
    /\ Yield("context", "command", "running", NilResponse, NilError)
    /\ UNCHANGED reply

TimedOut ==
    /\ hystrix
    /\ Yield("command", "helper", "timed out", NilResponse,
             GoxHttpError(400, "hystrix_timeout"))
    /\ UNCHANGED reply

-----------------------------------------------------------------------------
(* HttpCommand.Execute: a pre-request interceptor answers, anything at all;*)
(* buildRequest fails; the transport fails; the server replies.            *)
Intercepted ==
    /\ \E r \in {NilResponse} \cup [status : Codes, body : Bodies],
          e \in {NilError, PlainError} \cup {GoxHttpError(c, "user") : c \in Codes} :
         Yield("command", "returned", "intercepted", r, e)
    /\ UNCHANGED reply

CannotBuild ==
    /\ \E e \in {GoxHttpError(500, "failed_to_build_request"), PlainError} :
         Yield("command", "returned", "not built", NilResponse, e)
    /\ UNCHANGED reply

(* handleError.                                                            *)
ClientErrors ==
    {GoxHttpError(408, "request_timeout_on_client"),
     GoxHttpError(400, "request_failed_on_client")}

TransportFails ==
    /\ \E e \in ClientErrors :
         Yield("command", "returned", "transport", Response(e.status, "none"), e)
    /\ UNCHANGED reply

(* processResponse.                                                        *)
ReplyErrors(code) ==
    IF code > 399 /\ code \notin AcceptableCodes
    THEN {GoxHttpError(code, "server_response_with_error")}
    ELSE {NilError,
          GoxHttpError(code, "failed_to_build_response_using_response_builder")}

ServerReplies ==
    \E code \in Codes, body \in Bodies : \E e \in ReplyErrors(code) :
        /\ Yield("command", "returned", "replied", Response(code, body), e)
        /\ reply' = Response(code, body)

-----------------------------------------------------------------------------
(* HttpHystrixCommand.errorCreator makes a GoxHttpError of every error.    *)
errorCreator(e) ==
    IF e.kind = "plain" THEN GoxHttpError(400, "unknown_error") ELSE e

Return ==
    /\ Yield("returned", "helper", came, resp,
             IF hystrix THEN errorCreator(err) ELSE err)
    /\ UNCHANGED reply

(* The closure returns, but the timeout was faster: its late response is   *)
(* next to the error of the timeout.                                       *)
ReturnLate ==
    /\ hystrix
    /\ Yield("returned", "helper", "timed out", resp,
             GoxHttpError(400, "hystrix_timeout"))
    /\ UNCHANGED reply

-----------------------------------------------------------------------------
Is2xx(code) == code \in 200 .. 299

(* 204, or 200 with an empty body, need not parse; anything else must.     *)
processSuccess(r) ==
    CASE r.status = 204 \/ r = Response(200, "none") -> Success(204, "none")
      [] r.status # 204 /\ r.body = "success" -> Success(r.status, r.body)
      [] OTHER -> GoxError(r.status, PlainError, r.body)

(* A bug: the payload replaces the error it came with. *)
processError_NoCause(e, r) ==
    IF r.body # "none" THEN GoxError(r.status, NilError, r.body)
    ELSE IF e.kind = "gox"
         THEN GoxError(IF r = NilResponse THEN 500 ELSE r.status, e, "none")
         ELSE GoxError(500, e, "none")

(* A bug: an error without payload is always an internal server error. *)
processError_NoStatus(e, r) ==
    IF r.body # "none" THEN GoxError(r.status, e, r.body) ELSE GoxError(500, e, "none")

(* With a payload or a GoxHttpError the status is the response's, which is *)
(* 500 without a response; anything else is an internal server error.  The *)
(* error stays in the chain whether the payload parses or not.             *)
processError(e, r) ==
    IF r.body # "none" THEN GoxError(r.status, e, r.body)
    ELSE IF e.kind = "gox"
         THEN GoxError(IF r = NilResponse THEN 500 ELSE r.status, e, "none")
         ELSE GoxError(500, e, "none")

(* A bug: an error is only looked for where there is no response. *)
internalExecuteHttp_ResponseFirst ==
    /\ at = "helper"
    /\ at' = "done"
    /\ out' = IF resp # NilResponse /\ Is2xx(resp.status) THEN processSuccess(resp)
              ELSE IF err = NilError /\ resp = NilResponse THEN Panic
              ELSE processError(err, resp)
    /\ UNCHANGED <<hystrix, resp, err, came, reply>>

(* A bug: the response is looked at before the error. *)
internalExecuteHttp_NoErrCheck ==
    /\ at = "helper"
    /\ at' = "done"
    /\ out' = IF resp = NilResponse THEN Panic
              ELSE IF Is2xx(resp.status) /\ err = NilError THEN processSuccess(resp)
              ELSE processError(err, resp)
    /\ UNCHANGED <<hystrix, resp, err, came, reply>>

(* Without an error the response is looked at, also one that is not there. *)
internalExecuteHttp ==
    /\ at = "helper"
    /\ at' = "done"
    /\ out' = IF err # NilError THEN processError(err, resp)
              ELSE IF resp = NilResponse THEN Panic
              ELSE IF Is2xx(resp.status) THEN processSuccess(resp)
              ELSE processError(err, resp)
    /\ UNCHANGED <<hystrix, resp, err, came, reply>>

Done == at = "done" /\ UNCHANGED vars

Next ==
    \/ NotRegistered \/ Refused \/ Run \/ TimedOut
    \/ Intercepted \/ CannotBuild \/ TransportFails \/ ServerReplies
    \/ Return \/ ReturnLate
    \/ internalExecuteHttp
    \/ Done

Spec == Init /\ [][Next]_vars

-----------------------------------------------------------------------------
(* Properties.                                                             *)

Statuses == Codes \cup {204, 400, 408, 500}

errors == [kind : {"gox"}, status : Statuses,
           code : {"command_not_found", "hystrix_circuit_open", "hystrix_rejected",
                   "hystrix_timeout", "unknown_error", "user",
                   "failed_to_build_request", "request_timeout_on_client",
                   "request_failed_on_client", "server_response_with_error",
                   "failed_to_build_response_using_response_builder"}]
          \cup {PlainError, NilError}

(* The type of every variable; a success and a GoxError have a status.     *)
TypeOK ==
    /\ at \in {"context", "command", "returned", "helper", "done"}
    /\ hystrix \in BOOLEAN
    /\ resp \in [status : Statuses, body : Bodies] \cup {NilResponse}
    /\ err \in errors
    /\ came \in {"nothing", "unknown", "refused", "running", "timed out",
                 "intercepted", "not built", "transport", "replied"}
    /\ reply \in [status : Codes, body : Bodies] \cup {NilResponse}
    /\ out \in [kind : {"success", "error"}, status : Statuses,
                cause : errors, body : Bodies] \cup {NoOutcome, Panic}

(* Only an interceptor that stops a request with neither a response nor an *)
(* error makes ExecuteHttp dereference a response that is not there; no    *)
(* failure of hystrix, of the request or of the transport does.            *)
PanicNeedsEmptyStop == out.kind = "panic" => came = "intercepted"

(* The caller learns the server's status through all layers, from a        *)
(* success and from an error.  An empty 200 counts as 204, and only a      *)
(* redirection or an acceptable error without body is told as 500.         *)
StatusSurvives ==
    at = "done" /\ came = "replied" =>
        out.status = CASE reply = Response(200, "none") /\ err = NilError -> 204
                       [] ~Is2xx(reply.status) /\ reply.body = "none"
                              /\ err = NilError -> 500
                       [] OTHER -> reply.status

(* A call that hystrix refused or gave up on is an error to its caller, in *)
(* which errors.As still finds the hystrix error, even when a late response*)
(* came with it.                                                           *)
RefusalsStayVisible ==
    at = "done" /\ came \in {"refused", "timed out"} =>
        out.kind = "error" /\ out.cause = err

(* A success comes from an answer without error, and what it carries has   *)
(* been parsed as the success type unless it says that there is no content.*)
SuccessIsComplete ==
    out.kind = "success" =>
        /\ err = NilError
        /\ out.status = 204 \/ (resp.body = "success" /\ Is2xx(out.status))

(* api/helper_test.go:255: the GoxError of an error reply without body has *)
(* the status of the reply.                                                *)
BodylessErrorKeepsStatus ==
    at = "done" /\ came = "replied" /\ reply.status > 399 =>
        out.status = reply.status
=============================================================================
