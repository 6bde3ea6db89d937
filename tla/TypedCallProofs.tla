-------------------------- MODULE TypedCallProofs ---------------------------
(***************************************************************************)
(* Proofs about TypedCall, for any status codes and any acceptable codes.  *)
(*                                                                         *)
(* The inductive invariant follows the pair of response and error through  *)
(* the layers: which pairs there can be depends on what happened to the    *)
(* request, and the outcome is the one that internalExecuteHttp makes of   *)
(* the pair.                                                               *)
(***************************************************************************)
EXTENDS TypedCall, TLAPS

(* What internalExecuteHttp makes of a pair.                               *)
Outcome(e, r) ==
    IF e # NilError THEN processError(e, r)
    ELSE IF r = NilResponse THEN Panic
    ELSE IF Is2xx(r.status) THEN processSuccess(r)
    ELSE processError(e, r)

(* A pair is on its way, or there is none yet.                             *)
OnItsWay ==
    CASE at = "context" -> came = "nothing" /\ resp = NilResponse /\ err = NilError
      [] at = "command" -> came = "running" /\ resp = NilResponse /\ err = NilError
      [] OTHER -> came \notin {"nothing", "running"}

(* Only an interceptor answers with neither a response nor an error.       *)
PairFits ==
    /\ came \in {"unknown", "refused", "timed out", "not built", "transport"} =>
          err # NilError
    /\ came = "replied" =>
          /\ resp = reply
          /\ reply \in [status : Codes, body : Bodies]
          /\ err = NilError \/ err.kind = "gox"

OutFits == out = IF at = "done" THEN Outcome(err, resp) ELSE NoOutcome

IInv == TypeOK /\ OnItsWay /\ PairFits /\ OutFits

-----------------------------------------------------------------------------
LEMMA InitHolds == Init => IInv
BY DEF Init, IInv, TypeOK, OnItsWay, PairFits, OutFits, NilResponse, Response,
       errors, NoOutcome

(* A step that moves the pair on.                                          *)
LEMMA YieldKeeps ==
    ASSUME IInv, NEW from, NEW to, NEW why, NEW r, NEW e,
           Yield(from, to, why, r, e),
           to \in {"command", "returned", "helper"},
           why \in {"unknown", "refused", "running", "timed out", "intercepted",
                    "not built", "transport", "replied"},
           to = "command" <=> why = "running",
           to = "command" => r = NilResponse /\ e = NilError,
           from # "done",
           r \in [status : Statuses, body : Bodies] \cup {NilResponse},
           e \in errors,
           reply' \in [status : Codes, body : Bodies] \cup {NilResponse},
           why \in {"unknown", "refused", "timed out", "not built", "transport"}
              => e # NilError,
           why = "replied" =>
              /\ r = reply'
              /\ reply' \in [status : Codes, body : Bodies]
              /\ e = NilError \/ e.kind = "gox"
    PROVE  IInv'
<1>1. TypeOK'
  BY DEF IInv, TypeOK, Yield
<1>2. OnItsWay'
  BY DEF OnItsWay, Yield
<1>3. PairFits'
  BY DEF PairFits, Yield
<1>4. OutFits'
  BY DEF IInv, OutFits, Yield
<1> QED BY <1>1, <1>2, <1>3, <1>4 DEF IInv

(* The errors of this package are GoxHttpErrors.                           *)
LEMMA GoxErrorType ==
    ASSUME NEW status \in Statuses,
           NEW code \in {"command_not_found", "hystrix_circuit_open",
                   "hystrix_rejected", "hystrix_timeout", "unknown_error", "user",
                   "failed_to_build_request", "request_timeout_on_client",
                   "request_failed_on_client", "server_response_with_error",
                   "failed_to_build_response_using_response_builder"}
    PROVE  /\ GoxHttpError(status, code) \in errors
           /\ GoxHttpError(status, code) # NilError
           /\ GoxHttpError(status, code).kind = "gox"
BY DEF GoxHttpError, errors, NilError

LEMMA OtherErrors ==
    /\ PlainError \in errors /\ PlainError # NilError
    /\ NilError \in errors
BY DEF PlainError, NilError, errors

(* The steps of the layers below ExecuteHttp.                              *)
LEMMA CallKeeps ==
    ASSUME IInv,
           \/ NotRegistered \/ Refused \/ Run \/ TimedOut
           \/ Intercepted \/ CannotBuild \/ TransportFails \/ ServerReplies
           \/ Return \/ ReturnLate
    PROVE  IInv'
<1>0. /\ 400 \in Statuses /\ 408 \in Statuses /\ 500 \in Statuses
      /\ Codes \subseteq Statuses
      /\ reply \in [status : Codes, body : Bodies] \cup {NilResponse}
      /\ NilResponse \in [status : Statuses, body : Bodies] \cup {NilResponse}
  <2>1. 400 \in Statuses /\ 408 \in Statuses /\ 500 \in Statuses
        /\ Codes \subseteq Statuses
    BY DEF Statuses
  <2>2. reply \in [status : Codes, body : Bodies] \cup {NilResponse}
    BY DEF IInv, TypeOK
  <2>3. NilResponse \in [status : Statuses, body : Bodies] \cup {NilResponse}
    OBVIOUS
  <2> QED BY <2>1, <2>2, <2>3
<1>1. CASE NotRegistered
  <2> DEFINE e == GoxHttpError(400, "command_not_found")
  <2>1. e \in errors /\ e # NilError /\ e.kind = "gox"
    BY <1>0, GoxErrorType
  <2>2. Yield("context", "helper", "unknown", NilResponse, e) /\ reply' = reply
    BY <1>1 DEF NotRegistered
  <2> HIDE DEF e
  <2> QED BY <1>0, <2>1, <2>2, YieldKeeps
<1>2. CASE Refused
  <2>1. PICK code \in {"hystrix_circuit_open", "hystrix_rejected"} :
           Yield("context", "helper", "refused", NilResponse, GoxHttpError(400, code))
    BY <1>2 DEF Refused
  <2> DEFINE e == GoxHttpError(400, code)
  <2>2. e \in errors /\ e # NilError /\ e.kind = "gox"
    BY <1>0, GoxErrorType
  <2>3. Yield("context", "helper", "refused", NilResponse, e) /\ reply' = reply
    BY <1>2, <2>1 DEF Refused
  <2> HIDE DEF e
  <2> QED BY <1>0, <2>2, <2>3, YieldKeeps
<1>3. CASE Run
  <2>1. Yield("context", "command", "running", NilResponse, NilError) /\ reply' = reply
    BY <1>3 DEF Run
  <2> QED BY <1>0, <2>1, OtherErrors, YieldKeeps
<1>4. CASE TimedOut
  <2> DEFINE e == GoxHttpError(400, "hystrix_timeout")
  <2>1. e \in errors /\ e # NilError /\ e.kind = "gox"
    BY <1>0, GoxErrorType
  <2>2. Yield("command", "helper", "timed out", NilResponse, e) /\ reply' = reply
    BY <1>4 DEF TimedOut
  <2> HIDE DEF e
  <2> QED BY <1>0, <2>1, <2>2, YieldKeeps
<1>5. CASE Intercepted
  <2>1. PICK r \in {NilResponse} \cup [status : Codes, body : Bodies],
             e \in {NilError, PlainError} \cup {GoxHttpError(c, "user") : c \in Codes} :
             Yield("command", "returned", "intercepted", r, e)
    BY <1>5 DEF Intercepted
  <2>2. e \in errors
    BY <1>0, GoxErrorType, OtherErrors
  <2>3. r \in [status : Statuses, body : Bodies] \cup {NilResponse}
    BY <1>0
  <2> QED BY <1>0, <1>5, <2>1, <2>2, <2>3, YieldKeeps DEF Intercepted
<1>6. CASE CannotBuild
  <2>1. PICK e \in {GoxHttpError(500, "failed_to_build_request"), PlainError} :
           Yield("command", "returned", "not built", NilResponse, e)
    BY <1>6 DEF CannotBuild
  <2>2. e \in errors /\ e # NilError
    BY <1>0, GoxErrorType, OtherErrors
  <2>3. reply' = reply
    BY <1>6 DEF CannotBuild
  <2> QED BY <1>0, <2>1, <2>2, <2>3, YieldKeeps
<1>7. CASE TransportFails
  <2>1. PICK e \in ClientErrors :
             Yield("command", "returned", "transport", Response(e.status, "none"), e)
    BY <1>7 DEF TransportFails
  <2>2. e \in errors /\ e # NilError /\ e.status \in Statuses
    <3>1. PICK code \in {"request_timeout_on_client", "request_failed_on_client"},
               status \in {400, 408} : e = GoxHttpError(status, code)
      BY DEF ClientErrors
    <3>2. e.status = status
      BY <3>1 DEF GoxHttpError
    <3> QED BY <1>0, <3>1, <3>2, GoxErrorType
  <2>3. Response(e.status, "none") \in [status : Statuses, body : Bodies]
    BY <2>2 DEF Response, Bodies
  <2> QED BY <1>0, <1>7, <2>1, <2>2, <2>3, YieldKeeps DEF TransportFails
<1>8. CASE ServerReplies
  <2>1. PICK code \in Codes, body \in Bodies : \E e \in ReplyErrors(code) :
             /\ Yield("command", "returned", "replied", Response(code, body), e)
             /\ reply' = Response(code, body)
    BY <1>8 DEF ServerReplies
  <2>2. PICK e \in ReplyErrors(code) :
             /\ Yield("command", "returned", "replied", Response(code, body), e)
             /\ reply' = Response(code, body)
    BY <2>1
  <2>3. e \in errors /\ (e = NilError \/ e.kind = "gox")
    <3>1. \/ e = NilError
          \/ e = GoxHttpError(code, "server_response_with_error")
          \/ e = GoxHttpError(code, "failed_to_build_response_using_response_builder")
      BY DEF ReplyErrors
    <3> QED BY <1>0, <3>1, GoxErrorType, OtherErrors
  <2>4. Response(code, body) \in [status : Codes, body : Bodies]
    BY DEF Response
  <2>5. Response(code, body) \in [status : Statuses, body : Bodies]
    BY <1>0 DEF Response
  <2> QED BY <2>2, <2>3, <2>4, <2>5, YieldKeeps
<1>9. CASE Return
  <2> DEFINE e == IF hystrix THEN errorCreator(err) ELSE err
  <2>1. e \in errors /\ (err = NilError <=> e = NilError)
    <3>1. GoxHttpError(400, "unknown_error") \in errors
          /\ GoxHttpError(400, "unknown_error") # NilError
      BY <1>0, GoxErrorType
    <3>2. err \in errors /\ hystrix \in BOOLEAN
      BY DEF IInv, TypeOK
    <3> QED BY <3>1, <3>2 DEF errorCreator, NilError
  <2>2. err.kind = "gox" => e.kind = "gox"
    BY DEF errorCreator
  <2>3. at = "returned" /\ at' = "helper" /\ came' = came /\ resp' = resp /\ reply' = reply
    BY <1>9 DEF Return, Yield
  <2>4. came \in {"unknown", "refused", "timed out", "intercepted", "not built",
                  "transport", "replied"}
    BY <2>3 DEF IInv, OnItsWay, TypeOK
  <2>5. Yield("returned", "helper", came, resp, e)
    BY <1>9 DEF Return
  <2> HIDE DEF e
  <2> QED
    BY <1>0, <2>1, <2>2, <2>3, <2>4, <2>5, YieldKeeps DEF IInv, TypeOK, PairFits
<1>10. CASE ReturnLate
  <2> DEFINE e == GoxHttpError(400, "hystrix_timeout")
  <2>1. e \in errors /\ e # NilError /\ e.kind = "gox"
    BY <1>0, GoxErrorType
  <2>2. Yield("returned", "helper", "timed out", resp, e) /\ reply' = reply
    BY <1>10 DEF ReturnLate
  <2>3. resp \in [status : Statuses, body : Bodies] \cup {NilResponse}
    BY DEF IInv, TypeOK
  <2> HIDE DEF e
  <2> QED BY <1>0, <2>1, <2>2, <2>3, YieldKeeps
<1> QED BY <1>1, <1>2, <1>3, <1>4, <1>5, <1>6, <1>7, <1>8, <1>9, <1>10

-----------------------------------------------------------------------------
(* What processSuccess and processError return.                            *)
LEMMA OutcomeType ==
    ASSUME NEW e \in errors,
           NEW r \in [status : Statuses, body : Bodies] \cup {NilResponse}
    PROVE  Outcome(e, r) \in [kind : {"success", "error"}, status : Statuses,
                              cause : errors, body : Bodies] \cup {NoOutcome, Panic}
<1> USE OtherErrors DEF GoxError, Success
<1>1. r \in [status : Statuses, body : Bodies] \/ r = NilResponse
  OBVIOUS
<1>2. 500 \in Statuses /\ 204 \in Statuses /\ "none" \in Bodies /\ NilResponse.body = "none"
  BY DEF Statuses, Bodies, NilResponse, Response
<1>3. processError(e, r) \in [kind : {"success", "error"}, status : Statuses,
                              cause : errors, body : Bodies]
  BY <1>1, <1>2 DEF processError
<1>4. r # NilResponse =>
      processSuccess(r) \in [kind : {"success", "error"}, status : Statuses,
                             cause : errors, body : Bodies]
  BY <1>1, <1>2 DEF processSuccess
<1> QED BY <1>3, <1>4 DEF Outcome

LEMMA ExecuteKeeps ==
    ASSUME IInv, internalExecuteHttp
    PROVE  IInv'
<1>1. out' = Outcome(err, resp) /\ at' = "done"
  BY DEF internalExecuteHttp, Outcome
<1>2. TypeOK'
  BY <1>1, OutcomeType DEF IInv, TypeOK, internalExecuteHttp
<1>3. OnItsWay'
  BY DEF IInv, OnItsWay, internalExecuteHttp
<1>4. PairFits'
  BY DEF IInv, PairFits, internalExecuteHttp
<1>5. OutFits'
  BY <1>1 DEF OutFits, internalExecuteHttp
<1> QED BY <1>2, <1>3, <1>4, <1>5 DEF IInv

LEMMA StepKeeps == IInv /\ [Next]_vars => IInv'
<1> SUFFICES ASSUME IInv, [Next]_vars PROVE IInv'
  OBVIOUS
<1>1. CASE UNCHANGED vars
  <2>1. TypeOK'
    BY <1>1 DEF vars, IInv, TypeOK
  <2>2. OnItsWay' /\ PairFits'
    BY <1>1 DEF vars, IInv, OnItsWay, PairFits
  <2>3. OutFits'
    BY <1>1 DEF vars, IInv, OutFits
  <2> QED BY <2>1, <2>2, <2>3 DEF IInv
<1> QED BY <1>1, CallKeeps, ExecuteKeeps DEF Next, Done

(* The invariant that the theorems below rest on.                          *)
THEOREM Invariance == Spec => []IInv
<1> QED BY InitHolds, StepKeeps, PTL DEF Spec

-----------------------------------------------------------------------------
(* Every variable keeps its type.                                          *)
THEOREM TypeCorrectness == Spec => []TypeOK
<1>1. IInv => TypeOK
  BY DEF IInv
<1> QED BY <1>1, Invariance, PTL

(* ExecuteHttp dereferences a missing response only when an interceptor    *)
(* stopped the request with neither a response nor an error.               *)
THEOREM PanicsAreInterceptors == Spec => []PanicNeedsEmptyStop
<1>1. IInv => PanicNeedsEmptyStop
  <2> SUFFICES ASSUME IInv, out.kind = "panic" PROVE came = "intercepted"
    BY DEF PanicNeedsEmptyStop
  <2>1. at = "done" /\ out = Outcome(err, resp)
    BY DEF IInv, OutFits, NoOutcome
  <2>2. err = NilError /\ resp = NilResponse
    BY <2>1 DEF Outcome, processError, processSuccess, GoxError, Success
  <2>3. came # "replied"
    <3>1. came = "replied" => resp.status \in Codes
      BY DEF IInv, PairFits
    <3>2. resp.status = 0
      BY <2>2 DEF NilResponse, Response
    <3> QED BY <3>1, <3>2, TypedAssumption
  <2> QED BY <2>1, <2>2, <2>3 DEF IInv, TypeOK, OnItsWay, PairFits
<1> QED BY <1>1, Invariance, PTL

(* The status of the server's reply reaches the typed caller.              *)
THEOREM StatusReachesCaller == Spec => []StatusSurvives
<1>1. IInv => StatusSurvives
  <2> SUFFICES ASSUME IInv, at = "done", came = "replied"
               PROVE  out.status =
                        CASE reply = Response(200, "none") /\ err = NilError -> 204
                          [] ~Is2xx(reply.status) /\ reply.body = "none"
                                 /\ err = NilError -> 500
                          [] OTHER -> reply.status
    BY DEF StatusSurvives
  <2>1. /\ out = Outcome(err, reply)
        /\ reply \in [status : Codes, body : Bodies]
        /\ err = NilError \/ err.kind = "gox"
    BY DEF IInv, OutFits, PairFits
  <2>2. reply # NilResponse
    BY <2>1, TypedAssumption DEF NilResponse, Response
  <2>3. CASE err # NilError
    BY <2>1, <2>2, <2>3 DEF Outcome, processError, GoxError
  <2>4. CASE err = NilError /\ Is2xx(reply.status)
    BY <2>1, <2>2, <2>4 DEF Outcome, processSuccess, GoxError, Success, Response
  <2>5. CASE err = NilError /\ ~Is2xx(reply.status)
    BY <2>1, <2>2, <2>5
       DEF Outcome, processError, GoxError, NilError, Response, Is2xx
  <2> QED BY <2>3, <2>4, <2>5
<1> QED BY <1>1, Invariance, PTL

(* What hystrix refused or gave up on is an error of the typed caller that *)
(* still wraps the hystrix error.                                          *)
THEOREM RefusalsAreErrors == Spec => []RefusalsStayVisible
<1>1. IInv => RefusalsStayVisible
  <2> SUFFICES ASSUME IInv, at = "done", came \in {"refused", "timed out"}
               PROVE  out.kind = "error" /\ out.cause = err
    BY DEF RefusalsStayVisible
  <2>1. err # NilError
    BY DEF IInv, PairFits
  <2>2. out = processError(err, resp)
    BY <2>1 DEF IInv, OutFits, Outcome
  <2> QED BY <2>2 DEF processError, GoxError
<1> QED BY <1>1, Invariance, PTL

(* A success is one: no error came with it, and there was something to     *)
(* parse, or the server said that there was not.                           *)
THEOREM SuccessesAreComplete == Spec => []SuccessIsComplete
<1>1. IInv => SuccessIsComplete
  <2> SUFFICES ASSUME IInv, out.kind = "success"
               PROVE  /\ err = NilError
                      /\ out.status = 204 \/ (resp.body = "success" /\ Is2xx(out.status))
    BY DEF SuccessIsComplete
  <2>1. out = Outcome(err, resp)
    BY DEF IInv, OutFits, NoOutcome
  <2>2. err = NilError /\ Is2xx(resp.status) /\ out = processSuccess(resp)
    BY <2>1 DEF Outcome, processError, GoxError, Panic
  <2> QED BY <2>2 DEF processSuccess, GoxError, Success
<1> QED BY <1>1, Invariance, PTL
=============================================================================
