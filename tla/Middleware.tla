----------------------------- MODULE Middleware -----------------------------
(***************************************************************************)
(* The two gin middlewares of the repository around the handlers of an     *)
(* application: RequestResponseLoggerMiddleware with its masking           *)
(* (api/req_resp_logger_mw.go) and RequestValidatorErrorHandlingMiddleware *)
(* (validator/request_validator.go).  Both run the rest of the chain in the*)
(* middle of themselves, share the gin context with it (request body,      *)
(* writer, errors) and rely on each other's order.                         *)
(*                                                                         *)
(* One request is followed through the chain.  gin's context, which runs   *)
(* the chain, and the application's handlers are external.                 *)
(***************************************************************************)
EXTENDS Masking

CONSTANTS
    Chains,         \* sequences of "logger", "validator", "auth", "handler"
    Bodies,         \* what may arrive as the request's body
    Headers,        \* the request's headers: name -> sequence of values
    Replies,        \* what a handler may send
    ErrorSets,      \* the errors a handler may leave in the context
    LogConfigs      \* the masking configurations

(* A validation error is the name of a field; any other error is "other".  *)
Validation(errs) == errs \ {"other"}

(* What the converter makes of the errors: a message for every field.      *)
Answer(errs) == Object([key \in Validation(errs) |-> Leaf("failed")])

Errors == UNION ErrorSets
ConverterAnswers == {Answer(errs) : errs \in SUBSET Errors}

(* The middlewares are at most once, and before the handler, in the chain  *)
(* of a route.  A body is one document or nothing.  Handlers send a body   *)
(* with every success, and none that looks like the converter's answer, so *)
(* that the properties can tell the two apart.                             *)
ASSUME ChainsAssumption ==
    \A c \in Chains :
        /\ c \in Seq({"logger", "validator", "auth", "handler"})
        /\ \A i, j \in DOMAIN c : c[i] = c[j] /\ c[i] \in {"logger", "validator"} => i = j
        /\ \A i \in DOMAIN c : c[i] = "handler" => i = Len(c)
ASSUME BodiesAssumption ==
    \A b \in Bodies : b = <<>> \/ (b = <<b[1]>> /\ IsDocument(b[1]))
ASSUME RepliesAssumption ==
    \A reply \in Replies :
        /\ reply.docs \in Seq({reply.docs[i] : i \in DOMAIN reply.docs})
        /\ \A i \in DOMAIN reply.docs : reply.docs[i] \notin ConverterAnswers
        /\ reply.via \in {"Write", "WriteString"}
        /\ reply.status \in 200 .. 299 => Len(reply.docs) > 0
ASSUME LogConfigsAssumption ==
    \A config \in LogConfigs : config.is \in {"nil", "disabled", "enabled"}

VARIABLES
    chain,      \* the handlers of the route
    settings,   \* the arguments the middlewares were made with
    body,       \* what arrives as the body: one document, or nothing
    index,      \* how many handlers of the chain have been started
    stack,      \* handlers that are inside their c.Next()
    aborted,    \* c.Abort() was called: no further handler is started
    reader,     \* what c.Request.Body still holds, and how reading it ends
    wrapped,    \* c.Writer is the logger's writer
    errors,     \* c.Errors
    response,   \* what has been sent: status, header sent or not, body
    captured,   \* the log as the logger and its writer collect it
    log,        \* what logFunc was given, masked
    saw         \* history: what the handler has read as the body

vars == <<chain, settings, body, index, stack, aborted, reader, wrapped, errors,
          response, captured, log, saw>>
context == <<reader, wrapped, errors, response>>

None == <<>>

Init ==
    /\ chain \in Chains
    /\ settings \in [logFunc : BOOLEAN, mask : LogConfigs,
                      skip : BOOLEAN, converted : BOOLEAN]
    /\ body \in Bodies
    /\ index = 0
    /\ stack = <<"engine">>
    /\ aborted = FALSE
    /\ reader \in [docs : {body}, end : {"eof", "error"}]
    /\ wrapped = FALSE
    /\ errors = {}
    /\ response = [status |-> 200, sent |-> FALSE, body |-> <<>>, direct |-> FALSE]
    /\ captured = [status |-> 0, headers |-> None, request |-> <<>>, response |-> <<>>]
    /\ log = None
    /\ saw = None

-----------------------------------------------------------------------------
(* gin: c.Next() starts the next handler of the chain, and the one after it*)
(* when that has returned, until the chain is at its end or aborted.       *)
Panicked == stack = <<"panic">>
Over == stack = <<>> \/ Panicked

Starts(h) ==
    /\ ~Over
    /\ ~aborted
    /\ index < Len(chain)
    /\ chain[index + 1] = h
    /\ index' = index + 1

NextReturns(h) ==
    /\ ~Over
    /\ stack[1] = h
    /\ aborted \/ index = Len(chain)
    /\ stack' = Tail(stack)

Inside(h) == stack' = <<h>> \o stack

Started(h) == \E i \in 1 .. index : chain[i] = h

(* Sending a document: the first one sends the header, later statuses are  *)
(* ignored.  Only what goes through Write passes the logger's writer.      *)
SentWith(status, docs, via) ==
    /\ response' = [response EXCEPT !.status = IF response.sent THEN @ ELSE status,
                                    !.sent = TRUE, !.body = @ \o docs,
                                    !.direct = @ \/ via = "WriteString"]
    /\ captured' = [captured EXCEPT !.response =
                       IF wrapped /\ via = "Write" THEN @ \o docs ELSE @]

-----------------------------------------------------------------------------
(* A header with several values is logged with the last one.               *)
LastValues == [name \in DOMAIN Headers |-> Headers[name][Len(Headers[name])]]

NewReader(docs) == [docs |-> docs, end |-> "eof"]

(* A bug: the body that was read is not put back. *)
LoggerBefore_Drains ==
    /\ Starts("logger")
    /\ captured' = [captured EXCEPT !.headers = LastValues, !.request = reader.docs]
    /\ reader' = NewReader(<<>>)
    /\ wrapped' = TRUE
    /\ Inside("logger")
    /\ UNCHANGED <<chain, settings, body, aborted, errors, response, log, saw>>

(* RequestResponseLoggerMiddleware reads headers and body, puts the body   *)
(* back and takes the place of the writer.  An error that ends the reading *)
(* early is dropped: what has arrived is put back as if it were all.       *)
LoggerBefore ==
    /\ Starts("logger")
    /\ captured' = [captured EXCEPT !.headers = LastValues, !.request = reader.docs]
    /\ reader' = NewReader(reader.docs)
    /\ wrapped' = TRUE
    /\ Inside("logger")
    /\ UNCHANGED <<chain, settings, body, aborted, errors, response, log, saw>>

(* A bug: the status is taken before the chain has run. *)
Captured_Early == [captured EXCEPT !.status = 200]

Captured == [captured EXCEPT !.status = response.status]

(* When the chain has returned the log goes to logFunc, if there is one,   *)
(* which masks it.                                                         *)
LoggerAfter ==
    /\ NextReturns("logger")
    /\ log' = IF settings.logFunc THEN <<Process(settings.mask, Captured)>> ELSE None
    /\ UNCHANGED <<chain, settings, body, index, aborted, context, captured,
                   saw>>

(* RequestValidatorErrorHandlingMiddleware: without a skip function, or if *)
(* it says so, the validator returns and gin goes on with the chain.       *)
ValidatorBefore ==
    /\ Starts("validator")
    /\ IF settings.skip THEN UNCHANGED stack ELSE Inside("validator")
    /\ UNCHANGED <<chain, settings, body, aborted, context, captured, log, saw>>

(* A bug: all errors of the context are answered. *)
Answers_Any == errors # {} /\ settings.converted

(* There are validation errors, and the converter makes something of them. *)
Answers == Validation(errors) # {} /\ settings.converted

ValidatorAfter ==
    /\ NextReturns("validator")
    /\ IF Answers
       THEN SentWith(400, <<Answer(errors)>>, "Write") /\ aborted' = TRUE
       ELSE UNCHANGED <<response, captured, aborted>>
    /\ UNCHANGED <<chain, settings, body, index, reader, wrapped, errors, log, saw>>

-----------------------------------------------------------------------------
(* A handler of the application reads the body or not, leaves errors in the*)
(* context, sends a document, a status alone (AbortWithError) or nothing,  *)
(* and may abort the chain.                                                *)
Handle(h) ==
    /\ Starts(h)
    /\ h \in {"auth", "handler"}
    /\ \/ UNCHANGED <<reader, saw>>
       \/ h = "handler" /\ saw' = <<reader>> /\ reader' = [reader EXCEPT !.docs = <<>>]
    /\ \E errs \in ErrorSets : errors' = errors \cup errs
    /\ \/ \E reply \in Replies : SentWith(reply.status, reply.docs, reply.via)
       \/ UNCHANGED <<response, captured>>
    /\ aborted' \in BOOLEAN
    /\ UNCHANGED <<chain, settings, body, stack, wrapped, log>>

(* A handler panics: gin's recovery, outside of the chain, answers 500.    *)
Panics(h) ==
    /\ Starts(h)
    /\ h \in {"auth", "handler"}
    /\ stack' = <<"panic">>
    /\ aborted' = TRUE
    /\ SentWith(500, <<>>, "Write")
    /\ UNCHANGED <<chain, settings, body, reader, wrapped, errors, log, saw>>

EngineDone ==
    /\ NextReturns("engine")
    /\ UNCHANGED <<chain, settings, body, index, aborted, context, captured,
                   log, saw>>

Done == Over /\ UNCHANGED vars

Next ==
    \/ LoggerBefore \/ LoggerAfter \/ ValidatorBefore \/ ValidatorAfter
    \/ \E h \in {"auth", "handler"} : Handle(h) \/ Panics(h)
    \/ EngineDone \/ Done

Spec == Init /\ [][Next]_vars

-----------------------------------------------------------------------------
(* Properties.                                                             *)

(* The request passes the middlewares unharmed: a handler that reads the   *)
(* body gets what arrived, whether it was read for the log before or not.  *)
(* That the body was cut short is lost (LoggerBefore), which end tells.    *)
HandlerSeesBody == saw # None => saw[1].docs = body

(* The log is what was sent, with its secrets masked, if the logger is the *)
(* outermost and all handlers send through Write.                          *)
LogIsWhatWasSent ==
    Over /\ log # None /\ chain[1] = "logger" /\ ~response.direct =>
        log[1] = Process(settings.mask,
                         [status |-> response.status, headers |-> LastValues,
                          request |-> body, response |-> response.body])

(* The masked log shows no value below a masked key or header, in whatever *)
(* objects and lists it lies, and everything else as it was; only a list   *)
(* directly within a list is not looked into.                              *)
SecretsMasked ==
    log # None /\ settings.mask.is = "enabled" =>
        /\ \A name \in DOMAIN log[1].headers :
              log[1].headers[name] = IF name \in settings.mask.headers
                                     THEN MaskString.value ELSE LastValues[name]
        /\ \A i \in DOMAIN body : body[i][<<>>].kind = "object" =>
              IsMaskOf(log[1].request[i], body[i], settings.mask.requestKeys)

Answered(errs) == \E i \in DOMAIN response.body : response.body[i] = Answer(errs)

(* All validation errors are answered together, and not as a success unless*)
(* a handler had sent a document before, whose status then stays; other    *)
(* errors never are answered (request_validator.go:65: "the error will be  *)
(* absorbed and we will miss it").                                         *)
ErrorsAnswered ==
    Over /\ Started("validator") /\ ~settings.skip /\ ~Panicked =>
        IF Validation(errors) # {} /\ settings.converted
        THEN /\ Answered(errors)
             /\ response.status \in 200 .. 299 => Len(response.body) > 1
        ELSE \A errs \in SUBSET errors : ~Answered(errs)
=============================================================================
