------------------------------ MODULE Timeouts ------------------------------
(***************************************************************************)
(* The two time budgets of an API, in milliseconds: the deadline that      *)
(* goxHttpContextImpl.Execute puts on a request, and the hystrix timeout   *)
(* of its command.  api is a record with fields timeout, retryCount and    *)
(* wait (command.Api: Timeout, RetryCount, InitialRetryWaitTimeMs); the    *)
(* formulas are Api.GetTimeoutWithRetryIncluded (command/interface.go) and *)
(* the one in NewHttpHystrixCommand (command/http/http_hystrix_command.go).*)
(* All operands are positive where a quotient is used, so that Go's        *)
(* division and \div agree.                                                *)
(***************************************************************************)
EXTENDS Integers

(* Ten percent more, or 2 ms where that would be nothing.                  *)
WithDelta(t) == IF t \div 10 <= 0 THEN t + 2 ELSE t + t \div 10

(* All attempts and the first wait.                                        *)
WithRetries(api) ==
    IF api.retryCount > 0
    THEN api.timeout + api.timeout * api.retryCount + api.wait
    ELSE api.timeout

GetTimeoutWithRetryIncluded(api) ==
    IF api.retryCount <= 0 THEN api.timeout ELSE WithDelta(WithRetries(api))

(* A bug: hystrix does not wait for the retries. *)
HystrixTimeout_NoRetries(api) == WithDelta(api.timeout)

HystrixTimeout(api) == WithDelta(WithRetries(api))
=============================================================================
