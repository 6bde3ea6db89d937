--------------------------- MODULE HystrixCommand ---------------------------
(***************************************************************************)
(* HttpHystrixCommand.Execute (command/http/http_hystrix_command.go): a    *)
(* call of the wrapped HttpCommand run under hystrix.Do.  hystrix runs     *)
(* three goroutines for one call: the caller, which selects between the    *)
(* done and the error channel; the runner, which asks the circuit breaker, *)
(* takes a ticket and runs the closure of Execute; and the watcher, which  *)
(* waits for the runner or the timer.  Runner and watcher race for one     *)
(* sync.Once, whose block gives the ticket back, publishes the error and   *)
(* reports to the circuit breaker.  The caller and the closure share the   *)
(* variable r without any lock.                                            *)
(*                                                                         *)
(* hystrix-go is not in the repository: its part is modelled from the way  *)
(* Execute and NewHttpHystrixCommand use it.  The call of h.command.Execute*)
(* is an environment step that may return anything, at any time or never.  *)
(***************************************************************************)
EXTENDS Naturals, FiniteSets

CONSTANTS
    Calls,          \* calls of HttpHystrixCommand.Execute of one API
    Concurrency,    \* api.Concurrency: the tickets of the command's pool
    RequestVolume,  \* requests in the window before the circuit may open
    Results         \* what the wrapped command may return

(* A response or nil, with no error, a GoxHttpError or any other error.    *)
result == [resp : {"nil", "response"}, err : {"nil", "gox", "plain"}]

ASSUME HystrixAssumption ==
    /\ IsFiniteSet(Calls)
    /\ Concurrency \in Nat
    /\ RequestVolume \in Nat
    /\ Results \subseteq result

VARIABLES
    caller,     \* the goroutine that called Execute
    runner,     \* the goroutine that runs the closure
    once,       \* how far the block of the call's sync.Once has got
    cause,      \* the event the block was entered with
    ticket,     \* cmd.ticket: the call has taken a ticket, not given it back
    free,       \* tickets in the pool
    executed,   \* history: calls whose closure has been run
    r,          \* the result variable shared by the caller and the closure
    done,       \* the done channel of hystrix.Do holds a value
    errChan,    \* the error channel of hystrix.Go
    answer,     \* what Execute returned
    circuit     \* the circuit breaker of the command

vars == <<caller, runner, once, cause, ticket, free, executed, r, done,
          errChan, answer, circuit>>

-----------------------------------------------------------------------------
(* r before the closure has assigned it.                                   *)
Empty == [resp |-> "nil", err |-> "nil"]

RunEvents == {"success", "gox", "plain"}
Refusals == {"circuit_open", "max_concurrency"}
Events == RunEvents \cup Refusals \cup {"timeout"}

RunEvent(res) == IF res.err = "nil" THEN "success" ELSE res.err

(* A bug: the test for circuit errors is missing. *)
errorCreator_NoCircuitCase(e) == IF e = "gox" THEN "gox" ELSE "unknown_error"

(* errorCreator: every error that leaves Execute is a GoxHttpError.        *)
errorCreator(e) ==
    CASE e = "gox" -> "gox"
      [] e = "circuit_open" -> "hystrix_circuit_open"
      [] e = "max_concurrency" -> "hystrix_rejected"
      [] e = "timeout" -> "hystrix_timeout"
      [] OTHER -> "unknown_error"

RefusalCodes == {"hystrix_circuit_open", "hystrix_rejected"}

(* GoxHttpError.IsHystrixError.                                            *)
IsHystrixError(code) == code \in RefusalCodes \cup {"hystrix_timeout"}

-----------------------------------------------------------------------------
Init ==
    /\ caller = [c \in Calls |-> "idle"]
    /\ runner = [c \in Calls |-> "unborn"]
    /\ once = [c \in Calls |-> "open"]
    /\ cause = [c \in Calls |-> "none"]
    /\ ticket = [c \in Calls |-> FALSE]
    /\ free = Concurrency
    /\ executed = {}
    /\ r = [c \in Calls |-> Empty]
    /\ done = [c \in Calls |-> FALSE]
    /\ errChan = [c \in Calls |-> "none"]
    /\ answer = [c \in Calls |-> Empty]
    /\ circuit = [open |-> FALSE, sleeping |-> FALSE, total |-> 0, errors |-> 0]

(* Execute allocates r and hystrix.Go starts the two goroutines.           *)
Execute(c) ==
    /\ caller[c] = "idle"
    /\ caller' = [caller EXCEPT ![c] = "waiting"]
    /\ runner' = [runner EXCEPT ![c] = "start"]
    /\ UNCHANGED <<once, cause, ticket, free, executed, r, done, errChan,
                   answer, circuit>>

-----------------------------------------------------------------------------
(* The circuit breaker.  int(100 * errors / total + 0.5) is compared with  *)
(* ErrorPercentThreshold; the inequality below is the same test in         *)
(* integers.                                                               *)
ErrorPercentThreshold == 25

Unhealthy ==
    /\ circuit.total >= RequestVolume
    /\ circuit.total > 0
    /\ 200 * circuit.errors >= (2 * ErrorPercentThreshold - 1) * circuit.total

Tripped == circuit.open \/ Unhealthy

(* The circuit lets the call pass: closed and healthy, or open with the    *)
(* one test request that each sleep window allows.                         *)
Allowed(c) ==
    /\ runner[c] = "start"
    /\ \/ /\ ~Tripped
          /\ UNCHANGED circuit
       \/ /\ circuit.open
          /\ ~circuit.sleeping
          /\ circuit' = [circuit EXCEPT !.sleeping = TRUE]
    /\ runner' = [runner EXCEPT ![c] = "allowed"]
    /\ UNCHANGED <<caller, once, cause, ticket, free, executed, r,
                   done, errChan, answer>>

(* A bug: the circuit opens on the request volume alone. *)
ShortCircuited_AnyVolume(c) ==
    /\ runner[c] = "start"
    /\ circuit.total >= RequestVolume
    /\ circuit' = [circuit EXCEPT !.open = TRUE, !.sleeping = TRUE]
    /\ runner' = [runner EXCEPT ![c] = "circuit_open"]
    /\ UNCHANGED <<caller, once, cause, ticket, free, executed, r,
                   done, errChan, answer>>

(* The circuit refuses the call; the test that finds the window unhealthy  *)
(* is the one that opens it.                                               *)
ShortCircuited(c) ==
    /\ runner[c] = "start"
    /\ Tripped
    /\ ~circuit.open \/ circuit.sleeping
    /\ circuit' = [circuit EXCEPT !.open = TRUE, !.sleeping = TRUE]
    /\ runner' = [runner EXCEPT ![c] = "circuit_open"]
    /\ UNCHANGED <<caller, once, cause, ticket, free, executed, r,
                   done, errChan, answer>>

(* The sleep window after opening or testing is over.                      *)
SleepWindowElapses ==
    /\ circuit.open /\ circuit.sleeping
    /\ circuit' = [circuit EXCEPT !.sleeping = FALSE]
    /\ UNCHANGED <<caller, runner, once, cause, ticket, free,
                   executed, r, done, errChan, answer>>

(* The statistics leave the rolling window.                                *)
WindowRolls ==
    /\ circuit.total > 0
    /\ circuit' = [circuit EXCEPT !.total = 0, !.errors = 0]
    /\ UNCHANGED <<caller, runner, once, cause, ticket, free,
                   executed, r, done, errChan, answer>>

-----------------------------------------------------------------------------
(* The runner.                                                             *)

(* A ticket is free: the runner takes it and enters the closure, which     *)
(* calls h.command.Execute.                                                *)
TakeTicket(c) ==
    /\ runner[c] = "allowed"
    /\ free > 0
    /\ free' = free - 1
    /\ ticket' = [ticket EXCEPT ![c] = TRUE]
    /\ executed' = executed \cup {c}
    /\ runner' = [runner EXCEPT ![c] = "exec"]
    /\ UNCHANGED <<caller, once, cause, r, done, errChan, answer, circuit>>

NoTicket(c) ==
    /\ runner[c] = "allowed"
    /\ free = 0
    /\ runner' = [runner EXCEPT ![c] = "max_concurrency"]
    /\ UNCHANGED <<caller, once, cause, ticket, free, executed, r,
                   done, errChan, answer, circuit>>

(* A bug: the done channel is signalled before r is assigned. *)
InnerReturns_DoneFirst(c) ==
    \/ /\ runner[c] = "exec"
       /\ ~done[c]
       /\ done' = [done EXCEPT ![c] = TRUE]
       /\ UNCHANGED <<caller, runner, once, cause, ticket, free,
                      executed, r, errChan, answer, circuit>>
    \/ /\ runner[c] = "exec"
       /\ \E res \in Results : r' = [r EXCEPT ![c] = res]
       /\ runner' = [runner EXCEPT ![c] = "returned"]
       /\ UNCHANGED <<caller, once, cause, ticket, free, executed,
                      done, errChan, answer, circuit>>

(* h.command.Execute returns and the closure assigns r.response and r.err. *)
InnerReturns(c) ==
    /\ runner[c] = "exec"
    /\ \E res \in Results : r' = [r EXCEPT ![c] = res]
    /\ runner' = [runner EXCEPT ![c] = "returned"]
    /\ UNCHANGED <<caller, once, cause, ticket, free, executed,
                   done, errChan, answer, circuit>>

(* A bug: the closure keeps its error in r and returns nil. *)
RunReturns_Nil(c) ==
    /\ runner[c] = "returned"
    /\ done' = [done EXCEPT ![c] = TRUE]
    /\ runner' = [runner EXCEPT ![c] = "success"]
    /\ UNCHANGED <<caller, once, cause, ticket, free, executed, r,
                   errChan, answer, circuit>>

(* The closure returns r.err; without an error hystrix.Do's wrapper fills  *)
(* the done channel, still before the block of the sync.Once.              *)
RunReturns(c) ==
    /\ runner[c] = "returned"
    /\ done' = [done EXCEPT ![c] = r[c].err = "nil"]
    /\ runner' = [runner EXCEPT ![c] = RunEvent(r[c])]
    /\ UNCHANGED <<caller, once, cause, ticket, free, executed, r,
                   errChan, answer, circuit>>

(* The runner is first at the sync.Once and enters its block.              *)
RunnerSettles(c) ==
    /\ runner[c] \in RunEvents \cup Refusals
    /\ once[c] = "open"
    /\ once' = [once EXCEPT ![c] = "giveBack"]
    /\ cause' = [cause EXCEPT ![c] = runner[c]]
    /\ UNCHANGED <<caller, runner, ticket, free, executed, r, done,
                   errChan, answer, circuit>>

(* sync.Once.Do returns, to the goroutine that ran the block and to the one*)
(* that came too late, only when the block is over.                        *)
RunnerEnds(c) ==
    /\ runner[c] \in RunEvents \cup Refusals
    /\ once[c] = "spent"
    /\ runner' = [runner EXCEPT ![c] = "done"]
    /\ UNCHANGED <<caller, once, cause, ticket, free, executed, r,
                   done, errChan, answer, circuit>>

-----------------------------------------------------------------------------
(* The watcher enters the block when the timer of the hystrix timeout fires*)
(* first.  Otherwise it only waits for the runner's end, or inside         *)
(* sync.Once.Do, and ends with the block: it needs no state of its own.    *)
TimerFires(c) ==
    /\ caller[c] # "idle"
    /\ once[c] = "open"
    /\ once' = [once EXCEPT ![c] = "giveBack"]
    /\ cause' = [cause EXCEPT ![c] = "timeout"]
    /\ UNCHANGED <<caller, runner, ticket, free, executed, r, done, errChan,
                   answer, circuit>>

-----------------------------------------------------------------------------
(* The block of the sync.Once.                                             *)

(* returnTicket waits on the condition until the runner knows whether it   *)
(* has a ticket.                                                           *)
TicketChecked(c) == runner[c] \notin {"unborn", "start", "allowed"}

(* A bug: a pool that accepts the ticket of a call that has none. *)
GiveBack_Always(c) ==
    /\ once[c] = "giveBack"
    /\ TicketChecked(c)
    /\ ticket' = [ticket EXCEPT ![c] = FALSE]
    /\ free' = free + 1
    /\ once' = [once EXCEPT ![c] = IF cause[c] = "success" THEN "report"
                                                           ELSE "publish"]
    /\ UNCHANGED <<caller, runner, cause, executed, r, done,
                   errChan, answer, circuit>>

(* A bug: only the runner's own exits give the ticket back. *)
GiveBack_NotOnTimeout(c) ==
    /\ once[c] = "giveBack"
    /\ TicketChecked(c)
    /\ cause[c] # "timeout"
    /\ ticket' = [ticket EXCEPT ![c] = FALSE]
    /\ free' = IF ticket[c] THEN free + 1 ELSE free
    /\ once' = [once EXCEPT ![c] = IF cause[c] = "success" THEN "report"
                                                           ELSE "publish"]
    /\ UNCHANGED <<caller, runner, cause, executed, r, done,
                   errChan, answer, circuit>>

GiveBack(c) ==
    /\ once[c] = "giveBack"
    /\ TicketChecked(c)
    /\ ticket' = [ticket EXCEPT ![c] = FALSE]
    /\ free' = IF ticket[c] THEN free + 1 ELSE free
    /\ once' = [once EXCEPT ![c] = IF cause[c] = "success" THEN "report"
                                                           ELSE "publish"]
    /\ UNCHANGED <<caller, runner, cause, executed, r, done,
                   errChan, answer, circuit>>

(* errorWithFallback without a fallback: the error goes to the caller.     *)
Publish(c) ==
    /\ once[c] = "publish"
    /\ errChan' = [errChan EXCEPT ![c] = cause[c]]
    /\ once' = [once EXCEPT ![c] = "report"]
    /\ UNCHANGED <<caller, runner, cause, ticket, free, executed, r,
                   done, answer, circuit>>

(* The circuit breaker counts the event.  Everything but a success is an   *)
(* error, a refusal by the breaker itself included; a success while the    *)
(* circuit is open closes it and starts its statistics anew.               *)
Report(c) ==
    /\ once[c] = "report"
    /\ once' = [once EXCEPT ![c] = "spent"]
    /\ circuit' =
         IF cause[c] = "success" /\ circuit.open
         THEN [open |-> FALSE, sleeping |-> FALSE, total |-> 1, errors |-> 0]
         ELSE [circuit EXCEPT !.total = @ + 1,
                              !.errors = IF cause[c] = "success" THEN @ ELSE @ + 1]
    /\ UNCHANGED <<caller, runner, cause, ticket, free, executed, r,
                   done, errChan, answer>>

-----------------------------------------------------------------------------
(* The caller: the select of hystrix.Do takes either channel when both are *)
(* ready, and Execute returns what it then reads in r.  A closure that     *)
(* outlives the timeout may assign r at the same moment, so the response   *)
(* next to a timeout is nil or the late one, whichever side of             *)
(* InnerReturns this step falls on.                                        *)
ReturnWithoutError(c) ==
    /\ caller[c] = "waiting"
    /\ done[c]
    /\ answer' = [answer EXCEPT ![c] = r[c]]
    /\ caller' = [caller EXCEPT ![c] = "returned"]
    /\ UNCHANGED <<runner, once, cause, ticket, free, executed, r, done,
                   errChan, circuit>>

(* A bug: the error of the closure is returned, not the one of hystrix. *)
ReturnWithError_Inner(c) ==
    /\ caller[c] = "waiting"
    /\ errChan[c] # "none"
    /\ answer' = [answer EXCEPT ![c] =
          [resp |-> r[c].resp,
           err |-> IF r[c].err = "nil" THEN "nil" ELSE errorCreator(r[c].err)]]
    /\ caller' = [caller EXCEPT ![c] = "returned"]
    /\ UNCHANGED <<runner, once, cause, ticket, free, executed, r, done,
                   errChan, circuit>>

ReturnWithError(c) ==
    /\ caller[c] = "waiting"
    /\ errChan[c] # "none"
    /\ answer' = [answer EXCEPT ![c] =
          [resp |-> r[c].resp, err |-> errorCreator(errChan[c])]]
    /\ caller' = [caller EXCEPT ![c] = "returned"]
    /\ UNCHANGED <<runner, once, cause, ticket, free, executed, r, done,
                   errChan, circuit>>

-----------------------------------------------------------------------------
(* The steps the Go scheduler runs and the timer.                          *)
Internal(c) ==
    \/ Allowed(c) \/ ShortCircuited(c) \/ TakeTicket(c) \/ NoTicket(c)
    \/ RunReturns(c) \/ RunnerSettles(c) \/ RunnerEnds(c)
    \/ TimerFires(c)
    \/ GiveBack(c) \/ Publish(c) \/ Report(c)
    \/ ReturnWithoutError(c) \/ ReturnWithError(c)

(* All calls have returned and no goroutine of theirs is left.             *)
Quiescent ==
    /\ \A c \in Calls : caller[c] = "returned" /\ runner[c] = "done"
    /\ UNCHANGED vars

Next ==
    \/ \E c \in Calls : Execute(c) \/ Internal(c) \/ InnerReturns(c)
    \/ SleepWindowElapses
    \/ WindowRolls
    \/ Quiescent

(* Goroutines that can go on do go on, and the timer fires.  The wrapped   *)
(* command need not return: InnerReturns has no fairness.                  *)
Fairness == \A c \in Calls :
    /\ WF_vars(Allowed(c) \/ ShortCircuited(c))
    /\ WF_vars(TakeTicket(c) \/ NoTicket(c))
    /\ WF_vars(RunReturns(c))
    /\ WF_vars(RunnerSettles(c) \/ RunnerEnds(c))
    /\ WF_vars(TimerFires(c))
    /\ WF_vars(GiveBack(c) \/ Publish(c) \/ Report(c))
    /\ WF_vars(ReturnWithoutError(c) \/ ReturnWithError(c))

Spec == Init /\ [][Next]_vars /\ Fairness

-----------------------------------------------------------------------------
(* Properties.                                                             *)

(* The type of every variable.  r and answer pair a response with an error;*)
(* an error that leaves Execute is one of the codes of errorCreator.       *)
TypeOK ==
    /\ caller \in [Calls -> {"idle", "waiting", "returned"}]
    /\ runner \in [Calls -> {"unborn", "start", "allowed", "exec",
                              "returned", "done"} \cup RunEvents \cup Refusals]
    /\ once \in [Calls -> {"open", "giveBack", "publish", "report", "spent"}]
    /\ cause \in [Calls -> Events \cup {"none"}]
    /\ ticket \in [Calls -> BOOLEAN]
    /\ free \in 0 .. Concurrency
    /\ executed \in SUBSET Calls
    /\ r \in [Calls -> result]
    /\ done \in [Calls -> BOOLEAN]
    /\ errChan \in [Calls -> Events \cup {"none"}]
    /\ answer \in [Calls -> [resp : {"nil", "response"},
                             err : {"nil", "gox", "unknown_error",
                                    "hystrix_circuit_open",
                                    "hystrix_rejected", "hystrix_timeout"}]]
    /\ circuit \in [open : BOOLEAN, sleeping : BOOLEAN,
                     total : Nat, errors : Nat]

Holders == {c \in Calls : ticket[c]}

(* No ticket is lost or made up, whoever of runner and watcher wins the    *)
(* sync.Once: otherwise api.Concurrency would drift with every timeout.    *)
TicketsConserved == free + Cardinality(Holders) = Concurrency

Returned(c) == caller[c] = "returned"

(* A caller that was told of an error occupies no place in the bulkhead,   *)
(* neither now nor later: a retry by the caller competes with others only. *)
ErrorMeansTicketBack ==
    \A c \in Calls : Returned(c) /\ answer[c].err # "nil" => ~ticket[c]

(* An Execute that returns no error returns what the wrapped command       *)
(* returned: the shared r is read after the closure is through with it.    *)
NoErrorMeansRan ==
    \A c \in Calls : Returned(c) /\ answer[c].err = "nil" =>
        /\ c \in executed
        /\ runner[c] \in {"success", "done"}
        /\ answer[c] = r[c]

(* A call refused by the circuit breaker or the pool has not reached the   *)
(* wrapped command and never will (the caller may send it again without    *)
(* sending it twice), and a call that did not reach it is told so by an    *)
(* error for which IsHystrixError holds.                                   *)
HystrixErrorsAreHonest ==
    \A c \in Calls : Returned(c) =>
        /\ answer[c].err \in RefusalCodes => c \notin executed
        /\ c \notin executed => IsHystrixError(answer[c].err)

FailuresBut(c) ==
    {d \in Calls \ {c} : once[d] = "spent" /\ cause[d] # "success"}

(* hystrix_circuit_open is earned: ErrorPercentThreshold of at least       *)
(* RequestVolume other calls have ended badly.                             *)
CircuitOpenIsEarned ==
    \A c \in Calls :
        Returned(c) /\ answer[c].err = "hystrix_circuit_open" =>
            200 * Cardinality(FailuresBut(c))
                >= (2 * ErrorPercentThreshold - 1) * RequestVolume

(* Every Execute returns, even if the wrapped command hangs for ever.      *)
CallsReturn == \A c \in Calls : caller[c] = "waiting" ~> Returned(c)

phase == [c \in Calls |->
    CASE caller[c] = "idle" -> "idle"
      [] caller[c] = "waiting" -> "pending"
      [] OTHER -> IF answer[c].err = "nil" THEN "response" ELSE "error"]

Bulk == INSTANCE Bulkhead WITH holding <- Holders, admitted <- executed

(* Execute implements the bulkhead of module Bulkhead: a place is an       *)
(* occupied ticket.                                                        *)
RefinesBulkhead == Bulk!Spec
=============================================================================
