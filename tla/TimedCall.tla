----------------------------- MODULE TimedCall -----------------------------
(***************************************************************************)
(* The four clocks of a call of an API that runs under hystrix: the        *)
(* deadline that goxHttpContextImpl.Execute puts on the context            *)
(* (api/api_impl.go), the timer of the hystrix command, the client timeout *)
(* of one attempt, and resty's wait between two attempts.  They are set    *)
(* from the same configuration, but at different times: hystrix is told    *)
(* when the command is made, the deadline and the client when it is made   *)
(* or reloaded, the retry policy when a client builds its first request.   *)
(*                                                                         *)
(* Time is counted in milliseconds.  Tick lets one pass for all calls, and *)
(* only when nothing is due: computing takes no time, waiting does.  The   *)
(* order of the goroutines within one instant is open, so that two timers  *)
(* that end together may fire in either order.                             *)
(***************************************************************************)
EXTENDS Timeouts, FiniteSets

CONSTANTS
    Calls,          \* calls of Execute for one API
    Concurrency,    \* tickets of the hystrix command
    Configs,        \* what the API may be configured to
    DefaultWait,    \* resty's wait when InitialRetryWaitTimeMs is 0
    MaxWait,        \* resty's limit for growing waits
    MaxEdits,       \* bound: edits of the configuration
    MaxReloads      \* bound: reloads

ASSUME TimedAssumption ==
    /\ IsFiniteSet(Calls)
    /\ Concurrency \in Nat
    /\ \A cf \in Configs :
          cf.timeout \in Nat \ {0} /\ cf.retryCount \in Int /\ cf.wait \in Nat
    /\ {DefaultWait, MaxWait} \subseteq Nat \ {0}
    /\ {MaxEdits, MaxReloads} \subseteq Nat

VARIABLES
    api,        \* the configuration, which the application edits in place
    edits,      \* number of edits so far
    timer,      \* the timeout hystrix was configured with
    budget,     \* the API's entry in g.timeouts
    client,     \* the client of the present HttpCommand: number and timeout
    policies,   \* client number -> retry policy installed in that client
    caller,     \* where Execute is
    request,    \* where the request of each call is
    holders,    \* calls with a ticket
    plan,       \* the client timeout and retry policy a call runs under
    via,        \* the number of the client a call runs with
    given,      \* the deadline a call was given
    age,        \* time since Execute was called
    attempt,    \* the attempt that is made or waited for
    left,       \* what remains of the client timeout or the wait
    waited      \* history: sum of the waits

shared == <<api, edits, timer, budget, client, policies>>
calls == <<caller, request, holders, plan, via, given, age, attempt, left, waited>>
vars == <<shared, calls>>

-----------------------------------------------------------------------------
(* SetupDefaults has run; the hystrix command, its timer and the deadline  *)
(* come from one configuration.                                            *)
NoPlan == [timeout |-> 0, retryCount |-> 0, wait |-> 0]

Init ==
    /\ api \in Configs
    /\ edits = 0
    /\ timer = HystrixTimeout(api)
    /\ budget = GetTimeoutWithRetryIncluded(api)
    /\ client = [number |-> 0, timeout |-> api.timeout]
    /\ policies = <<>>
    /\ caller = [c \in Calls |-> "idle"]
    /\ request = [c \in Calls |-> "none"]
    /\ holders = {}
    /\ plan = [c \in Calls |-> NoPlan]
    /\ via = [c \in Calls |-> 0]
    /\ given = [c \in Calls |-> 0]
    /\ age = [c \in Calls |-> 0]
    /\ attempt = [c \in Calls |-> 0]
    /\ left = [c \in Calls |-> 0]
    /\ waited = [c \in Calls |-> 0]

(* The application edits the configuration in place.                       *)
Edit ==
    /\ edits < MaxEdits
    /\ edits' = edits + 1
    /\ api' \in Configs
    /\ UNCHANGED <<timer, budget, client, policies, calls>>

(* A bug: the new client keeps the deadline of the old one. *)
Reload_KeepsBudget ==
    /\ client.number < MaxReloads
    /\ client' = [number |-> client.number + 1, timeout |-> api.timeout]
    /\ UNCHANGED <<api, edits, timer, budget, policies, calls>>

(* updateAPi puts a new HttpCommand into the hystrix command and takes     *)
(* api.Timeout as the deadline.  hystrix is not configured anew.           *)
Reload ==
    /\ client.number < MaxReloads
    /\ client' = [number |-> client.number + 1, timeout |-> api.timeout]
    /\ budget' = api.timeout
    /\ UNCHANGED <<api, edits, timer, policies, calls>>

-----------------------------------------------------------------------------
(* A bug: the policy is read from the configuration by every request. *)
Policy_EveryTime == [retryCount |-> api.retryCount, wait |-> api.wait]

(* The policy of the present client: the first request of a client installs*)
(* what is configured at that time.                                        *)
Policy ==
    IF client.number \in DOMAIN policies
    THEN policies[client.number]
    ELSE [retryCount |-> api.retryCount, wait |-> api.wait]

(* A call finds no ticket, and returns at once.                            *)
Refuse(c) ==
    /\ caller[c] = "idle"
    /\ Cardinality(holders) >= Concurrency
    /\ caller' = [caller EXCEPT ![c] = "returned"]
    /\ UNCHANGED <<shared, request, holders, plan, via, given, age, attempt,
                   left, waited>>

(* Execute makes the context, hystrix starts its timer and lends a ticket, *)
(* and the closure sends the first attempt through the present client.     *)
Execute(c) ==
    /\ caller[c] = "idle"
    /\ Cardinality(holders) < Concurrency
    /\ caller' = [caller EXCEPT ![c] = "waiting"]
    /\ request' = [request EXCEPT ![c] = "sent"]
    /\ holders' = holders \cup {c}
    /\ given' = [given EXCEPT ![c] = budget]
    /\ via' = [via EXCEPT ![c] = client.number]
    /\ plan' = [plan EXCEPT ![c] = [timeout |-> client.timeout,
                                    retryCount |-> Policy.retryCount,
                                    wait |-> Policy.wait]]
    /\ policies' = [n \in DOMAIN policies \cup {client.number} |->
                       IF n = client.number THEN Policy ELSE policies[n]]
    /\ attempt' = [attempt EXCEPT ![c] = 1]
    /\ left' = [left EXCEPT ![c] = client.timeout]
    /\ UNCHANGED <<api, edits, timer, budget, client, age, waited>>

(* The request is through: Execute returns, if hystrix has not answered for*)
(* it before, and the ticket is given back.                                *)
Finish(c, how) ==
    /\ request' = [request EXCEPT ![c] = how]
    /\ caller' = [caller EXCEPT ![c] = "returned"]
    /\ holders' = holders \ {c}
    /\ UNCHANGED <<shared, plan, via, given, age, attempt, left, waited>>

(* A reply the acceptable codes allow.                                     *)
Accepted(c) ==
    /\ request[c] = "sent"
    /\ Finish(c, "over")

Last(c) == attempt[c] > plan[c].retryCount

(* The last attempt ends: refused, failed or out of time.                  *)
LastFails(c) ==
    /\ request[c] = "sent"
    /\ Last(c)
    /\ Finish(c, "over")

AtMost(x, y) == IF x <= y THEN x ELSE y
AtLeast(x, y) == IF x >= y THEN x ELSE y

(* A bug: the first wait is doubled already. *)
Waits_Doubled(wait, k) ==
    LET grown == AtMost(MaxWait, wait * 2 ^ k)
    IN  {w \in wait .. AtLeast(wait, MaxWait) : grown \div 2 <= w /\ w <= grown}

(* resty waits the configured time after the first attempt, and between    *)
(* half of twice as much and all of it, up to a limit, after each further  *)
(* one, but never less than was configured.                                *)
Waits(wait, k) ==
    IF k = 1 THEN {wait}
    ELSE LET grown == AtMost(MaxWait, wait * 2 ^ (k - 1))
         IN  {w \in wait .. AtLeast(wait, MaxWait) :
                 grown \div 2 <= w /\ w <= AtLeast(wait, grown)}

WaitTime(c) == IF plan[c].wait > 0 THEN plan[c].wait ELSE DefaultWait

(* Another attempt ends; resty waits before the next.                      *)
Retry(c) ==
    /\ request[c] = "sent"
    /\ ~Last(c)
    /\ \E w \in Waits(WaitTime(c), attempt[c]) :
         /\ left' = [left EXCEPT ![c] = w]
         /\ waited' = [waited EXCEPT ![c] = @ + w]
    /\ attempt' = [attempt EXCEPT ![c] = @ + 1]
    /\ request' = [request EXCEPT ![c] = "paused"]
    /\ UNCHANGED <<shared, caller, holders, plan, via, given, age>>

(* The wait is over: the next attempt gets a client timeout of its own.    *)
Resend(c) ==
    /\ request[c] = "paused"
    /\ left[c] = 0
    /\ request' = [request EXCEPT ![c] = "sent"]
    /\ left' = [left EXCEPT ![c] = plan[c].timeout]
    /\ UNCHANGED <<shared, caller, holders, plan, via, given, age, attempt,
                   waited>>

Active(c) == request[c] \in {"sent", "paused"}

(* A bug: the context is not cancelled when Execute returns. *)
ContextOver_OnlyDeadline(c) == age[c] >= given[c]

(* The context ends at its deadline, or when Execute returns and its       *)
(* deferred call cancels it.                                               *)
ContextOver(c) == age[c] >= given[c] \/ caller[c] = "returned"

(* net/http and resty's wait notice that the context is over.              *)
CutOff(c) ==
    /\ Active(c)
    /\ ContextOver(c)
    /\ Finish(c, "cut")

(* The timer of hystrix: Execute returns and the ticket is given back,     *)
(* while the closure has not returned yet.                                 *)
HystrixFires(c) ==
    /\ caller[c] = "waiting"
    /\ age[c] >= timer
    /\ caller' = [caller EXCEPT ![c] = "returned"]
    /\ holders' = holders \ {c}
    /\ UNCHANGED <<shared, request, plan, via, given, age, attempt, left, waited>>

-----------------------------------------------------------------------------
(* Something must happen before any more time passes.                      *)
Due(c) ==
    \/ Active(c) /\ (left[c] = 0 \/ ContextOver(c))
    \/ caller[c] = "waiting" /\ age[c] >= timer

Tick ==
    /\ \E c \in Calls : Active(c)
    /\ \A c \in Calls : ~Due(c)
    /\ age' = [c \in Calls |-> IF Active(c) THEN age[c] + 1 ELSE age[c]]
    /\ left' = [c \in Calls |-> IF Active(c) THEN left[c] - 1 ELSE left[c]]
    /\ UNCHANGED <<shared, caller, request, holders, plan, via, given, attempt,
                   waited>>

Quiescent ==
    /\ \A c \in Calls : caller[c] = "returned" /\ ~Active(c)
    /\ UNCHANGED vars

Next ==
    \/ \E c \in Calls :
          \/ Refuse(c) \/ Execute(c) \/ Accepted(c) \/ LastFails(c) \/ Retry(c)
          \/ Resend(c) \/ CutOff(c) \/ HystrixFires(c)
    \/ Edit \/ Reload \/ Tick
    \/ Quiescent

Spec == Init /\ [][Next]_vars

-----------------------------------------------------------------------------
(* Properties.                                                             *)

Plans == [timeout : Nat, retryCount : Int, wait : Nat]

(* The type of every variable; no timer ever runs below zero.              *)
TypeOK ==
    /\ api \in Configs
    /\ edits \in 0 .. MaxEdits
    /\ timer \in Nat /\ budget \in Nat
    /\ client \in [number : 0 .. MaxReloads, timeout : Nat]
    /\ DOMAIN policies \subseteq 0 .. client.number
    /\ \A n \in DOMAIN policies : policies[n] \in [retryCount : Int, wait : Nat]
    /\ caller \in [Calls -> {"idle", "waiting", "returned"}]
    /\ request \in [Calls -> {"none", "sent", "paused", "over", "cut"}]
    /\ holders \subseteq Calls
    /\ plan \in [Calls -> Plans]
    /\ via \in [Calls -> 0 .. MaxReloads]
    /\ given \in [Calls -> Nat]
    /\ age \in [Calls -> Nat]
    /\ attempt \in [Calls -> Nat]
    /\ left \in [Calls -> Nat]
    /\ waited \in [Calls -> Nat]

CutNow(c) == Active(c) /\ request'[c] = "cut"

(* What the budget holds beyond the attempts and the first wait.           *)
Spare(p) == GetTimeoutWithRetryIncluded(p) - WithRetries(p)

(* The retries fit into the budget: a call whose deadline and hystrix timer*)
(* count them (GetTimeoutWithRetryIncluded) is only cut off in its last    *)
(* attempt, with no client timeout left, unless the waits exceeded what the*)
(* budget has for them, one initial wait and ten percent.  That takes two  *)
(* retries, between which resty's waits grow, or a wait that is configured *)
(* as 0, which the budget counts as nothing and resty replaces.            *)
WaitsExceedBudget(c) ==
    /\ attempt[c] > 2 \/ plan[c].wait = 0
    /\ waited[c] > plan[c].wait + Spare(plan[c])

AttemptsFit == [][\A c \in Calls :
    CutNow(c) /\ AtMost(given[c], timer) >= GetTimeoutWithRetryIncluded(plan[c]) =>
        \/ request[c] = "sent" /\ Last(c) /\ left[c] = 0
        \/ WaitsExceedBudget(c)]_vars

(* No request is cut off in its first attempt before its client timeout,   *)
(* whatever has been edited and reloaded, unless the client was given more *)
(* than hystrix, which no reload tells of a longer timeout.                *)
FirstAttemptHasTime == [][\A c \in Calls :
    CutNow(c) /\ attempt[c] = 1 =>
        left[c] = 0 \/ plan[c].timeout > timer]_vars

(* A request that hystrix has given up, and whose ticket another call may  *)
(* have, does not go on: time passes for no more than Concurrency requests,*)
(* because the context ends with Execute.                                  *)
OverlapIsMomentary ==
    [][age' # age => Cardinality({c \in Calls : Active(c)}) <= Concurrency]_vars

(* Calls that use one client use one retry policy, however the             *)
(* configuration is edited between them.                                   *)
OnePolicyPerClient ==
    \A c, d \in Calls :
        request[c] # "none" /\ request[d] # "none" /\ via[c] = via[d] =>
            plan[c] = plan[d]
=============================================================================
