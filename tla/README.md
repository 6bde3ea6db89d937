# gox-http: verification models

gox-http is a Go library for HTTP clients. An application describes servers and
APIs in YAML; `api.NewGoxHttpContext` makes a command for each API; `Execute` runs a
request of an API through that command, with a deadline, retries, a circuit breaker
and a limit on parallel calls. `ReloadApi` exchanges a command while calls run. On the
server's side two gin middlewares log requests and answer validation errors.

This directory holds TLA+ models of that machinery, TLC runs that check them on small
instances, and TLAPS proofs for every value of the constants. Paths below are relative
to the repository's root. `PROJECT.json` maps each definition to the lines it
models.

    YAML ---> UnmarshalYAML, SetupDefaults --------------------------- ConfigDefaults
        |
    application --- ExecuteHttp[T] (api/helper.go) ------------------- TypedCall
        |               |
     ReloadApi       goxHttpContextImpl.Execute (api/api_impl.go) ---- GoxHttpContext
        |               |   commands, timeouts: maps by API name       Registry (abstract)
        +------------> maps                                            Timeouts, TimedCall (clock)
                        |
                     HttpHystrixCommand.Execute ---------------------- HystrixCommand
                        |   hystrix.Do: pool, breaker, timer           Bulkhead (abstract)
                     HttpCommand.Execute, ExecuteAsync
                        |-- pre-request interceptors ----------------- Interceptors
                        |-- internalExecute: retries, answers -------- HttpCommand
                        |     `-- buildRequest: headers, signature --- SignedRequest
                     resty client --> server

    request --> gin --> logger --> validator --> handlers ------------ Middleware, Masking

## Inventory

| Component | State | Operations | What is hard about it | What makes it correct |
|---|---|---|---|---|
| `goxHttpContextImpl` (`api/api_impl.go`) | maps `commands`, `timeouts`; mutex; the application's configuration | `setup`, `Execute`, `ReloadApi` (`addNewAPi`, `updateAPi`) | calls look up without the lock that reloads hold; a reload writes two maps one after the other, and may fail half way | an API is registered whole or not at all; no edit is lost; calls of known APIs have time |
| time budgets (`command/interface.go:68`, `http_hystrix_command.go:166`) | none | two formulas with integer division | they are written down twice and must agree, with each other and with the attempts and waits of resty that they are to cover | hystrix does not give up before the request context; retries fit in; a request ends with its caller |
| `HttpHystrixCommand` (`command/http/http_hystrix_command.go`) | `r`, shared by caller and closure without lock; hystrix's ticket pool, breaker, channels | `Execute`, `errorCreator`, `UpdateCommand` | caller, runner and timer race for one `sync.Once`, two channels and `r` | tickets are conserved; error codes tell the truth; every call returns |
| `HttpCommand` (`command/http/http_command.go`) | resty client shared by all calls, `setRetryFuncOnce`, acceptable codes | `internalExecute`, `buildRequest`, `processResponse`, `handleError` | the first call installs the retry policy for all; `SetupDefaults` rewrites the codes under running calls; the context ends at any time | bounded sends; policy before the first send; acceptable replies end the call |
| pre-request interceptors (`command/http/intercept.go`) | a process-wide map and mutex | register, unregister, intercept; `ExecuteAsync` | user code runs under the mutex, may panic or come back; an unbuffered channel | nobody is skipped, a removed function rests, the lock is released, a listener gets its answer |
| request construction, HMAC (`http_command.go:194-373`, `interceptor/`) | the headers of one request | six sources of headers in order, then the signature, then resty's attempts | what changes after signing breaks the signature; two configurations, partly filled | signatures verify; nothing configured goes out unsigned; documented precedence |
| typed responses (`api/helper.go`, `command/errors.go`) | none | `ExecuteHttp`, `processSuccess`, `processError`, predicates | response and error arrive in all combinations | the caller learns the server's status and can tell refusals |
| configuration (`command/internal.go`, `config_parser.go`) | the configuration | parsing, `SetupDefaults`, `UpdateServerWithUrl` | values that are missing or cannot be used; shared slices are rewritten | no command or budget comes from an unusable value |
| logging and validation middleware (`api/req_resp_logger_mw.go`, `validator/request_validator.go`) | gin's context: body, writer, errors | around `c.Next()`; masking | they share body and writer with the handlers and depend on their own order | the handler gets the body, the log is what was sent, secrets are masked, validation errors are answered |
| connection tracking, mocks, no-op context, examples | - | - | diagnostics, generated code | not modelled |

Everything hard to test is listed, line by line, under `hazards` in `PROJECT.json`,
with the properties that watch it or the reason why none does.

## Modules

**HystrixCommand** models `HttpHystrixCommand.Execute` with the goroutines of
`hystrix.Do`. `caller`, `runner` and `once` are the program counters of the caller, the
runner goroutine and the block of the call's `sync.Once`; `r` is the shared result;
`done` and `errChan` are the channels; `ticket` and `free` the pool; `circuit` the
breaker. The call of the wrapped command is the environment step `InnerReturns`,
which may yield any response and error, at any time, or never happen. The select of
`hystrix.Do` may take either channel if both are ready. The unlocked read of `r` next to
a late assignment is covered by the two orders of `InnerReturns` and `ReturnWithError`;
`r.response` is one pointer, so nothing in between can be read. hystrix-go is not in
the repository; its part follows from how `Execute` and `NewHttpHystrixCommand` use it
and is marked external.

**Bulkhead** is the abstract specification of the same: a call asks for one of
`Concurrency` places and is answered once; a response needs a place, an error means
that none is held; all calls are answered, all places come back. `HystrixCommand`
implements it with `holding <- Holders, admitted <- executed` and `phase` as defined
there: a place is a ticket, being let in is entering the closure.

**HttpCommand** models `internalExecute` for concurrent calls of one API. `pc` is where
each call is, from `buildRequest` to the answer; `once`, `retryCount` and `condition` are
the installation of the policy; `attempt`, `sent` and `got` are resty's attempts; `codes`
and `missing` the rewrite of the acceptable codes by `SetupDefaults`, one append at a
time. A torn read of the slice header is not modelled: readers see a set of codes that
`SetupDefaults` has appended so far.

**ConfigDefaults** has the settings of an API that budgets depend on, from an entry of the
file with any keys missing (`Parsed`) to the values that `SetupDefaults` leaves. Waits are
not negative: the code passes a negative wait on into the budgets, and no document gives
it a meaning.

**GoxHttpContext** (with **Timeouts** and **ConfigDefaults**) models setup, `Execute`'s two
lookups and `ReloadApi` map write by map write. A write has a beginning and an end, so a lookup may
fall inside it, and then the Go runtime may throw (`Throw`, `crashed`). The application
edits the configuration only while no reload runs; its edits are raw values, which
`SetupDefaults` mends in `Lock`, for all APIs, whichever is reloaded.

**Registry** is the abstract specification of the same: a table of versions, with neither
locks nor maps. A reload commits a new version of one API in one step, when the version
before has settled; a call is given the budget of the version in the table or, until it has
settled, the earlier one (none for a new API); hystrix's settings stay those of the first
version. `GoxHttpContext` implements it with `api <- Versions`: a version is committed when
calls can find its command, in `BeginCommand` if `UpdateCommand` exchanges what is inside the
registered hystrix command and in `PutCommand` otherwise, and settled by `PutTimeout`.

**TimedCall** adds the clock to the calls of one hystrix API. A call has its deadline
(`given`), hystrix its `timer`, the client a timeout per attempt (`left`), resty a wait that
grows; `plan` is the mixture of client timeout and retry policy a call gets, `via` the
client it runs through. `Edit` and `Reload` change configuration, client and deadline, but
not hystrix. `Tick` lets time pass only when nothing is due, so what code does takes no
time. Replies and refused attempts come at any time; interceptors that never return are
left to `HystrixCommand`.

**Interceptors** models the map of pre-request interceptors. A function lets the request
pass, stops it, panics, or (`Reentrant`) comes back for the lock that its own call holds.
A panic ends in the application when the API runs without hystrix; under hystrix it
happens in hystrix's goroutine and ends the process, which the model leaves out.
`ExecuteAsync` of `HttpCommand` is part of the module: `listener` is the other end of the
unbuffered channel; a panic in its goroutine ends the process (`Down`). The `ExecuteAsync`
of `HttpHystrixCommand` returns a nil channel, on which a receiver waits for ever.

**TypedCall** follows one call of `ExecuteHttp` through all layers, with status codes and
bodies: every reply, failure, refusal and interception.

**SignedRequest** follows the headers of one request through `buildRequest`, the HMAC
interceptor and resty's attempts. A header value is who set it (and when, for a
timestamp); a hash is what it was computed from. Header names are in canonical form, as
resty and `WithHeader` make them.

**Middleware** follows one request through gin's handler chain: `LoggerBefore`/`LoggerAfter`
and `ValidatorBefore`/`ValidatorAfter` are the two sides of `c.Next()`, `Handle` is any
handler of the application; `stack` is who is inside `c.Next()`, `reader` the request's
body, `response` what has been sent, `captured` and `log` the logger's view of it. gin is
external. The assumptions on its constants say what gin and the routes of an application
give: each middleware is at most once in a chain and before the handler, whose own
documents differ from the converter's. **Masking** is the pure part. A JSON document is a
function from addresses (the steps from the root) to nodes; `Visits` are the recursive
calls of `maskMapValues`, `Masked` the keys they find. `IsMaskOf` is its reference, which
does not descend: it counts the masked keys on each address.

`MC*.tla` give constants that a `.cfg` cannot express. Operators called `Name_Variant`
("A bug: ...") are faulty variants of `Name`: with one in its place, the property listed
under `mutants` in `PROJECT.json` is violated. No specification uses them.

## Runs

| Run | Bounds | States | Shows |
|---|---|---|---|
| Hystrix | 2 calls, 1 ticket, volume 1 | 30,110 | tickets, answers, error codes and breaker stay consistent, all calls return, `Execute` implements `Bulkhead` with its fairness |
| TimedCall | 2 symmetric calls, 1 ticket, 1 edit, 1 reload | 562,599 | attempts, waits and client timeouts against deadline and hystrix timer |
| HttpCommand | 2 calls, RetryCount -1, 0, 1, four codes, one rewrite | 269,628 | sends, policy, answers, termination |
| HttpRetryReload | 1 call, one rewrite | violation | an acceptable reply is sent again during a reload |
| GoxHttpContext | 2 APIs (one new), 2 reloaders, 1 call, 3 edits | 354,119 | registration, budgets, edits, commands, defaults; the maps under the lock implement `Registry` |
| ReloadBudget | 1 API, 1 reload | violation | a reload forgets the retries in the budget |
| ReloadLock | 1 API, 1 reload, 1 call | violation | a lookup may meet a map write |
| Interceptors | 2 calls, 1 of them asynchronous, 1 admin, 3 functions, 2 changes | 103,054 | interception, changes of the map, the answer of an asynchronous call |
| TypedCall | 7 codes, 4 kinds of body | 2,008 | what the typed caller learns |
| TypedStatus | as TypedCall | violation | a listed 404 without body is told as a 500 |
| SignedRequest | 4 headers, 3 settings per source, 5 interceptor settings, 2 sends, 2 ticks | 559,872 | precedence, signature, repeats |
| Middleware | 2 chains, 3 bodies, 3 replies, 4 sets of errors, 4 masking settings | 94,176 | the handler's body, the log, masking, validation errors |

Why these bounds are enough to be of use:

- Two calls and one ticket let one call be refused by the pool while the other times out,
  hangs or reports late; volume 1 lets the breaker open on one report. The safety
  properties are proved without bounds.
- In `TimedCall` one call runs beside what another has left behind. The configurations
  have no retry, one and two; with two, the growth of resty's waits between half and the
  whole of the doubled wait shows, and with the small `MaxWait` also its limit. An edit
  before the first request, and a reload before or after it, give all the mixtures of
  old and new values. The run does without `TypeOK`, which is proved.
- Two calls are what a race for the `sync.Once` needs. A count of -1, 0 and 1 gives no
  policy, a policy without retries, and one retry; the four codes are each a
  combination of error or not, accepted or not.
- Two reloaders can edit the same or different APIs; the third edit comes after the
  first has been overtaken. The configurations have a timeout on either side of the
  10 ms at which the delta changes its form, a negative and a positive retry count,
  hystrix on and off, and an unbuildable API.
- In `SignedRequest` the headers are independent but for the signature, and each is set
  or not set by every source; the clock may tick before, between and after the sends.
- In `Middleware` the logger is outermost or behind the validator, handlers write through
  `Write` and past it, send a status alone, abort and panic; the bodies have a secret at
  top level, in a nested object, in a list and in a list in a list.

Deadlock is checked in all runs; `Quiescent` and `Done` are the states in which all work
is done, or in which the process has ended or is stuck as the module says.

## Fairness

- `HystrixCommand`: weak fairness for each goroutine, which Go's scheduler gives to one
  that can run, and for the timer. None for `InnerReturns`: the wrapped command may hang
  for ever, and calls return all the same.
- `HttpCommand`: weak fairness for each call. `AttemptFails` is part of it because
  `NewHttpCommand` sets a client timeout; `Reply` is not, since a server need not answer;
  nor are `ContextEnds` and the rewrite.
- `GoxHttpContext` and `Interceptors`: weak fairness for whoever holds the lock, strong
  fairness for taking it: a Go mutex hands over to a waiter that has been starved for a
  millisecond. A function that comes back to the package is exempt (`Stuck`).
- `Bulkhead`: weak fairness of the release and of the answer, which `RefinesBulkhead`
  shows to follow from the fairness of `HystrixCommand`.
- `TimedCall`, `TypedCall`, `SignedRequest` and `Middleware` state safety only. An answer
  of an asynchronous call needs weak fairness of `Deliver`, which both ends being ready
  justifies; whether a listener stays is its own affair (`Leave`).

## What is proved

`HystrixCommandProofs` (any finite set of calls, any pool, any volume), from
`HystrixAssumption`. An answer is the end of a chain: it repeats a channel, the channel
was filled by the block of the `sync.Once` or the closure, the block was entered by
runner or timer, the runner has or has not run the closure. None of the properties is
inductive without that chain, so `IInv` has one conjunct per link (`RunnerInv`, `OnceInv`,
`ChannelInv`, `AnswerInv`) besides `TypeOK` and `TicketsConserved`. From it follow
`TypeOK`, `TicketsConserved`, `ErrorMeansTicketBack`, `NoErrorMeansRan`,
`HystrixErrorsAreHonest` and `CircuitOpenIsEarned`; `ImplementsBulkhead` proves that initial states map to initial
states and steps to steps or stutters (`Bulkhead`'s safety part). The library's facts
about finite cardinalities count the tickets. `NoAnswerIsLost` adds what the callers
count on (`SelectInv`): at the end of the block one of the two channels has been filled.
From it `EveryExecuteReturns` climbs a ladder of predicates that stay once reached: runner
or timer enters the block, the runner gets to the pool, which lets the block give the
ticket back, the block fills a channel and is spent, the caller takes what is in it.
`BulkheadIsServed` is the fairness of `Bulkhead` on the same ladder.

`HttpCommandProofs` (any calls, any codes, any integer retry counts, any rewrites), from
`HttpAssumption`. `BoundedSends` depends on the client's retry count, which depends on who
ran the `sync.Once` and when; `IInv` says that at most one call is inside, that whoever is
past it finds the whole policy, that attempts stay within the retry count and sends
within the attempts, and that emptied codes are still to be appended. From it follow
`TypeOK`, `BoundedSends`, `PolicyBeforeSend`, `AnswerFollowsCodes` and `AcceptableIsFinal`.
`EveryAttemptEnds`: whoever runs the block of the `sync.Once` leaves it (`SomebodyInside`
says that there is somebody), so that no call waits there for ever, and every later stage
of an attempt leads on; an attempt ends in the answer or the next attempt. By `SendInv`
the attempt after the last retry cannot be, so `LastAttemptReturns`.

`GoxHttpContextProofs` (any names, configurations, callers, reloaders, edits), from
`ContextAssumption`: any timeouts and counts in the file and in edits, waits not negative,
integers without bound. First arithmetic: `BudgetsCover` shows the
hystrix timeout to cover the budget, for all timeouts, counts and waits; `DefaultsAreUsable`
shows what `SetupDefaults` leaves to have a timeout. Then `IInv`: only
the holder of the lock is inside a reload, where it is fixes what it has written, a
command is written before its budget, and an API whose budget is short or not current is
one that somebody is reloading or has asked to reload. From it follow `TypeOK`,
`AllOrNothing`, `HystrixOutlastsDeadline`, `SetupCallsHaveTime`, `QuietMeansCurrent` and
`CommandsStay`. `ImplementsRegistry` proves that the module implements `Registry`, which
states no fairness and so is proved whole. It needs two facts more (`RInv`): between
`BeginCommand` and `PutCommand` a registered hystrix command already is the new one
(`Exchanged`), and what a call has found stays registered (`FoundIsKnown`).
`EveryReloadReturns`: whoever has the lock is inside a reload (`HolderInside`), where there
is nothing to wait for, so the lock becomes free again and again, and a reload that asks for
it gets it by strong fairness.

`TimedCallProofs` (any calls, pool, configurations, edits and reloads), from
`TimedAssumption`. `HystrixWaitsLonger` is the arithmetic of the budgets. `IInv` bounds the time a request has used by the attempts it was granted
and the waits it has made (`TimeInv`), ties what a call runs under to the client it runs
through (`PlanInv`), and a running request without a caller to the hystrix timer
(`CallerInv`). From it follow `TypeOK`, `AttemptsFit`, `FirstAttemptHasTime`,
`OverlapIsMomentary` and `OnePolicyPerClient`.

`InterceptorsProofs` (any calls, functions, changes), from `InterceptorsAssumption` and
`NamesAssumption`. `IInv` says what the lock protects: its holder alone is inside the range
statement, and what that call has visited, runs and has yet to visit is together the map
as it is now. From it follow `TypeOK`, `UnregisteredRests` and `NobodyIsOverruled`.

`TypedCallProofs` (any codes), from `TypedAssumption`: which pairs of response and error
there can be, by what happened to the request (`PairFits`), and what `internalExecuteHttp`
makes of each. All four properties and `TypeOK` follow.

`SignedRequestProofs` (any names, headers, settings, sends, time), from
`SigningAssumption`: the headers after each source as a function of what the sources set
(`AfterMdc` to `AfterContext`), and those of the finished request as a function of that and
of the moment of signing (`Ready`). All four properties and `TypeOK` follow; that repeated
sends change nothing is the idempotence of `Set` (`SetTwice`).

`MiddlewareProofs` (any chains, documents, headers, replies, errors and configurations that
meet the four assumptions of `Middleware`). First the masking: `MaskedAsSpecified` shows
`maskMapValues` to yield what `IsMaskOf` says, for every document. `Visits` is a recursive
function, whose value at an address depends on shorter ones; that it is what `Reached`
states without recursion (`VisitsOpen`) rests on `VisitsUnfolds`: at the least length at which the
two could differ (`Least`) they agree on all shorter addresses, so they do not differ.
`SecretOfPrefix` and `MaskedFields` turn the calls into keys on the address. Then the chain:
`StackInv` says in which order the two middlewares can be inside `c.Next()`, `CapturedInv`
that what the logger holds is what has been sent, `LogInv` that a log was written after
the last of it, `ReaderInv` that the body is whole until the handler, `AnswerInv` that the
validator answers when all errors are there and that nothing else looks like its answer.
Each needs the others: the log is complete only because no validator answers behind an
outermost logger, which is a fact about the stack. From `IInv` follow all four properties.

The four theorems that say something will happen do not start from `Spec`. The provers
cannot expand ENABLED, which WF_ and SF_ contain, so each of the modules states its fairness
once more (`GuardedFairness`): in the place of ENABLED stands the guard of the step, its
conjuncts without primes (`CanReturn`, `CanStep`, `CanLock` and so on). A step whose guard
holds is enabled since its other conjuncts give the next state, and changes that, so the
two say the same. That step is not proved; TLC, given the equality of guard and ENABLED as
an invariant of the instances of `Hystrix`, `HttpCommand` and `GoxHttpContext`, finds no
state in which they differ (no run of this directory repeats that).

Only model-checked: that `Spec` with its WF_ and SF_ yields the liveness properties;
`CallsReturn` of `HttpCommand`, which needs an induction over the attempts on top of
`EveryAttemptEnds`; the liveness of `Interceptors` (`CallsReturn`, `ChangesReturn`,
`ListenersAreAnswered`), which needs one over the functions still to visit. An induction
theorem takes a predicate as a parameter, which none of the provers can instantiate.

## Findings

Each is a run whose property is a sentence of the repository and is violated.

1. `HttpRetryReload`: http_command.go:210 says that acceptable replies are not sent
   again. `SetupDefaults` (internal.go:54) empties the codes under running calls.
2. `ReloadBudget`: interface.go:77 adds time for retries. A reload (api_impl.go:128, 160)
   registers the plain timeout instead.
3. `ReloadLock`: api_impl.go:85 locks updates. `Execute` reads the same maps without the
   lock.
4. `TypedStatus`: helper_test.go:255 expects the reply's status. A listed error code
   without body falls through `processError` to status 500.

Met on the way, without a run of their own:

- README.md:105 calls `concurrency` the maximum of parallel requests. A call that hystrix
  gives up returns its ticket while its request goes on, so for a moment there are more
  (two active requests with one ticket are reachable in `TimedCall`); `OverlapIsMomentary`
  shows that no time passes in this state as long as the request observes its context. An
  interceptor or a response builder of the application need not.
- The switch of README.md:57-68 asks `Is4xx` before the hystrix predicates, and `errorCreator`
  gives hystrix errors status 400.
- The default content type replaces that of the API's and the server's headers, although
  README.md:224 has it apply only if none is specified (`Winner` in `SignedRequest` says
  what the code does). README.md:209 configures headers of an API in YAML, which
  `UnmarshalYAML` never reads into `Api.Headers`.
- An API with another method than the five of http_command.go:138-149 is not sent, and the
  nil response is dereferenced.
- `HmacConfig.Disabled` is read by nobody; `GoxHttpError.Is3xx` (errors.go:54) tests the
  range of 4xx.
- The logger's writer sees only `Write`, so what a handler sends with `WriteString` is
  missing in the log (`LogIsWhatWasSent` excepts it); an error that ends the reading of the
  body is dropped (req_resp_logger_mw.go:61), and the handler takes a part for the whole;
  a list directly within a list, and a body that is a list, are not masked.
- The validator appends its 400 document to what a handler has already sent.

## Not modelled, and why

- Wording, logging, metrics, spans, connection tracking: no state a property is about.
  The unlocked append of the tracking callbacks is listed as a hazard.
- The other keys of APIs and servers in the configuration: they are copied, and an entry
  that does not parse ends the whole parsing. `UpdateServerWithUrl` sets one field.
- Query, path parameters and body of a request: they do not interact with anything. A
  body that cannot be made is `BuildFails`.
- `HystrixConfigMap`, a hook that overrides the hystrix settings in tests.
- Overflow of timeouts: budgets are computed in Go's `int`, 64 bits wide; with
  milliseconds as units no sensible configuration gets near.

## Plan

Done: all components but those above, in the order `HystrixCommand` and `Bulkhead`,
`HttpCommand`, `Timeouts` and `GoxHttpContext`, `Interceptors`, `TypedCall`, `SignedRequest`,
`ConfigDefaults`, `TimedCall`, `Middleware`; proofs of every invariant and action property
that a run checks, and of liveness as far as no induction is needed. Left, in order of what they would tell:

1. The middleware that the application had put into a client which a reload replaces.
2. A refinement of `TimedCall`'s untimed part to `HystrixCommand`.
3. `UpdateServerWithUrl` and `FindServerByName` under a reload; the unsupported method.

New questions join existing runs where they use the same module and bounds, so that the
number of runs stays small.
