-------------------------- MODULE TimedCallProofs --------------------------
(***************************************************************************)
(* Theorems about TimedCall, for any finite set of calls, any pool size,   *)
(* any configurations and any number of edits and reloads.                 *)
(***************************************************************************)
EXTENDS TimedCall, FiniteSetTheorems, TLAPS

(* The two budgets of an API (module Timeouts), for all numbers that may   *)
(* be configured.                                                          *)
LEMMA DeltaIsPositive ==
    ASSUME NEW t \in Nat PROVE WithDelta(t) \in Nat /\ WithDelta(t) > t
BY DEF WithDelta

LEMMA RetriesAdd ==
    ASSUME NEW cf, cf.timeout \in Nat, cf.retryCount \in Int, cf.wait \in Nat
    PROVE  WithRetries(cf) \in Nat /\ WithRetries(cf) >= cf.timeout
<1>1. CASE cf.retryCount > 0
  <2>. DEFINE p == cf.timeout * cf.retryCount
  <2>1. p \in Nat
    BY <1>1
  <2>2. WithRetries(cf) = cf.timeout + p + cf.wait
    BY <1>1 DEF WithRetries
  <2>. HIDE DEF p
  <2>. QED
    BY <2>1, <2>2
<1>2. CASE ~(cf.retryCount > 0)
  BY <1>2 DEF WithRetries
<1>. QED
  BY <1>1, <1>2

(* The hystrix timeout of a configuration is at least its request budget,  *)
(* which is at least the timeout of one attempt (NewHttpHystrixCommand and *)
(* Api.GetTimeoutWithRetryIncluded), whatever the numbers.                 *)
THEOREM HystrixWaitsLonger ==
    ASSUME NEW cf, cf.timeout \in Nat, cf.retryCount \in Int, cf.wait \in Nat
    PROVE  /\ GetTimeoutWithRetryIncluded(cf) \in Nat
           /\ GetTimeoutWithRetryIncluded(cf) >= cf.timeout
           /\ HystrixTimeout(cf) \in Nat
           /\ HystrixTimeout(cf) >= GetTimeoutWithRetryIncluded(cf)
<1>. DEFINE w == WithRetries(cf)
            d == WithDelta(w)
<1>1. w \in Nat /\ w >= cf.timeout
  BY RetriesAdd
<1>2. d \in Nat /\ d > w
  BY <1>1, DeltaIsPositive
<1>3. HystrixTimeout(cf) = d
  BY DEF HystrixTimeout
<1>4. GetTimeoutWithRetryIncluded(cf) \in {cf.timeout, d}
  BY DEF GetTimeoutWithRetryIncluded
<1>. HIDE DEF w, d
<1>. QED
  BY <1>1, <1>2, <1>3, <1>4

-----------------------------------------------------------------------------

(* Execute and its ticket: a call that waits has one and its request is    *)
(* under way; a request that goes on without its caller was given up by    *)
(* hystrix.                                                                *)
CallerInv(c) ==
    /\ c \in holders <=> caller[c] = "waiting"
    /\ caller[c] = "waiting" => Active(c)
    /\ caller[c] = "idle" => request[c] = "none"
    /\ Active(c) /\ caller[c] # "waiting" => age[c] >= timer

(* What a call goes by is what its client had.                             *)
PlanInv(c) ==
    request[c] # "none" =>
        /\ via[c] \in DOMAIN policies
        /\ plan[c].retryCount = policies[via[c]].retryCount
        /\ plan[c].wait = policies[via[c]].wait
        /\ plan[c].timeout > 0
        /\ via[c] = client.number => plan[c].timeout = client.timeout

(* The attempts that are over, or under way, had a client timeout each.    *)
Attempts(c) == IF request[c] = "paused" THEN attempt[c] - 1 ELSE attempt[c]

Granted(c) == Attempts(c) * plan[c].timeout

TimeInv(c) ==
    /\ request[c] = "none" => age[c] = 0 /\ waited[c] = 0
    /\ Active(c) =>
          /\ given[c] >= plan[c].timeout
          /\ attempt[c] >= 1
          /\ attempt[c] = 1 \/ attempt[c] <= plan[c].retryCount + 1
          /\ attempt[c] = 1 => /\ request[c] = "sent"
                               /\ waited[c] = 0
                               /\ age[c] + left[c] = plan[c].timeout
          /\ attempt[c] = 2 /\ plan[c].wait > 0 => waited[c] = plan[c].wait
          /\ age[c] + left[c] <= Granted(c) + waited[c]

PerCall(c) == CallerInv(c) /\ PlanInv(c) /\ TimeInv(c)

ClientInv == 0 < client.timeout /\ client.timeout <= budget

IInv ==
    /\ TypeOK
    /\ ClientInv
    /\ Cardinality(holders) <= Concurrency
    /\ OnePolicyPerClient
    /\ \A c \in Calls : PerCall(c)

-----------------------------------------------------------------------------
(* Numbers.                                                                *)
LEMMA WaitsAreTimes ==
    ASSUME NEW wait \in Nat, NEW k, NEW w \in Waits(wait, k)
    PROVE  w \in Nat /\ (k = 1 => w = wait)
<1>1. CASE k = 1
  BY <1>1 DEF Waits
<1>2. CASE k # 1
  <2>. DEFINE limit == AtLeast(wait, MaxWait)
  <2>1. w \in wait .. limit
    BY <1>2 DEF Waits
  <2>2. limit \in Nat
    BY TimedAssumption DEF AtLeast
  <2>. HIDE DEF limit
  <2>. QED
    BY <1>2, <2>1, <2>2
<1>. QED
  BY <1>1, <1>2

LEMMA OneMore ==
    ASSUME NEW n \in Nat, NEW t \in Nat
    PROVE  /\ n * t \in Nat
           /\ (n + 1) * t = n * t + t
OBVIOUS

LEMMA ProductsGrow ==
    ASSUME NEW m \in Nat, NEW n \in Nat, NEW t \in Nat, m <= n
    PROVE  m * t <= n * t
<1>1. PICK k \in Nat : n = m + k
  <2>1. n - m \in Nat /\ n = m + (n - m)
    OBVIOUS
  <2>. QED
    BY <2>1
<1>2. n * t = m * t + k * t
  BY <1>1
<1>3. k * t \in Nat /\ m * t \in Nat
  OBVIOUS
<1>. QED
  BY <1>2, <1>3

LEMMA ConfigType ==
    ASSUME TypeOK
    PROVE  /\ api.timeout \in Nat \ {0}
           /\ api.retryCount \in Int
           /\ api.wait \in Nat
           /\ Policy \in [retryCount : Int, wait : Nat]
BY TimedAssumption DEF TypeOK, Policy

-----------------------------------------------------------------------------
LEMMA Initially == Init => IInv
<1>. SUFFICES ASSUME Init PROVE IInv
  OBVIOUS
<1>1. /\ api.timeout \in Nat \ {0}
      /\ api.retryCount \in Int
      /\ api.wait \in Nat
  BY TimedAssumption DEF Init
<1>2. /\ timer \in Nat /\ budget \in Nat
      /\ client.timeout = api.timeout /\ client.number = 0
      /\ ClientInv
  BY <1>1, HystrixWaitsLonger DEF Init, ClientInv
<1>3. TypeOK
  BY <1>1, <1>2, TimedAssumption DEF Init, TypeOK, Plans, NoPlan
<1>4. Cardinality(holders) <= Concurrency
  BY FS_EmptySet, TimedAssumption DEF Init
<1>5. OnePolicyPerClient /\ \A c \in Calls : PerCall(c)
  BY DEF Init, OnePolicyPerClient, PerCall, CallerInv, PlanInv, TimeInv, Active
<1>. QED
  BY <1>2, <1>3, <1>4, <1>5 DEF IInv

-----------------------------------------------------------------------------
(* The application.                                                        *)
LEMMA Editing == ASSUME IInv, Edit PROVE IInv'
<1>1. TypeOK'
  BY TimedAssumption DEF IInv, Edit, TypeOK, calls
<1>2. OnePolicyPerClient' /\ \A c \in Calls : PerCall(c)'
  BY DEF IInv, Edit, calls, OnePolicyPerClient, PerCall, CallerInv, PlanInv, TimeInv,
         Active, Granted, Attempts
<1>. QED
  BY <1>1, <1>2 DEF IInv, ClientInv, Edit, calls

LEMMA Reloading == ASSUME IInv, Reload PROVE IInv'
<1>1. api.timeout \in Nat \ {0} /\ MaxReloads \in Nat
  BY ConfigType, TimedAssumption DEF IInv
<1>2. client' = [number |-> client.number + 1, timeout |-> api.timeout]
  BY DEF Reload
<1>3. client.number \in 0 .. MaxReloads /\ client.number < MaxReloads
  BY DEF IInv, TypeOK, Reload
<1>4. TypeOK'
  <2>1. client' \in [number : 0 .. MaxReloads, timeout : Nat]
    BY <1>1, <1>2, <1>3
  <2>2. DOMAIN policies' \subseteq 0 .. client'.number
    BY <1>2, <1>3 DEF IInv, TypeOK, Reload
  <2>. QED
    BY <1>1, <2>1, <2>2 DEF IInv, TypeOK, Reload, calls
<1>5. ASSUME NEW c \in Calls PROVE PerCall(c)'
  <2>1. CallerInv(c)' /\ TimeInv(c)'
    BY <1>5 DEF IInv, Reload, calls, PerCall, CallerInv, TimeInv, Active, Granted, Attempts
  <2>2. PlanInv(c)'
    <3>1. request[c] # "none" => via[c] # client'.number
      BY <1>2, <1>3, <1>5 DEF IInv, TypeOK, PerCall, PlanInv
    <3>. QED
      BY <1>5, <3>1 DEF IInv, Reload, calls, PerCall, PlanInv
  <2>. QED
    BY <2>1, <2>2 DEF PerCall
<1>6. OnePolicyPerClient'
  BY DEF IInv, Reload, calls, OnePolicyPerClient
<1>7. ClientInv'
  BY <1>1, <1>2 DEF Reload, ClientInv
<1>. QED
  BY <1>4, <1>5, <1>6, <1>7 DEF IInv, Reload, calls

-----------------------------------------------------------------------------
(* Steps of one call.                                                      *)
LEMMA Refusing == ASSUME IInv, NEW c \in Calls, Refuse(c) PROVE IInv'
<1>1. TypeOK'
  BY DEF IInv, Refuse, TypeOK, shared
<1>2. OnePolicyPerClient' /\ \A d \in Calls : PerCall(d)'
  BY DEF IInv, TypeOK, Refuse, shared, OnePolicyPerClient, PerCall, CallerInv, PlanInv,
         TimeInv, Active, Granted, Attempts
<1>. QED
  BY <1>1, <1>2 DEF IInv, ClientInv, Refuse, shared

LEMMA Executing == ASSUME IInv, NEW c \in Calls, Execute(c) PROVE IInv'
<1>. DEFINE p == [timeout |-> client.timeout, retryCount |-> Policy.retryCount,
                  wait |-> Policy.wait]
<1>1. /\ Policy \in [retryCount : Int, wait : Nat]
      /\ client.timeout \in Nat /\ client.number \in 0 .. MaxReloads
      /\ budget \in Nat /\ 0 < client.timeout /\ client.timeout <= budget
      /\ DOMAIN policies \subseteq 0 .. client.number
  BY ConfigType DEF IInv, TypeOK, ClientInv
<1>2. p \in Plans /\ p.timeout = client.timeout
      /\ p.retryCount = Policy.retryCount /\ p.wait = Policy.wait
  BY <1>1 DEF Plans
<1>3. plan' = [plan EXCEPT ![c] = p]
  BY DEF Execute
<1>. HIDE DEF p
<1>4. /\ DOMAIN policies' = DOMAIN policies \cup {client.number}
      /\ policies'[client.number] = Policy
      /\ \A n \in DOMAIN policies : policies'[n] = policies[n]
  <2>1. client.number \in DOMAIN policies => Policy = policies[client.number]
    BY DEF Policy
  <2>2. policies' = [n \in DOMAIN policies \cup {client.number} |->
                       IF n = client.number THEN Policy ELSE policies[n]]
    BY DEF Execute
  <2>. QED
    BY <2>1, <2>2
<1>5. TypeOK'
  <2>1. DOMAIN policies' \subseteq 0 .. client.number
    BY <1>1, <1>4, TimedAssumption
  <2>2. \A n \in DOMAIN policies' : policies'[n] \in [retryCount : Int, wait : Nat]
    BY <1>1, <1>4 DEF IInv, TypeOK
  <2>. QED
    BY <1>1, <1>2, <1>3, <2>1, <2>2 DEF IInv, TypeOK, Execute
<1>6. /\ request[c] = "none" /\ age[c] = 0 /\ waited[c] = 0
      /\ c \notin holders
  BY DEF IInv, TypeOK, PerCall, CallerInv, TimeInv, Execute
<1>7. ASSUME NEW d \in Calls PROVE PerCall(d)'
  <2>1. CASE d = c
    <3>1. CallerInv(c)'
      BY DEF IInv, TypeOK, Execute, CallerInv, Active
    <3>2. PlanInv(c)'
      BY <1>1, <1>2, <1>3, <1>4 DEF IInv, TypeOK, Execute, PlanInv
    <3>3. TimeInv(c)'
      <4>1. /\ age'[c] = 0 /\ waited'[c] = 0 /\ left'[c] = client.timeout
            /\ attempt'[c] = 1 /\ request'[c] = "sent" /\ given'[c] = budget
            /\ plan'[c].timeout = client.timeout
        BY <1>2, <1>3, <1>6 DEF IInv, TypeOK, Execute
      <4>2. Granted(c)' = client.timeout
        BY <1>1, <4>1 DEF Granted, Attempts
      <4>. QED
        BY <1>1, <4>1, <4>2 DEF TimeInv
    <3>. QED
      BY <2>1, <3>1, <3>2, <3>3 DEF PerCall
  <2>2. CASE d # c
    <3>1. CallerInv(d)' /\ TimeInv(d)'
      BY <1>3, <1>7, <2>2 DEF IInv, TypeOK, Execute, PerCall, CallerInv, TimeInv, Active,
         Granted, Attempts
    <3>2. PlanInv(d)'
      BY <1>3, <1>4, <1>7, <2>2 DEF IInv, TypeOK, Execute, PerCall, PlanInv
    <3>. QED
      BY <3>1, <3>2 DEF PerCall
  <2>. QED
    BY <2>1, <2>2
<1>8. OnePolicyPerClient'
  <2>1. ASSUME NEW d \in Calls, d # c, request[d] # "none", via[d] = client.number
        PROVE  plan[d] = p
    <3>1. /\ client.number \in DOMAIN policies
          /\ plan[d].retryCount = policies[client.number].retryCount
          /\ plan[d].wait = policies[client.number].wait
          /\ plan[d].timeout = client.timeout
          /\ plan[d] \in Plans
      BY <2>1 DEF IInv, TypeOK, PerCall, PlanInv
    <3>. QED
      BY <1>2, <3>1 DEF Plans, Policy
  <2>2. /\ plan'[c] = p /\ via'[c] = client.number
        /\ \A d \in Calls \ {c} :
              plan'[d] = plan[d] /\ via'[d] = via[d] /\ request'[d] = request[d]
    BY <1>3 DEF IInv, TypeOK, Execute
  <2>. QED
    BY <2>1, <2>2 DEF IInv, OnePolicyPerClient
<1>9. Cardinality(holders') <= Concurrency
  <2>1. IsFiniteSet(holders) /\ Cardinality(holders) \in Nat
    BY TimedAssumption, FS_Subset, FS_CardinalityType DEF IInv, TypeOK
  <2>2. Cardinality(holders') = Cardinality(holders) + 1
    BY <1>6, <2>1, FS_AddElement DEF Execute
  <2>. QED
    BY <2>1, <2>2, TimedAssumption DEF Execute
<1>. QED
  BY <1>1, <1>5, <1>7, <1>8, <1>9 DEF IInv, ClientInv, Execute

(* A request that is over, and a caller that returns, leave fewer holders. *)
LEMMA Leaving ==
    ASSUME IInv, NEW c \in Calls, holders' = holders \ {c}
    PROVE  Cardinality(holders') <= Concurrency
<1>1. IsFiniteSet(holders) /\ Cardinality(holders) \in Nat
  BY TimedAssumption, FS_Subset, FS_CardinalityType DEF IInv, TypeOK
<1>2. Cardinality(holders') <= Cardinality(holders) /\ Cardinality(holders') \in Nat
  BY <1>1, FS_Subset, FS_CardinalityType
<1>. QED
  BY <1>1, <1>2, TimedAssumption DEF IInv

LEMMA Finishing ==
    ASSUME IInv, NEW c \in Calls, NEW how \in {"over", "cut"}, Finish(c, how),
           Active(c)
    PROVE  IInv'
<1>1. TypeOK'
  BY DEF IInv, Finish, TypeOK, shared
<1>2. \A d \in Calls : PerCall(d)'
  BY DEF IInv, TypeOK, Finish, shared, PerCall, CallerInv, PlanInv, TimeInv, Active,
         Granted, Attempts
<1>3. OnePolicyPerClient'
  BY DEF IInv, TypeOK, Finish, shared, OnePolicyPerClient, Active
<1>4. Cardinality(holders') <= Concurrency
  BY Leaving DEF Finish
<1>. QED
  BY <1>1, <1>2, <1>3, <1>4 DEF IInv, ClientInv, Finish, shared

LEMMA Firing == ASSUME IInv, NEW c \in Calls, HystrixFires(c) PROVE IInv'
<1>1. TypeOK'
  BY DEF IInv, HystrixFires, TypeOK, shared
<1>2. OnePolicyPerClient' /\ \A d \in Calls : PerCall(d)'
  BY DEF IInv, TypeOK, HystrixFires, shared, OnePolicyPerClient, PerCall, CallerInv,
         PlanInv, TimeInv, Active, Granted, Attempts
<1>3. Cardinality(holders') <= Concurrency
  BY Leaving DEF HystrixFires
<1>. QED
  BY <1>1, <1>2, <1>3 DEF IInv, ClientInv, HystrixFires, shared

LEMMA Retrying == ASSUME IInv, NEW c \in Calls, Retry(c) PROVE IInv'
<1>1. PICK w \in Waits(WaitTime(c), attempt[c]) :
         /\ left' = [left EXCEPT ![c] = w]
         /\ waited' = [waited EXCEPT ![c] = @ + w]
  BY DEF Retry
<1>2. /\ plan[c] \in Plans /\ attempt[c] \in Nat /\ waited[c] \in Nat
      /\ age[c] \in Nat /\ left[c] \in Nat
      /\ TimeInv(c) /\ request[c] = "sent" /\ Active(c)
  BY DEF IInv, TypeOK, PerCall, Retry, Active
<1>3. /\ plan[c].timeout \in Nat /\ plan[c].retryCount \in Int /\ plan[c].wait \in Nat
      /\ WaitTime(c) \in Nat
      /\ plan[c].wait > 0 => WaitTime(c) = plan[c].wait
  BY <1>2, TimedAssumption DEF Plans, WaitTime
<1>4. w \in Nat /\ (attempt[c] = 1 /\ plan[c].wait > 0 => w = plan[c].wait)
  BY <1>3, WaitsAreTimes
<1>5. /\ left'[c] = w /\ waited'[c] = waited[c] + w
      /\ attempt'[c] = attempt[c] + 1 /\ request'[c] = "paused"
      /\ UNCHANGED <<shared, caller, holders, plan, via, given, age>>
  BY <1>1 DEF IInv, TypeOK, Retry
<1>6. TypeOK'
  BY <1>1, <1>2, <1>4, <1>5 DEF IInv, TypeOK, Retry, shared
<1>7. TimeInv(c)'
  <2>1. Granted(c)' = Granted(c) /\ Granted(c) \in Nat
    <3>1. Attempts(c)' = attempt[c] /\ Attempts(c) = attempt[c]
      BY <1>2, <1>5 DEF Attempts
    <3>. QED
      BY <1>2, <1>3, <1>5, <3>1, OneMore DEF Granted
  <2>2. attempt[c] <= plan[c].retryCount
    BY <1>2, <1>3 DEF Retry, Last
  <2>. HIDE DEF Granted, Attempts
  <2>. QED
    BY <1>2, <1>3, <1>4, <1>5, <2>1, <2>2 DEF TimeInv, Active
<1>8. ASSUME NEW d \in Calls PROVE PerCall(d)'
  <2>1. CASE d = c
    BY <1>2, <1>5, <1>7, <2>1 DEF IInv, PerCall, CallerInv, PlanInv, Active, shared
  <2>2. CASE d # c
    BY <1>1, <1>8, <2>2 DEF IInv, TypeOK, Retry, shared, PerCall, CallerInv, PlanInv,
       TimeInv, Active, Granted, Attempts
  <2>. QED
    BY <2>1, <2>2
<1>9. OnePolicyPerClient'
  BY <1>2 DEF IInv, TypeOK, Retry, shared, OnePolicyPerClient, Active
<1>. QED
  BY <1>5, <1>6, <1>8, <1>9 DEF IInv, ClientInv, shared

LEMMA Resending == ASSUME IInv, NEW c \in Calls, Resend(c) PROVE IInv'
<1>1. /\ plan[c] \in Plans /\ attempt[c] \in Nat /\ waited[c] \in Nat
      /\ age[c] \in Nat /\ left[c] = 0
      /\ TimeInv(c) /\ request[c] = "paused" /\ Active(c)
  BY DEF IInv, TypeOK, PerCall, Resend, Active
<1>2. plan[c].timeout \in Nat /\ plan[c].retryCount \in Int
  BY <1>1 DEF Plans
<1>3. /\ left'[c] = plan[c].timeout /\ request'[c] = "sent"
      /\ UNCHANGED <<shared, caller, holders, plan, via, given, age, attempt, waited>>
  BY DEF IInv, TypeOK, Resend
<1>4. TypeOK'
  BY <1>2, <1>3 DEF IInv, TypeOK, Resend, shared
<1>5. TimeInv(c)'
  <2>1. attempt[c] >= 1 /\ attempt[c] # 1
    BY <1>1 DEF TimeInv
  <2>2. /\ Granted(c) \in Nat
        /\ Granted(c)' = Granted(c) + plan[c].timeout
    <3>. DEFINE n == attempt[c] - 1
    <3>1. n \in Nat /\ attempt[c] = n + 1
      BY <1>1, <2>1
    <3>2. Attempts(c) = n /\ Attempts(c)' = n + 1
      BY <1>1, <1>3, <3>1 DEF Attempts
    <3>. HIDE DEF n
    <3>. QED
      BY <1>2, <1>3, <3>1, <3>2, OneMore DEF Granted
  <2>. HIDE DEF Granted, Attempts
  <2>. QED
    BY <1>1, <1>2, <1>3, <2>1, <2>2 DEF TimeInv, Active
<1>6. ASSUME NEW d \in Calls PROVE PerCall(d)'
  <2>1. CASE d = c
    BY <1>1, <1>3, <1>5, <2>1 DEF IInv, PerCall, CallerInv, PlanInv, Active, shared
  <2>2. CASE d # c
    BY <1>6, <2>2 DEF IInv, TypeOK, Resend, shared, PerCall, CallerInv, PlanInv,
       TimeInv, Active, Granted, Attempts
  <2>. QED
    BY <2>1, <2>2
<1>7. OnePolicyPerClient'
  BY <1>1 DEF IInv, TypeOK, Resend, shared, OnePolicyPerClient, Active
<1>. QED
  BY <1>3, <1>4, <1>6, <1>7 DEF IInv, ClientInv, shared

(* Time passes: what a call grows older, its attempt or wait grows shorter.*)
LEMMA Ticking == ASSUME IInv, Tick PROVE IInv'
<1>1. ASSUME NEW c \in Calls
      PROVE  /\ age[c] \in Nat /\ left[c] \in Nat
             /\ Active(c) => left[c] # 0
             /\ age'[c] = IF Active(c) THEN age[c] + 1 ELSE age[c]
             /\ left'[c] = IF Active(c) THEN left[c] - 1 ELSE left[c]
             /\ age'[c] \in Nat /\ left'[c] \in Nat
             /\ age'[c] >= age[c]
             /\ Active(c) => age'[c] + left'[c] = age[c] + left[c]
  BY <1>1 DEF IInv, TypeOK, Tick, Due
<1>2. /\ UNCHANGED <<shared, caller, request, holders, plan, via, given, attempt, waited>>
      /\ age' \in [Calls -> Nat] /\ left' \in [Calls -> Nat]
  BY <1>1 DEF Tick
<1>3. TypeOK'
  BY <1>2 DEF IInv, TypeOK, shared
<1>4. ASSUME NEW c \in Calls PROVE PerCall(c)'
  <2>1. CallerInv(c)' /\ PlanInv(c)'
    BY <1>1, <1>2, <1>4 DEF IInv, TypeOK, shared, PerCall, CallerInv, PlanInv, Active
  <2>2. TimeInv(c)'
    <3>1. Granted(c)' = Granted(c) /\ Active(c)' = Active(c)
      BY <1>2 DEF Granted, Attempts, Active
    <3>2. request[c] = "none" => ~Active(c)
      BY DEF Active
    <3>. QED
      BY <1>1, <1>2, <1>4, <3>1, <3>2 DEF IInv, PerCall, TimeInv
  <2>. QED
    BY <2>1, <2>2 DEF PerCall
<1>. QED
  BY <1>2, <1>3, <1>4 DEF IInv, ClientInv, shared, OnePolicyPerClient

LEMMA Consecution == IInv /\ [Next]_vars => IInv'
<1>. SUFFICES ASSUME IInv, [Next]_vars PROVE IInv'
  OBVIOUS
<1>1. ASSUME NEW c \in Calls,
             \/ Refuse(c) \/ Execute(c) \/ Retry(c) \/ Resend(c) \/ HystrixFires(c)
      PROVE  IInv'
  BY <1>1, Refusing, Executing, Retrying, Resending, Firing
<1>2. ASSUME NEW c \in Calls, Accepted(c) \/ LastFails(c) \/ CutOff(c) PROVE IInv'
  BY <1>2, Finishing DEF Accepted, LastFails, CutOff, Active
<1>3. CASE Edit \/ Reload \/ Tick
  BY <1>3, Editing, Reloading, Ticking
<1>4. CASE UNCHANGED vars
  BY <1>4 DEF IInv, ClientInv, vars, shared, calls, TypeOK, OnePolicyPerClient, PerCall, CallerInv,
     PlanInv, TimeInv, Active, Granted, Attempts
<1>. QED
  BY <1>1, <1>2, <1>3, <1>4 DEF Next, Quiescent

THEOREM Invariance == Spec => []IInv
BY Initially, Consecution, PTL DEF Spec

-----------------------------------------------------------------------------
(* Every variable keeps its type; in particular no client timeout and no   *)
(* wait runs below zero.                                                   *)
THEOREM TypeCorrectness == Spec => []TypeOK
<1>1. IInv => TypeOK
  BY DEF IInv
<1>. QED
  BY <1>1, Invariance, PTL

(* One client, one retry policy (the sync.Once of HttpCommand), however    *)
(* often the configuration is edited.                                      *)
THEOREM PoliciesAreFixed == Spec => []OnePolicyPerClient
<1>1. IInv => OnePolicyPerClient
  BY DEF IInv
<1>. QED
  BY <1>1, Invariance, PTL

(* A request that lost its ticket to another call ends before time passes: *)
(* Execute cancels the context of a call that hystrix gave up.             *)
THEOREM NoLastingOverlap == Spec => OverlapIsMomentary
<1>1. ASSUME IInv, Tick
      PROVE  Cardinality({c \in Calls : Active(c)}) <= Concurrency
  <2>1. {c \in Calls : Active(c)} \subseteq holders
    BY <1>1 DEF IInv, TypeOK, PerCall, CallerInv, Tick, Due, ContextOver, Active
  <2>2. IsFiniteSet(holders) /\ Cardinality(holders) \in Nat
    BY <1>1, TimedAssumption, FS_Subset, FS_CardinalityType DEF IInv, TypeOK
  <2>3. /\ Cardinality({c \in Calls : Active(c)}) <= Cardinality(holders)
        /\ Cardinality({c \in Calls : Active(c)}) \in Nat
    BY <2>1, <2>2, FS_Subset, FS_CardinalityType
  <2>. QED
    BY <1>1, <2>2, <2>3, TimedAssumption DEF IInv
<1>2. ASSUME [Next]_vars, ~Tick PROVE age' = age
  BY <1>2 DEF Next, vars, calls, Refuse, Execute, Accepted, LastFails, Finish, Retry,
     Resend, CutOff, HystrixFires, Edit, Reload, Quiescent
<1>3. IInv /\ [Next]_vars =>
        [age' # age => Cardinality({c \in Calls : Active(c)}) <= Concurrency]_vars
  BY <1>1, <1>2
<1>. QED
  BY <1>3, Invariance, PTL DEF Spec, OverlapIsMomentary

-----------------------------------------------------------------------------
(* Who is cut off.                                                         *)
LEMMA Cuts ==
    ASSUME IInv, [Next]_vars, NEW c \in Calls, CutNow(c)
    PROVE  /\ age[c] >= given[c] \/ age[c] >= timer
           /\ TimeInv(c) /\ Active(c)
           /\ plan[c] \in Plans /\ timer \in Nat /\ given[c] \in Nat
           /\ age[c] \in Nat /\ left[c] \in Nat /\ waited[c] \in Nat /\ attempt[c] \in Nat
<1>1. request'[c] # request[c] /\ request'[c] = "cut"
  BY DEF CutNow, Active
<1>2. CutOff(c)
  <2>1. ASSUME NEW d \in Calls, Refuse(d) \/ HystrixFires(d) PROVE FALSE
    BY <1>1, <2>1 DEF Refuse, HystrixFires
  <2>2. ASSUME NEW d \in Calls, Execute(d) \/ Retry(d) \/ Resend(d) PROVE FALSE
    BY <1>1, <2>2 DEF IInv, TypeOK, Execute, Retry, Resend
  <2>3. ASSUME NEW d \in Calls, Accepted(d) \/ LastFails(d) PROVE FALSE
    BY <1>1, <2>3 DEF IInv, TypeOK, Accepted, LastFails, Finish
  <2>4. ASSUME NEW d \in Calls, CutOff(d) PROVE d = c
    BY <1>1, <2>4 DEF IInv, TypeOK, CutOff, Finish
  <2>5. CASE Edit \/ Reload \/ Tick \/ UNCHANGED vars
    BY <1>1, <2>5 DEF Edit, Reload, Tick, vars, calls
  <2>. QED
    BY <2>1, <2>2, <2>3, <2>4, <2>5 DEF Next, Quiescent
<1>3. age[c] >= given[c] \/ age[c] >= timer
  BY <1>2 DEF IInv, PerCall, CallerInv, CutOff, ContextOver
<1>. QED
  BY <1>3 DEF IInv, TypeOK, PerCall, CutNow

(* No first attempt is cut short by another clock than its own, unless a   *)
(* reload gave the client more time than hystrix was ever told of.         *)
THEOREM FirstAttemptsFit == Spec => FirstAttemptHasTime
<1>1. ASSUME IInv, [Next]_vars, NEW c \in Calls, CutNow(c), attempt[c] = 1
      PROVE  left[c] = 0 \/ plan[c].timeout > timer
  BY <1>1, Cuts DEF TimeInv, Plans
<1>2. IInv /\ [Next]_vars =>
        [\A c \in Calls : CutNow(c) /\ attempt[c] = 1 =>
            left[c] = 0 \/ plan[c].timeout > timer]_vars
  BY <1>1
<1>. QED
  BY <1>2, Invariance, PTL DEF Spec, FirstAttemptHasTime

(* The budget of setup holds all attempts, and one initial wait and ten    *)
(* percent for all waits, for any timeout, retry count and wait.           *)
THEOREM RetriesFit == Spec => AttemptsFit
<1>1. ASSUME IInv, [Next]_vars, NEW c \in Calls, CutNow(c),
             AtMost(given[c], timer) >= GetTimeoutWithRetryIncluded(plan[c])
      PROVE  \/ request[c] = "sent" /\ Last(c) /\ left[c] = 0
             \/ WaitsExceedBudget(c)
  <2>. DEFINE t == plan[c].timeout
              r == plan[c].retryCount
              g == GetTimeoutWithRetryIncluded(plan[c])
              a == attempt[c]
  <2>1. /\ age[c] >= given[c] \/ age[c] >= timer
        /\ TimeInv(c) /\ Active(c)
        /\ plan[c] \in Plans /\ timer \in Nat /\ given[c] \in Nat
        /\ age[c] \in Nat /\ left[c] \in Nat /\ waited[c] \in Nat /\ a \in Nat
        /\ t > 0
    BY <1>1, Cuts DEF IInv, PerCall, PlanInv, Active
  <2>2. t \in Nat /\ r \in Int /\ plan[c].wait \in Nat
    BY <2>1 DEF Plans
  <2>3. g \in Nat /\ g >= t /\ age[c] >= g
    BY <1>1, <2>1, <2>2, HystrixWaitsLonger DEF AtMost
  <2>4. CASE r <= 0
    <3>1. a = 1
      BY <2>1, <2>2, <2>4 DEF TimeInv
    <3>. QED
      BY <2>1, <2>2, <2>3, <2>4, <3>1 DEF TimeInv, Last
  <2>5. CASE r > 0
    <3>1. /\ WithRetries(plan[c]) = t + t * r + plan[c].wait
          /\ WithRetries(plan[c]) \in Nat
          /\ g = WithDelta(WithRetries(plan[c]))
          /\ t * r \in Nat /\ r * t = t * r
      BY <2>2, <2>5, RetriesAdd DEF WithRetries, GetTimeoutWithRetryIncluded
    <3>2. /\ Spare(plan[c]) = g - WithRetries(plan[c])
          /\ Spare(plan[c]) \in Nat /\ Spare(plan[c]) > 0
      BY <2>3, <3>1, DeltaIsPositive DEF Spare
    <3>3. a >= 1 /\ a <= r + 1 /\ r \in Nat
      BY <2>1, <2>2, <2>5 DEF TimeInv
    <3>4. /\ Granted(c) \in Nat
          /\ Granted(c) <= t * r + t
          /\ Attempts(c) <= r => Granted(c) <= t * r
      <4>1. Attempts(c) \in Nat /\ Attempts(c) <= r + 1
        BY <2>1, <3>3 DEF Attempts
      <4>2. Granted(c) \in Nat /\ Granted(c) <= (r + 1) * t
        BY <2>2, <3>3, <4>1, ProductsGrow, OneMore DEF Granted
      <4>3. (r + 1) * t = r * t + t
        BY <2>2, <3>3, OneMore
      <4>4. Attempts(c) <= r => Granted(c) <= r * t
        BY <2>2, <3>3, <4>1, ProductsGrow DEF Granted
      <4>. HIDE DEF Granted, t, r
      <4>. QED
        BY <3>1, <4>2, <4>3, <4>4
    <3>5. waited[c] + Granted(c) >= t * r + t + plan[c].wait + Spare(plan[c]) + left[c]
      <4>1. age[c] + left[c] <= Granted(c) + waited[c]
        BY <2>1 DEF TimeInv
      <4>. DEFINE p == t * r
      <4>. HIDE DEF g, p
      <4>2. p \in Nat /\ WithRetries(plan[c]) = t + p + plan[c].wait
        BY <3>1 DEF p
      <4>3. waited[c] + Granted(c) >= p + t + plan[c].wait + Spare(plan[c]) + left[c]
        BY <2>1, <2>2, <2>3, <3>1, <3>2, <3>4, <4>1, <4>2
      <4>. QED
        BY <4>3 DEF p
    <3>. DEFINE p == t * r
    <3>6. /\ p \in Nat
          /\ waited[c] + Granted(c) >= p + t + plan[c].wait + Spare(plan[c]) + left[c]
          /\ Granted(c) <= p + t
          /\ Attempts(c) <= r => Granted(c) <= p
      BY <3>1, <3>4, <3>5
    <3>. HIDE DEF p
    <3>7. waited[c] >= plan[c].wait + Spare(plan[c]) + left[c]
      BY <2>1, <2>2, <3>2, <3>4, <3>6
    <3>8. a > 2 \/ plan[c].wait = 0
      BY <2>1, <2>2, <3>2, <3>3, <3>7 DEF TimeInv
    <3>9. CASE left[c] > 0
      BY <2>1, <2>2, <3>2, <3>7, <3>8, <3>9 DEF WaitsExceedBudget
    <3>10. CASE ~(request[c] = "sent" /\ Last(c))
      <4>1. Attempts(c) <= r
        BY <2>1, <2>2, <3>3, <3>10 DEF Attempts, Last, Active
      <4>2. waited[c] >= t + plan[c].wait + Spare(plan[c])
        BY <2>1, <2>2, <3>2, <3>4, <3>6, <4>1
      <4>. QED
        BY <2>1, <2>2, <3>2, <3>8, <4>2 DEF WaitsExceedBudget
    <3>. QED
      BY <2>1, <3>9, <3>10
  <2>. QED
    BY <2>2, <2>4, <2>5
<1>2. IInv /\ [Next]_vars =>
        [\A c \in Calls :
            CutNow(c) /\ AtMost(given[c], timer) >= GetTimeoutWithRetryIncluded(plan[c]) =>
                \/ request[c] = "sent" /\ Last(c) /\ left[c] = 0
                \/ WaitsExceedBudget(c)]_vars
  BY <1>1
<1>. QED
  BY <1>2, Invariance, PTL DEF Spec, AttemptsFit
=============================================================================
