------------------------ MODULE HystrixCommandProofs ------------------------
(***************************************************************************)
(* Proofs about HystrixCommand, for any finite set of calls, any pool size *)
(* and any request volume.                                                 *)
(*                                                                         *)
(* The safety properties say what a caller may conclude from its answer;   *)
(* none is inductive, because an answer is the end of a chain: the answer  *)
(* comes from a channel, the channel from the block of the sync.Once, the  *)
(* block from the goroutine that entered it, and that one from what the    *)
(* runner did.  IInv has one conjunct per link of that chain.              *)
(***************************************************************************)
EXTENDS HystrixCommand, TLAPS, FiniteSetTheorems

(* Runner states before and after the closure of Execute is entered.       *)
NotRun == {"unborn", "start", "allowed"} \cup Refusals
HasRun == {"exec", "returned"} \cup RunEvents

(* The runner and its ticket.                                              *)
RunnerInv(c) ==
    /\ runner[c] \in NotRun => ~ticket[c] /\ c \notin executed
    /\ runner[c] \in HasRun => c \in executed
    /\ caller[c] = "idle" => runner[c] = "unborn"

(* The block of the sync.Once: entered with the runner's event or with the *)
(* timeout; once past returnTicket the call has no ticket and will not get *)
(* one.                                                                    *)
OnceInv(c) ==
    /\ once[c] # "open" => cause[c] # "none"
    /\ once[c] = "publish" => cause[c] # "success"
    /\ once[c] \in {"publish", "report", "spent"} =>
          ~ticket[c] /\ TicketChecked(c)
    /\ cause[c] \in RunEvents => c \in executed
    /\ cause[c] \in Refusals =>
          c \notin executed /\ runner[c] \in Refusals \cup {"done"}

(* The two channels.                                                       *)
ChannelInv(c) ==
    /\ errChan[c] # "none" =>
          /\ once[c] \in {"report", "spent"}
          /\ errChan[c] = cause[c]
          /\ cause[c] # "success"
    /\ done[c] =>
          /\ c \in executed
          /\ r[c].err = "nil"
          /\ runner[c] \in {"success", "done"}

(* The answer: it repeats one of the channels.                             *)
AnswerInv(c) ==
    Returned(c) =>
        \/ done[c] /\ answer[c] = r[c]
        \/ /\ errChan[c] # "none"
           /\ answer[c].err = errorCreator(errChan[c])

PerCall(c) == RunnerInv(c) /\ OnceInv(c) /\ ChannelInv(c) /\ AnswerInv(c)

IInv ==
    /\ TypeOK
    /\ TicketsConserved
    /\ \A c \in Calls : PerCall(c)

-----------------------------------------------------------------------------
(* Counting tickets: the calls that hold one are finitely many, and one    *)
(* ticket taken or returned changes their number by one.                   *)
LEMMA HoldersFinite ==
    ASSUME TypeOK
    PROVE  IsFiniteSet(Holders) /\ Cardinality(Holders) \in Nat
<1>1. Holders \in SUBSET Calls
  BY DEF Holders
<1> QED
  BY <1>1, FS_Subset, FS_CardinalityType, HystrixAssumption

LEMMA HoldersGrow ==
    ASSUME TypeOK, NEW c \in Calls, ~ticket[c],
           ticket' = [ticket EXCEPT ![c] = TRUE]
    PROVE  Cardinality(Holders') = Cardinality(Holders) + 1
<1>1. Holders' = Holders \cup {c} /\ c \notin Holders
  BY DEF Holders, TypeOK
<1> QED
  BY <1>1, HoldersFinite, FS_AddElement

LEMMA HoldersShrink ==
    ASSUME TypeOK, NEW c \in Calls, ticket[c],
           ticket' = [ticket EXCEPT ![c] = FALSE]
    PROVE  /\ Cardinality(Holders') = Cardinality(Holders) - 1
           /\ Cardinality(Holders) > 0
<1>1. Holders' = Holders \ {c} /\ c \in Holders
  BY DEF Holders, TypeOK
<1>2. Cardinality(Holders') = Cardinality(Holders) - 1
  BY <1>1, HoldersFinite, FS_RemoveElement
<1>3. Cardinality(Holders') \in Nat
  BY <1>1, HoldersFinite, FS_RemoveElement, FS_CardinalityType
<1> QED
  BY <1>2, <1>3, HoldersFinite

-----------------------------------------------------------------------------
(* Initially no ticket is taken and every channel is empty.                *)
LEMMA InitInv == Init => IInv
<1> SUFFICES ASSUME Init PROVE IInv
  OBVIOUS
<1>1. TypeOK
  BY HystrixAssumption DEF Init, TypeOK, Empty, result
<1>2. TicketsConserved
  <2>1. Holders = {}
    BY DEF Init, Holders
  <2> QED
    BY <2>1, FS_EmptySet, HystrixAssumption DEF Init, TicketsConserved
<1>3. \A c \in Calls : PerCall(c)
  BY DEF Init, PerCall, RunnerInv, OnceInv, ChannelInv, AnswerInv, NotRun,
         HasRun, RunEvents, Refusals, Returned
<1> QED
  BY <1>1, <1>2, <1>3 DEF IInv

(* Every step keeps the types and the number of tickets.  Only TakeTicket  *)
(* and GiveBack touch the pool.                                            *)
LEMMA TypeStep ==
    ASSUME IInv, [Next]_vars
    PROVE  TypeOK' /\ TicketsConserved'
<1> USE DEF IInv
<1>0. CASE UNCHANGED vars
  BY <1>0 DEF vars, TypeOK, TicketsConserved, Holders
<1>1. ASSUME NEW c \in Calls, Execute(c) PROVE TypeOK' /\ TicketsConserved'
  BY <1>1 DEF Execute, TypeOK, Events, RunEvents, Refusals, TicketsConserved, Holders
<1>2. ASSUME NEW c \in Calls, Allowed(c) PROVE TypeOK' /\ TicketsConserved'
  BY <1>2 DEF Allowed, TypeOK, Events, RunEvents, Refusals, TicketsConserved, Holders
<1>3. ASSUME NEW c \in Calls, ShortCircuited(c) PROVE TypeOK' /\ TicketsConserved'
  BY <1>3 DEF ShortCircuited, TypeOK, Events, RunEvents, Refusals, TicketsConserved, Holders
<1>4. ASSUME NEW c \in Calls, TakeTicket(c) PROVE TypeOK' /\ TicketsConserved'
  <2>1. ~ticket[c]
    BY <1>4 DEF TakeTicket, PerCall, RunnerInv, NotRun
  <2>2. Cardinality(Holders') = Cardinality(Holders) + 1
    BY <1>4, <2>1, HoldersGrow DEF TakeTicket
  <2>3. TypeOK'
    BY <1>4, HystrixAssumption DEF TakeTicket, TypeOK, Refusals
  <2>4. /\ Cardinality(Holders) \in Nat
        /\ free \in Nat
        /\ free' = free - 1
        /\ free + Cardinality(Holders) = Concurrency
    BY <1>4, HoldersFinite, HystrixAssumption
    DEF TakeTicket, TypeOK, TicketsConserved
  <2>5. free' + Cardinality(Holders') = Concurrency
    BY <2>2, <2>4, HystrixAssumption
  <2> QED
    BY <2>3, <2>5 DEF TicketsConserved
<1>5. ASSUME NEW c \in Calls, NoTicket(c) PROVE TypeOK' /\ TicketsConserved'
  BY <1>5 DEF NoTicket, TypeOK, Events, RunEvents, Refusals, TicketsConserved, Holders
<1>6. ASSUME NEW c \in Calls, RunReturns(c) PROVE TypeOK' /\ TicketsConserved'
  BY <1>6 DEF RunReturns, TypeOK, Events, RunEvents, Refusals, RunEvent, result, TicketsConserved, Holders
<1>7. ASSUME NEW c \in Calls, RunnerSettles(c) PROVE TypeOK' /\ TicketsConserved'
  BY <1>7 DEF RunnerSettles, TypeOK, Events, RunEvents, Refusals, TicketsConserved, Holders
<1>8. ASSUME NEW c \in Calls, RunnerEnds(c) PROVE TypeOK' /\ TicketsConserved'
  BY <1>8 DEF RunnerEnds, TypeOK, Events, RunEvents, Refusals, TicketsConserved, Holders
<1>9. ASSUME NEW c \in Calls, TimerFires(c) PROVE TypeOK' /\ TicketsConserved'
  BY <1>9 DEF TimerFires, TypeOK, Events, RunEvents, Refusals, TicketsConserved, Holders
<1>10. ASSUME NEW c \in Calls, GiveBack(c) PROVE TypeOK' /\ TicketsConserved'
  <2>1. CASE ticket[c]
    <3>1. /\ Cardinality(Holders') = Cardinality(Holders) - 1
          /\ Cardinality(Holders) > 0
      BY <1>10, <2>1, HoldersShrink DEF GiveBack
    <3>2. free' = free + 1 /\ free' \in 0 .. Concurrency
      BY <1>10, <2>1, <3>1, HoldersFinite, HystrixAssumption
      DEF GiveBack, TypeOK, TicketsConserved
    <3>3. TypeOK'
      BY <1>10, <3>2 DEF GiveBack, TypeOK
    <3> QED
      BY <3>1, <3>2, <3>3, HoldersFinite, HystrixAssumption
      DEF TypeOK, TicketsConserved
  <2>2. CASE ~ticket[c]
    <3>1. Holders' = Holders /\ free' = free
      BY <1>10, <2>2 DEF GiveBack, Holders, TypeOK
    <3>2. TypeOK'
      BY <1>10, <3>1 DEF GiveBack, TypeOK
    <3> QED
      BY <3>1, <3>2 DEF TicketsConserved
  <2> QED
    BY <2>1, <2>2
<1>11. ASSUME NEW c \in Calls, Publish(c) PROVE TypeOK' /\ TicketsConserved'
  BY <1>11 DEF Publish, TypeOK, Events, RunEvents, Refusals, TicketsConserved, Holders
<1>12. ASSUME NEW c \in Calls, Report(c) PROVE TypeOK' /\ TicketsConserved'
  <2> DEFINE Breaker == [open : BOOLEAN, sleeping : BOOLEAN, total : Nat, errors : Nat]
             errors == IF cause[c] = "success" THEN circuit.errors ELSE circuit.errors + 1
  <2>1. circuit \in Breaker /\ errors \in Nat
    BY DEF TypeOK
  <2>2. CASE cause[c] = "success" /\ circuit.open
    BY <1>12, <2>2 DEF Report, TypeOK, TicketsConserved, Holders
  <2>3. CASE ~(cause[c] = "success" /\ circuit.open)
    <3>1. circuit' = [[circuit EXCEPT !.total = @ + 1] EXCEPT !.errors = errors]
      BY <1>12, <2>3 DEF Report
    <3> HIDE DEF errors
    <3>2. [circuit EXCEPT !.total = @ + 1] \in Breaker
      BY <2>1
    <3>3. circuit' \in Breaker
      BY <2>1, <3>1, <3>2
    <3> QED
      BY <1>12, <3>3 DEF Report, TypeOK, TicketsConserved, Holders
  <2> QED
    BY <2>2, <2>3
<1>13. ASSUME NEW c \in Calls, ReturnWithoutError(c) PROVE TypeOK' /\ TicketsConserved'
  <2>1. r[c] \in [resp : {"nil", "response"}, err : {"nil", "gox", "unknown_error",
                   "hystrix_circuit_open", "hystrix_rejected", "hystrix_timeout"}]
    <3>1. r[c] \in result /\ r[c].err = "nil"
      BY <1>13 DEF ReturnWithoutError, TypeOK, PerCall, ChannelInv
    <3>2. PICK p \in {"nil", "response"} : r[c] = [resp |-> p, err |-> "nil"]
      BY <3>1 DEF result
    <3>3. [resp |-> p, err |-> "nil"] \in
             [resp : {"nil", "response"}, err : {"nil", "gox", "unknown_error",
              "hystrix_circuit_open", "hystrix_rejected", "hystrix_timeout"}]
      OBVIOUS
    <3> QED
      BY <3>2, <3>3, Zenon
  <2> QED
    BY <1>13, <2>1 DEF ReturnWithoutError, TypeOK, TicketsConserved, Holders
<1>14. ASSUME NEW c \in Calls, ReturnWithError(c) PROVE TypeOK' /\ TicketsConserved'
  <2>1. r[c].resp \in {"nil", "response"}
    BY DEF TypeOK, result
  <2>2. errorCreator(errChan[c]) \in {"nil", "gox", "unknown_error",
           "hystrix_circuit_open", "hystrix_rejected", "hystrix_timeout"}
    BY DEF errorCreator
  <2> DEFINE reply == [resp |-> r[c].resp, err |-> errorCreator(errChan[c])]
  <2>3. reply \in [resp : {"nil", "response"}, err : {"nil", "gox", "unknown_error",
                   "hystrix_circuit_open", "hystrix_rejected", "hystrix_timeout"}]
    BY <2>1, <2>2
  <2>4. answer' = [answer EXCEPT ![c] = reply]
    BY <1>14 DEF ReturnWithError
  <2> HIDE DEF reply
  <2> QED
    BY <1>14, <2>3, <2>4 DEF ReturnWithError, TypeOK, TicketsConserved, Holders
<1>15. ASSUME NEW c \in Calls, InnerReturns(c) PROVE TypeOK' /\ TicketsConserved'
  BY <1>15, HystrixAssumption DEF InnerReturns, TypeOK, Events, RunEvents, Refusals, result, TicketsConserved, Holders
<1>16. ASSUME SleepWindowElapses PROVE TypeOK' /\ TicketsConserved'
  BY <1>16 DEF SleepWindowElapses, TypeOK, TicketsConserved, Holders
<1>17. ASSUME WindowRolls PROVE TypeOK' /\ TicketsConserved'
  <2>1. circuit' \in [open : BOOLEAN, sleeping : BOOLEAN, total : Nat, errors : Nat]
    <3>1. circuit \in [open : BOOLEAN, sleeping : BOOLEAN, total : Nat, errors : Nat]
      BY DEF TypeOK
    <3>2. circuit' = [[circuit EXCEPT !.total = 0] EXCEPT !.errors = 0]
      BY <1>17 DEF WindowRolls
    <3> QED
      BY <3>1, <3>2
  <2> QED
    BY <1>17, <2>1 DEF WindowRolls, TypeOK, TicketsConserved, Holders
<1> QED
  BY <1>0, <1>1, <1>2, <1>3, <1>4, <1>5, <1>6, <1>7, <1>8, <1>9, <1>10, <1>11, <1>12, <1>13, <1>14, <1>15, <1>16, <1>17 DEF Next, Internal, Quiescent

-----------------------------------------------------------------------------
(* Every step keeps the four links of the chain for every call d.          *)
LEMMA PerCallStep ==
    ASSUME IInv, [Next]_vars, NEW d \in Calls
    PROVE  PerCall(d)'
<1> USE DEF PerCall, RunnerInv, OnceInv, ChannelInv, AnswerInv, TicketChecked,
            NotRun, HasRun, RunEvents, Refusals, Returned
<1>a. TypeOK /\ PerCall(d)
  BY DEF IInv
<1>0. CASE UNCHANGED vars
  BY <1>a, <1>0 DEF vars
<1>1. ASSUME NEW c \in Calls, Execute(c) PROVE PerCall(d)'
  BY <1>a, <1>1 DEF Execute, TypeOK, Events
<1>2. ASSUME NEW c \in Calls, Allowed(c) PROVE PerCall(d)'
  BY <1>a, <1>2 DEF Allowed, TypeOK, Events
<1>3. ASSUME NEW c \in Calls, ShortCircuited(c) PROVE PerCall(d)'
  BY <1>a, <1>3 DEF ShortCircuited, TypeOK, Events
<1>4. ASSUME NEW c \in Calls, TakeTicket(c) PROVE PerCall(d)'
  BY <1>a, <1>4 DEF TakeTicket, TypeOK, Events
<1>5. ASSUME NEW c \in Calls, NoTicket(c) PROVE PerCall(d)'
  BY <1>a, <1>5 DEF NoTicket, TypeOK, Events
<1>6. ASSUME NEW c \in Calls, InnerReturns(c) PROVE PerCall(d)'
  BY <1>a, <1>6 DEF InnerReturns, TypeOK, Events
<1>7. ASSUME NEW c \in Calls, RunReturns(c) PROVE PerCall(d)'
  BY <1>a, <1>7 DEF RunReturns, TypeOK, Events, RunEvent, result
<1>8. ASSUME NEW c \in Calls, RunnerSettles(c) PROVE PerCall(d)'
  BY <1>a, <1>8 DEF RunnerSettles, TypeOK, Events
<1>9. ASSUME NEW c \in Calls, RunnerEnds(c) PROVE PerCall(d)'
  BY <1>a, <1>9 DEF RunnerEnds, TypeOK, Events
<1>10. ASSUME NEW c \in Calls, TimerFires(c) PROVE PerCall(d)'
  BY <1>a, <1>10 DEF TimerFires, TypeOK, Events
<1>11. ASSUME NEW c \in Calls, GiveBack(c) PROVE PerCall(d)'
  BY <1>a, <1>11 DEF GiveBack, TypeOK, Events
<1>12. ASSUME NEW c \in Calls, Publish(c) PROVE PerCall(d)'
  BY <1>a, <1>12 DEF Publish, TypeOK, Events
<1>13. ASSUME NEW c \in Calls, Report(c) PROVE PerCall(d)'
  BY <1>a, <1>13 DEF Report, TypeOK, Events
<1>14. ASSUME NEW c \in Calls, ReturnWithoutError(c) PROVE PerCall(d)'
  BY <1>a, <1>14 DEF ReturnWithoutError, TypeOK, Events
<1>15. ASSUME NEW c \in Calls, ReturnWithError(c) PROVE PerCall(d)'
  BY <1>a, <1>15 DEF ReturnWithError, TypeOK, Events, errorCreator
<1>16. ASSUME SleepWindowElapses \/ WindowRolls PROVE PerCall(d)'
  BY <1>a, <1>16 DEF SleepWindowElapses, WindowRolls
<1> QED
  BY <1>0, <1>1, <1>2, <1>3, <1>4, <1>5, <1>6, <1>7, <1>8, <1>9, <1>10, <1>11, <1>12, <1>13, <1>14, <1>15, <1>16 DEF Next, Internal, Quiescent

-----------------------------------------------------------------------------
THEOREM Invariance == Spec => []IInv
<1>1. IInv /\ [Next]_vars => IInv'
  BY TypeStep, PerCallStep DEF IInv
<1> QED
  BY <1>1, InitInv, PTL DEF Spec

(* TypeOK holds for every pool size and every number of calls.             *)
THEOREM TypeCorrectness == Spec => []TypeOK
<1>1. IInv => TypeOK
  BY DEF IInv
<1> QED
  BY <1>1, Invariance, PTL

(* The pool of tickets never drifts, whoever wins the sync.Once.           *)
THEOREM TicketConservation == Spec => []TicketsConserved
<1>1. IInv => TicketsConserved
  BY DEF IInv
<1> QED
  BY <1>1, Invariance, PTL

(* After an error of Execute the call holds no ticket and never will.      *)
THEOREM ErrorFreesTicket == Spec => []ErrorMeansTicketBack
<1>1. ASSUME IInv, NEW c \in Calls, Returned(c), answer[c].err # "nil"
      PROVE  ~ticket[c]
  <2>1. errChan[c] # "none"
    BY <1>1 DEF IInv, PerCall, AnswerInv, ChannelInv
  <2> QED
    BY <1>1, <2>1 DEF IInv, PerCall, ChannelInv, OnceInv
<1>2. IInv => ErrorMeansTicketBack
  BY <1>1 DEF ErrorMeansTicketBack
<1> QED
  BY <1>2, Invariance, PTL

(* Without an error Execute returns what its closure produced.             *)
THEOREM NoErrorIsTheClosures == Spec => []NoErrorMeansRan
<1>1. ASSUME IInv, NEW c \in Calls, Returned(c), answer[c].err = "nil"
      PROVE  done[c] /\ answer[c] = r[c]
  BY <1>1 DEF IInv, PerCall, AnswerInv, errorCreator
<1>2. IInv => NoErrorMeansRan
  BY <1>1 DEF NoErrorMeansRan, IInv, PerCall, ChannelInv
<1> QED
  BY <1>2, Invariance, PTL

(* hystrix error codes say whether the wrapped command was reached.        *)
THEOREM HonestErrors == Spec => []HystrixErrorsAreHonest
<1>1. ASSUME IInv, NEW c \in Calls, Returned(c), answer[c].err \in RefusalCodes
      PROVE  c \notin executed
  <2>1. errChan[c] # "none" /\ answer[c].err = errorCreator(errChan[c])
    BY <1>1 DEF IInv, PerCall, AnswerInv, ChannelInv, RefusalCodes
  <2>2. cause[c] \in Refusals
    BY <1>1, <2>1 DEF IInv, PerCall, ChannelInv, errorCreator, RefusalCodes,
                      Refusals
  <2> QED
    BY <1>1, <2>2 DEF IInv, PerCall, OnceInv
<1>2. ASSUME IInv, NEW c \in Calls, Returned(c), c \notin executed
      PROVE  IsHystrixError(answer[c].err)
  <2>1. errChan[c] # "none" /\ answer[c].err = errorCreator(errChan[c])
    BY <1>2 DEF IInv, PerCall, AnswerInv, ChannelInv
  <2>2. errChan[c] \in Refusals \cup {"timeout"}
    BY <1>2, <2>1 DEF IInv, PerCall, ChannelInv, OnceInv, TypeOK, Events
  <2> QED
    BY <2>1, <2>2 DEF errorCreator, IsHystrixError, RefusalCodes, Refusals
<1>3. IInv => HystrixErrorsAreHonest
  BY <1>1, <1>2 DEF HystrixErrorsAreHonest
<1> QED
  BY <1>3, Invariance, PTL

-----------------------------------------------------------------------------
(* The circuit breaker.  Statistics are forgotten, when the window rolls   *)
(* and when a success closes the circuit, but never invented: what they    *)
(* count, and what an open circuit was opened for, are calls that failed.  *)
Failed == {d \in Calls : once[d] = "spent" /\ cause[d] # "success"}

Earned(S) ==
    200 * Cardinality(S) >= (2 * ErrorPercentThreshold - 1) * RequestVolume

(* A refused call has others to blame: its own report comes after.         *)
EarnedBy(c) ==
    runner[c] = "circuit_open" \/ cause[c] = "circuit_open" => Earned(FailuresBut(c))

CircuitInv ==
    /\ circuit.errors <= Cardinality(Failed)
    /\ circuit.open => Earned(Failed)
    /\ \A c \in Calls : EarnedBy(c)

LEMMA FailuresFinite ==
    ASSUME NEW S, S \subseteq Calls
    PROVE  IsFiniteSet(S) /\ Cardinality(S) \in Nat
BY FS_Subset, FS_CardinalityType, HystrixAssumption

LEMMA EarnedGrows ==
    ASSUME NEW S, NEW T, S \subseteq T, T \subseteq Calls, Earned(S)
    PROVE  Earned(T)
<1>1. Cardinality(S) <= Cardinality(T)
  BY FailuresFinite, FS_Subset
<1>2. S \subseteq Calls
  OBVIOUS
<1> QED
  BY <1>1, <1>2, FailuresFinite, HystrixAssumption DEF Earned, ErrorPercentThreshold

(* A failure that has been reported stays one: nobody enters the block of  *)
(* the sync.Once again.                                                    *)
LEMMA FailuresStay ==
    ASSUME IInv, [Next]_vars
    PROVE  /\ Failed \subseteq Failed'
           /\ \A c \in Calls : FailuresBut(c) \subseteq FailuresBut(c)'
<1>1. ASSUME NEW d \in Calls, once[d] = "spent"
      PROVE  once'[d] = "spent" /\ cause'[d] = cause[d]
  <2> USE DEF IInv, TypeOK
  <2>1. CASE UNCHANGED <<once, cause>>
    BY <1>1, <2>1
  <2>2. ASSUME NEW c \in Calls, RunnerSettles(c) \/ TimerFires(c)
        PROVE  once'[d] = "spent" /\ cause'[d] = cause[d]
    BY <1>1, <2>2 DEF RunnerSettles, TimerFires
  <2>3. ASSUME NEW c \in Calls, GiveBack(c) \/ Publish(c) \/ Report(c)
        PROVE  once'[d] = "spent" /\ cause'[d] = cause[d]
    BY <1>1, <2>3 DEF GiveBack, Publish, Report
  <2> QED
    BY <2>1, <2>2, <2>3
    DEF Next, Internal, Quiescent, vars, Execute, Allowed, ShortCircuited,
        TakeTicket, NoTicket, InnerReturns, RunReturns, RunnerEnds,
        ReturnWithoutError, ReturnWithError, SleepWindowElapses, WindowRolls
<1> QED
  BY <1>1 DEF Failed, FailuresBut

LEMMA CircuitStep ==
    ASSUME IInv, CircuitInv, [Next]_vars
    PROVE  CircuitInv'
<1>a. /\ circuit \in [open : BOOLEAN, sleeping : BOOLEAN, total : Nat, errors : Nat]
      /\ RequestVolume \in Nat
  BY HystrixAssumption DEF IInv, TypeOK
<1>b. /\ Failed \subseteq Calls /\ Failed' \subseteq Calls
      /\ \A c \in Calls : FailuresBut(c)' \subseteq Calls
  BY DEF Failed, FailuresBut
<1>c. /\ Cardinality(Failed) \in Nat /\ Cardinality(Failed') \in Nat
      /\ Cardinality(Failed) <= Cardinality(Failed')
  BY <1>b, FailuresStay, FailuresFinite, FS_Subset
<1>d. Earned(Failed) => Earned(Failed)'
  <2>1. Earned(Failed) => Earned(Failed')
    BY <1>b, FailuresStay, EarnedGrows
  <2> QED
    BY <2>1 DEF Earned
<1>e. ASSUME NEW c \in Calls, Earned(FailuresBut(c)) PROVE Earned(FailuresBut(c))'
  <2>1. Earned(FailuresBut(c)')
    BY <1>b, <1>e, FailuresStay, EarnedGrows
  <2> QED
    BY <2>1 DEF Earned
<1>f. ASSUME NEW c \in Calls, Tripped, runner[c] = "start"
      PROVE  Earned(Failed) /\ Earned(FailuresBut(c))
  <2>1. FailuresBut(c) = Failed
    BY <1>f DEF FailuresBut, Failed, IInv, PerCall, OnceInv, TicketChecked
  <2>2. CASE circuit.open
    BY <2>1, <2>2 DEF CircuitInv
  <2>3. CASE Unhealthy
    <3>1. 200 * circuit.errors >= 49 * circuit.total /\ circuit.total >= RequestVolume
      BY <2>3 DEF Unhealthy, ErrorPercentThreshold
    <3>2. 200 * Cardinality(Failed) >= 49 * RequestVolume
      BY <1>a, <1>c, <3>1 DEF CircuitInv
    <3> QED
      BY <2>1, <3>2 DEF Earned, ErrorPercentThreshold
  <2> QED
    BY <1>f, <2>2, <2>3 DEF Tripped
<1>1. circuit'.errors <= Cardinality(Failed)'
  <2>1. CASE circuit'.errors \in Nat /\ circuit'.errors <= circuit.errors
    BY <1>a, <1>c, <2>1 DEF CircuitInv
  <2>2. ASSUME NEW c \in Calls, Report(c) PROVE circuit'.errors <= Cardinality(Failed')
    <3>1. CASE cause[c] = "success"
      BY <1>a, <1>c, <2>2, <3>1 DEF Report, CircuitInv
    <3>2. CASE cause[c] # "success"
      <4>1. Failed' = Failed \cup {c} /\ c \notin Failed
        BY <2>2, <3>2 DEF Report, Failed, IInv, TypeOK
      <4>2. Cardinality(Failed') = Cardinality(Failed) + 1
        BY <1>b, <4>1, FailuresFinite, FS_AddElement
      <4>3. circuit'.errors = circuit.errors + 1
        BY <1>a, <2>2, <3>2 DEF Report
      <4> QED
        BY <1>a, <1>c, <4>2, <4>3 DEF CircuitInv
    <3> QED
      BY <3>1, <3>2
  <2>3. CASE circuit' = circuit
    BY <1>a, <2>1, <2>3
  <2>4. CASE SleepWindowElapses
    BY <1>a, <2>1, <2>4 DEF SleepWindowElapses
  <2>5. CASE WindowRolls
    BY <1>a, <2>1, <2>5 DEF WindowRolls
  <2>6. ASSUME NEW c \in Calls, Allowed(c) \/ ShortCircuited(c)
        PROVE  circuit'.errors <= Cardinality(Failed')
    <3>1. circuit'.errors = circuit.errors
      BY <1>a, <2>6 DEF Allowed, ShortCircuited
    <3> QED
      BY <1>a, <2>1, <3>1
  <2> QED
    BY <2>2, <2>3, <2>4, <2>5, <2>6
    DEF Next, Internal, Quiescent, vars, Execute, TakeTicket, NoTicket,
        InnerReturns, RunReturns, RunnerSettles, RunnerEnds, TimerFires,
        GiveBack, Publish, ReturnWithoutError, ReturnWithError
<1>2. circuit'.open => Earned(Failed)'
  <2>1. CASE circuit'.open => circuit.open
    BY <1>d, <2>1 DEF CircuitInv
  <2>2. ASSUME NEW c \in Calls, ShortCircuited(c) PROVE Earned(Failed)'
    BY <1>d, <1>f, <2>2 DEF ShortCircuited
  <2>3. ASSUME NEW c \in Calls, Report(c) \/ Allowed(c) PROVE circuit'.open => circuit.open
    BY <1>a, <2>3 DEF Report, Allowed
  <2>4. CASE SleepWindowElapses \/ WindowRolls
    BY <1>a, <2>1, <2>4 DEF SleepWindowElapses, WindowRolls
  <2>5. CASE circuit' = circuit
    BY <2>1, <2>5
  <2> QED
    BY <2>1, <2>2, <2>3, <2>4, <2>5
    DEF Next, Internal, Quiescent, vars, Execute, TakeTicket, NoTicket,
        InnerReturns, RunReturns, RunnerSettles, RunnerEnds, TimerFires,
        GiveBack, Publish, ReturnWithoutError, ReturnWithError
<1>3. ASSUME NEW c \in Calls PROVE EarnedBy(c)'
  <2> USE DEF IInv, TypeOK
  <2> DEFINE refused == runner[c] = "circuit_open" \/ cause[c] = "circuit_open"
  <2>1. CASE refused
    BY <1>3, <1>e, <2>1 DEF CircuitInv, EarnedBy
  <2>2. CASE ShortCircuited(c)
    BY <1>3, <1>e, <1>f, <2>2 DEF ShortCircuited, EarnedBy
  <2>3. CASE ~ShortCircuited(c) /\ ~refused
    <3>1. ASSUME NEW d \in Calls,
                 \/ Execute(d) \/ Allowed(d) \/ TakeTicket(d) \/ NoTicket(d)
                 \/ InnerReturns(d) \/ RunnerEnds(d) \/ TimerFires(d)
          PROVE  ~refused'
      BY <1>3, <2>3, <3>1
      DEF Execute, Allowed, TakeTicket, NoTicket, InnerReturns, RunnerEnds, TimerFires
    <3>2. ASSUME NEW d \in Calls, RunReturns(d) \/ RunnerSettles(d) PROVE ~refused'
      BY <1>3, <2>3, <3>2 DEF RunReturns, RunEvent, RunnerSettles, result
    <3>3. ASSUME NEW d \in Calls, ShortCircuited(d) PROVE ~refused'
      BY <1>3, <2>3, <3>3 DEF ShortCircuited
    <3>4. ASSUME UNCHANGED <<runner, cause>> PROVE ~refused'
      BY <2>3, <3>4
    <3>5. ~refused'
      BY <2>3, <3>1, <3>2, <3>3, <3>4
      DEF Next, Internal, Quiescent, vars, GiveBack, Publish, Report,
          ReturnWithoutError, ReturnWithError, SleepWindowElapses, WindowRolls
    <3> QED
      BY <3>5 DEF EarnedBy
  <2> QED
    BY <2>1, <2>2, <2>3
<1> QED
  BY <1>1, <1>2, <1>3 DEF CircuitInv

(* No caller is refused by the circuit breaker before enough other calls   *)
(* have failed, for any request volume (the threshold of                   *)
(* NewHttpHystrixCommand, 25 per cent).                                    *)
THEOREM RefusalIsEarned == Spec => []CircuitOpenIsEarned
<1>1. Init => CircuitInv
  <2> SUFFICES ASSUME Init PROVE CircuitInv
    OBVIOUS
  <2>1. Cardinality(Failed) \in Nat
    BY FailuresFinite DEF Failed
  <2> QED
    BY <2>1 DEF Init, CircuitInv, EarnedBy
<1>2. IInv /\ CircuitInv /\ [Next]_vars => CircuitInv'
  BY CircuitStep
<1>3. ASSUME IInv, CircuitInv, NEW c \in Calls,
             Returned(c), answer[c].err = "hystrix_circuit_open"
      PROVE  Earned(FailuresBut(c))
  <2>1. errChan[c] # "none" /\ answer[c].err = errorCreator(errChan[c])
    BY <1>3 DEF IInv, PerCall, AnswerInv, ChannelInv
  <2>2. cause[c] = "circuit_open"
    BY <1>3, <2>1 DEF IInv, PerCall, ChannelInv, errorCreator
  <2> QED
    BY <1>3, <2>2 DEF CircuitInv, EarnedBy
<1>4. IInv /\ CircuitInv => CircuitOpenIsEarned
  BY <1>3 DEF CircuitOpenIsEarned, Earned
<1> QED
  BY <1>1, <1>2, <1>4, Invariance, PTL DEF Spec

-----------------------------------------------------------------------------
(* The safety half of the refinement: every step of Execute is a step of   *)
(* the bulkhead or leaves what the caller sees alone.                      *)
LEMMA BulkInit == Init => Bulk!Init
BY DEF Init, Bulk!Init, phase, Holders

LEMMA BulkStep ==
    ASSUME IInv, [Next]_vars
    PROVE  [Bulk!Next]_(Bulk!vars)
<1> USE DEF Bulk!vars
<1>a. TypeOK /\ \A c \in Calls : PerCall(c)
  BY DEF IInv
<1>0. CASE UNCHANGED vars
  BY <1>0 DEF vars, phase, Holders
<1>1. ASSUME NEW c \in Calls, Execute(c) PROVE Bulk!Submit(c)
  BY <1>a, <1>1 DEF Execute, TypeOK, Bulk!Submit, phase, Holders
<1>2. ASSUME NEW c \in Calls, TakeTicket(c) PROVE Bulk!Admit(c)
  <2>1. phase[c] = "pending"
    <3>1. caller[c] # "idle"
      BY <1>a, <1>2 DEF TakeTicket, PerCall, RunnerInv
    <3>2. caller[c] # "returned"
      BY <1>a, <1>2 DEF TakeTicket, PerCall, AnswerInv, ChannelInv, OnceInv,
                        TicketChecked, Returned
    <3> QED
      BY <1>a, <3>1, <3>2 DEF TypeOK, phase
  <2>2. c \notin executed /\ ~ticket[c]
    BY <1>a, <1>2 DEF TakeTicket, PerCall, RunnerInv, NotRun
  <2>3. Cardinality(Holders) < Concurrency
    BY <1>2, HoldersFinite, HystrixAssumption
    DEF IInv, TakeTicket, TypeOK, TicketsConserved
  <2>4. Holders' = Holders \cup {c} /\ phase' = phase
    BY <1>a, <1>2 DEF TakeTicket, TypeOK, Holders, phase
  <2>5. Bulk!Cardinality(Holders) = Cardinality(Holders)
    BY DEF Bulk!Cardinality, Cardinality
  <2> QED
    BY <1>2, <2>1, <2>2, <2>3, <2>4, <2>5 DEF Bulk!Admit, TakeTicket
<1>3. ASSUME NEW c \in Calls, GiveBack(c) PROVE [Bulk!Next]_(Bulk!vars)
  <2>1. phase' = phase /\ executed' = executed
    BY <1>3 DEF GiveBack, phase
  <2>2. CASE ticket[c]
    <3>1. c \in Holders /\ Holders' = Holders \ {c}
      BY <1>a, <1>3, <2>2 DEF GiveBack, TypeOK, Holders
    <3> QED
      BY <2>1, <3>1 DEF Bulk!Release, Bulk!Next
  <2>3. CASE ~ticket[c]
    <3>1. Holders' = Holders
      BY <1>a, <1>3, <2>3 DEF GiveBack, TypeOK, Holders
    <3> QED
      BY <2>1, <3>1
  <2> QED
    BY <2>2, <2>3
<1>4. ASSUME NEW c \in Calls, ReturnWithoutError(c) PROVE Bulk!Respond(c)
  <2>1. c \in executed /\ r[c].err = "nil"
    BY <1>a, <1>4 DEF ReturnWithoutError, PerCall, ChannelInv
  <2>2. phase[c] = "pending" /\ phase' = [phase EXCEPT ![c] = "response"]
    BY <1>a, <1>4, <2>1 DEF ReturnWithoutError, TypeOK, phase
  <2> QED
    BY <1>4, <2>1, <2>2 DEF Bulk!Respond, ReturnWithoutError, Holders
<1>5. ASSUME NEW c \in Calls, ReturnWithError(c) PROVE Bulk!Fail(c)
  <2>1. ~ticket[c]
    BY <1>a, <1>5 DEF ReturnWithError, PerCall, ChannelInv, OnceInv
  <2>2. answer'[c].err # "nil"
    BY <1>a, <1>5 DEF ReturnWithError, TypeOK, errorCreator
  <2>3. phase[c] = "pending" /\ phase' = [phase EXCEPT ![c] = "error"]
    BY <1>a, <1>5, <2>2 DEF ReturnWithError, TypeOK, phase
  <2> QED
    BY <1>5, <2>1, <2>3 DEF Bulk!Fail, ReturnWithError, Holders
<1>6. ASSUME NEW c \in Calls,
             \/ Allowed(c) \/ ShortCircuited(c) \/ NoTicket(c) \/ InnerReturns(c)
             \/ RunReturns(c) \/ RunnerSettles(c) \/ RunnerEnds(c)
             \/ TimerFires(c) \/ Publish(c) \/ Report(c)
      PROVE  UNCHANGED <<phase, Holders, executed>>
  BY <1>6 DEF Allowed, ShortCircuited, NoTicket, InnerReturns, RunReturns,
              RunnerSettles, RunnerEnds, TimerFires, Publish, Report, phase,
              Holders
<1>7. ASSUME SleepWindowElapses \/ WindowRolls
      PROVE  UNCHANGED <<phase, Holders, executed>>
  BY <1>7 DEF SleepWindowElapses, WindowRolls, phase, Holders
<1> QED
  BY <1>0, <1>1, <1>2, <1>3, <1>4, <1>5, <1>6, <1>7
  DEF Next, Internal, Quiescent, Bulk!Next

(* Execute implements the bulkhead: nobody is admitted beyond Concurrency, *)
(* after an answer or twice, and every answer is one the bulkhead gives.   *)
(* (That answers and tickets come, its fairness, is BulkheadIsServed.)     *)
THEOREM ImplementsBulkhead == Spec => Bulk!Init /\ [][Bulk!Next]_(Bulk!vars)
<1>1. IInv /\ [Next]_vars => [Bulk!Next]_(Bulk!vars)
  BY BulkStep
<1> QED
  BY <1>1, BulkInit, Invariance, PTL DEF Spec

-----------------------------------------------------------------------------
(* What a caller in the select of hystrix.Do can count on: its runner has  *)
(* been started, and at the end of the block of its sync.Once one of the   *)
(* two channels has been filled.                                           *)
SelectInv(c) ==
    /\ caller[c] # "idle" => runner[c] # "unborn"
    /\ runner[c] = "success" => done[c]
    /\ cause[c] = "success" => done[c]
    /\ once[c] \in {"report", "spent"} /\ cause[c] # "success" => errChan[c] # "none"

SInv == IInv /\ \A c \in Calls : SelectInv(c)

LEMMA SelectInit == Init => \A c \in Calls : SelectInv(c)
BY DEF Init, SelectInv

LEMMA SelectStep ==
    ASSUME SInv, [Next]_vars, NEW d \in Calls
    PROVE  SelectInv(d)'
<1> USE DEF SelectInv, RunEvents, Refusals
<1>a. TypeOK /\ SelectInv(d) /\ OnceInv(d) /\ ChannelInv(d)
  BY DEF SInv, IInv, PerCall
<1>0. CASE UNCHANGED vars
  BY <1>a, <1>0 DEF vars
<1>1. ASSUME NEW c \in Calls, Execute(c) PROVE SelectInv(d)'
  BY <1>a, <1>1 DEF Execute, TypeOK
<1>2. ASSUME NEW c \in Calls, Allowed(c) \/ ShortCircuited(c) PROVE SelectInv(d)'
  BY <1>a, <1>2 DEF Allowed, ShortCircuited, TypeOK
<1>3. ASSUME NEW c \in Calls, TakeTicket(c) \/ NoTicket(c) PROVE SelectInv(d)'
  BY <1>a, <1>3 DEF TakeTicket, NoTicket, TypeOK
<1>4. ASSUME NEW c \in Calls, InnerReturns(c) PROVE SelectInv(d)'
  BY <1>a, <1>4 DEF InnerReturns, TypeOK
<1>5. ASSUME NEW c \in Calls, RunReturns(c) PROVE SelectInv(d)'
  <2>1. CASE c = d
    BY <1>a, <1>5, <2>1 DEF RunReturns, RunEvent, TypeOK, result, ChannelInv
  <2>2. CASE c # d
    <3>1. UNCHANGED <<caller[d], runner[d], done[d], cause[d], once[d], errChan[d]>>
      BY <1>a, <1>5, <2>2 DEF RunReturns, TypeOK
    <3> QED BY <1>a, <3>1
  <2> QED BY <2>1, <2>2
<1>6. ASSUME NEW c \in Calls, RunnerSettles(c) PROVE SelectInv(d)'
  BY <1>a, <1>6 DEF RunnerSettles, TypeOK, Events
<1>7. ASSUME NEW c \in Calls, RunnerEnds(c) PROVE SelectInv(d)'
  BY <1>a, <1>7 DEF RunnerEnds, TypeOK
<1>8. ASSUME NEW c \in Calls, TimerFires(c) PROVE SelectInv(d)'
  BY <1>a, <1>8 DEF TimerFires, TypeOK, Events
<1>9. ASSUME NEW c \in Calls, GiveBack(c) PROVE SelectInv(d)'
  BY <1>a, <1>9 DEF GiveBack, TypeOK
<1>10. ASSUME NEW c \in Calls, Publish(c) \/ Report(c) PROVE SelectInv(d)'
  BY <1>a, <1>10 DEF Publish, Report, TypeOK, OnceInv
<1>11. ASSUME NEW c \in Calls, ReturnWithoutError(c) \/ ReturnWithError(c)
       PROVE  SelectInv(d)'
  BY <1>a, <1>11 DEF ReturnWithoutError, ReturnWithError, TypeOK
<1>12. ASSUME SleepWindowElapses \/ WindowRolls PROVE SelectInv(d)'
  BY <1>a, <1>12 DEF SleepWindowElapses, WindowRolls
<1> QED BY <1>0, <1>1, <1>2, <1>3, <1>4, <1>5, <1>6, <1>7, <1>8, <1>9, <1>10, <1>11, <1>12
           DEF Next, Internal, Quiescent

(* The invariant with the promises of the select.                          *)
THEOREM SelectInvariance == Spec => []SInv
<1>1. SInv /\ [Next]_vars => SInv'
  BY SelectStep, TypeStep, PerCallStep DEF SInv, IInv
<1>2. Init => SInv
  BY InitInv, SelectInit DEF SInv
<1> QED BY <1>1, <1>2, PTL DEF Spec

(* No answer is lost: when the block of the sync.Once is over, a caller    *)
(* that still waits has a channel to receive from, whoever ran the block.  *)
THEOREM NoAnswerIsLost ==
    Spec => [](\A c \in Calls : once[c] = "spent" => done[c] \/ errChan[c] # "none")
<1>1. SInv => \A c \in Calls : once[c] = "spent" => done[c] \/ errChan[c] # "none"
  BY DEF SInv, SelectInv
<1> QED BY <1>1, SelectInvariance, PTL

-----------------------------------------------------------------------------
(* Liveness.  The provers cannot expand ENABLED, which WF_ contains.  In   *)
(* its place stands the guard of each step: its conjuncts without primes.  *)
(* What is left of Fairness out is not needed.                             *)
BreakerStep(c) == Allowed(c) \/ ShortCircuited(c)
TicketStep(c) == TakeTicket(c) \/ NoTicket(c)
BlockStep(c) == GiveBack(c) \/ Publish(c) \/ Report(c)
CallerStep(c) == ReturnWithoutError(c) \/ ReturnWithError(c)

(* A breaker is tripped or not, and its pool has a ticket or not.          *)
CanAskBreaker(c) == runner[c] = "start"
CanAskPool(c) == runner[c] = "allowed"
CanTimeOut(c) == caller[c] # "idle" /\ once[c] = "open"
CanGoOn(c) == \/ once[c] = "giveBack" /\ TicketChecked(c)
              \/ once[c] \in {"publish", "report"}
CanReturn(c) == caller[c] = "waiting" /\ (done[c] \/ errChan[c] # "none")

FairCall(c) ==
    /\ []<>~CanAskBreaker(c) \/ []<><<BreakerStep(c)>>_vars
    /\ []<>~CanAskPool(c) \/ []<><<TicketStep(c)>>_vars
    /\ []<>~CanTimeOut(c) \/ []<><<TimerFires(c)>>_vars
    /\ []<>~CanGoOn(c) \/ []<><<BlockStep(c)>>_vars
    /\ []<>~CanReturn(c) \/ []<><<CallerStep(c)>>_vars

GuardedFairness == \A c \in Calls : FairCall(c)

(* How far a call has got.                                                 *)
Started(c) == caller[c] # "idle"
Waiting(c) == caller[c] = "waiting"
Asking(c) == runner[c] = "start"
Entered(c) == once[c] # "open"
GivenBack(c) == once[c] \in {"publish", "report", "spent"}
Published(c) == once[c] \in {"report", "spent"}
Spent(c) == once[c] = "spent"

(* Nothing that a call has got past comes back.                            *)
LEMMA NoWayBack ==
    ASSUME SInv, [Next]_vars, NEW c \in Calls, Started(c)
    PROVE  /\ Started(c)'
           /\ Waiting(c) => Waiting(c)' \/ Returned(c)'
           /\ ~Asking(c) => ~Asking(c)'
           /\ TicketChecked(c) => TicketChecked(c)'
           /\ Entered(c) => Entered(c)'
           /\ GivenBack(c) => GivenBack(c)'
           /\ Published(c) => Published(c)'
           /\ Spent(c) => Spent(c)'
<1> DEFINE Kept ==
           /\ Started(c)'
           /\ Waiting(c) => Waiting(c)' \/ Returned(c)'
           /\ ~Asking(c) => ~Asking(c)'
           /\ TicketChecked(c) => TicketChecked(c)'
           /\ Entered(c) => Entered(c)'
           /\ GivenBack(c) => GivenBack(c)'
           /\ Published(c) => Published(c)'
           /\ Spent(c) => Spent(c)'
<1> USE DEF Started, Waiting, Returned, Asking, TicketChecked, Entered, GivenBack,
            Published, Spent
<1>a. TypeOK /\ caller[c] # "idle"
  BY DEF SInv, IInv
<1>0. CASE UNCHANGED vars
  BY <1>a, <1>0 DEF vars
<1>1. ASSUME NEW d \in Calls, Execute(d) PROVE Kept
  BY <1>a, <1>1 DEF Execute, TypeOK
<1>2. ASSUME NEW d \in Calls, Allowed(d) \/ ShortCircuited(d) PROVE Kept
  BY <1>a, <1>2 DEF Allowed, ShortCircuited, TypeOK
<1>3. ASSUME NEW d \in Calls, TakeTicket(d) \/ NoTicket(d) PROVE Kept
  BY <1>a, <1>3 DEF TakeTicket, NoTicket, TypeOK
<1>4. ASSUME NEW d \in Calls, InnerReturns(d) PROVE Kept
  BY <1>a, <1>4 DEF InnerReturns, TypeOK
<1>5. ASSUME NEW d \in Calls, RunReturns(d) PROVE Kept
  BY <1>a, <1>5 DEF RunReturns, RunEvent, TypeOK, result
<1>6. ASSUME NEW d \in Calls, RunnerSettles(d) \/ TimerFires(d) PROVE Kept
  BY <1>a, <1>6 DEF RunnerSettles, TimerFires, TypeOK
<1>7. ASSUME NEW d \in Calls, RunnerEnds(d) PROVE Kept
  BY <1>a, <1>7 DEF RunnerEnds, TypeOK
<1>8. ASSUME NEW d \in Calls, GiveBack(d) PROVE Kept
  BY <1>a, <1>8 DEF GiveBack, TypeOK
<1>9. ASSUME NEW d \in Calls, Publish(d) \/ Report(d) PROVE Kept
  BY <1>a, <1>9 DEF Publish, Report, TypeOK
<1>10. ASSUME NEW d \in Calls, ReturnWithoutError(d) \/ ReturnWithError(d) PROVE Kept
  BY <1>a, <1>10 DEF ReturnWithoutError, ReturnWithError, TypeOK
<1>11. ASSUME SleepWindowElapses \/ WindowRolls PROVE Kept
  BY <1>a, <1>11 DEF SleepWindowElapses, WindowRolls
<1> QED BY <1>0, <1>1, <1>2, <1>3, <1>4, <1>5, <1>6, <1>7, <1>8, <1>9, <1>10, <1>11
           DEF Next, Internal, Quiescent

(* At every point of a call some goroutine of its own, or the timer, can   *)
(* take a step, and the step gets it further.                              *)
LEMMA WayAhead ==
    ASSUME SInv, NEW c \in Calls, Started(c)
    PROVE  /\ Asking(c) => CanAskBreaker(c) /\ (BreakerStep(c) => ~Asking(c)')
           /\ ~Asking(c) /\ ~TicketChecked(c) =>
                 CanAskPool(c) /\ (TicketStep(c) => TicketChecked(c)')
           /\ ~Entered(c) => CanTimeOut(c) /\ (TimerFires(c) => Entered(c)')
           /\ Entered(c) /\ ~GivenBack(c) /\ TicketChecked(c) =>
                 CanGoOn(c) /\ (BlockStep(c) => GivenBack(c)')
           /\ GivenBack(c) /\ ~Published(c) =>
                 CanGoOn(c) /\ (BlockStep(c) => Published(c)')
           /\ Published(c) /\ ~Spent(c) => CanGoOn(c) /\ (BlockStep(c) => Spent(c)')
           /\ Spent(c) /\ Waiting(c) => CanReturn(c)
           /\ CallerStep(c) => Returned(c)'
           /\ GivenBack(c) => ~ticket[c]
<1> USE DEF Started, Waiting, Returned, Asking, TicketChecked, Entered, GivenBack,
            Published, Spent
<1>a. TypeOK /\ SelectInv(c) /\ OnceInv(c)
  BY DEF SInv, IInv, PerCall
<1>1. Asking(c) => CanAskBreaker(c) /\ (BreakerStep(c) => ~Asking(c)')
  BY <1>a DEF CanAskBreaker, BreakerStep, Allowed, ShortCircuited, TypeOK
<1>2. ~Asking(c) /\ ~TicketChecked(c) =>
         CanAskPool(c) /\ (TicketStep(c) => TicketChecked(c)')
  BY <1>a DEF CanAskPool, TicketStep, TakeTicket, NoTicket, TypeOK, SelectInv
<1>3. ~Entered(c) => CanTimeOut(c) /\ (TimerFires(c) => Entered(c)')
  BY <1>a DEF CanTimeOut, TimerFires, TypeOK
<1>4. /\ Entered(c) /\ ~GivenBack(c) /\ TicketChecked(c) =>
            CanGoOn(c) /\ (BlockStep(c) => GivenBack(c)')
      /\ GivenBack(c) /\ ~Published(c) =>
            CanGoOn(c) /\ (BlockStep(c) => Published(c)')
      /\ Published(c) /\ ~Spent(c) => CanGoOn(c) /\ (BlockStep(c) => Spent(c)')
  BY <1>a DEF CanGoOn, BlockStep, GiveBack, Publish, Report, TypeOK
<1>5. Spent(c) /\ Waiting(c) => CanReturn(c)
  BY <1>a DEF CanReturn, SelectInv
<1>6. CallerStep(c) => Returned(c)'
  BY <1>a DEF CallerStep, ReturnWithoutError, ReturnWithError, TypeOK
<1>7. GivenBack(c) => ~ticket[c]
  BY <1>a DEF OnceInv
<1> QED BY <1>1, <1>2, <1>3, <1>4, <1>5, <1>6, <1>7

(* Runner and timer bring every call to the block of its sync.Once, and the*)
(* block to its end.                                                       *)
LEMMA BlockEnds ==
    ASSUME NEW c \in Calls
    PROVE  []SInv /\ [][Next]_vars /\ FairCall(c) => (Started(c) ~> Spent(c))
<1>1. SInv /\ [Next]_vars /\ Started(c) =>
         /\ Started(c)'
         /\ ~Asking(c) => ~Asking(c)'
         /\ TicketChecked(c) => TicketChecked(c)'
         /\ Entered(c) => Entered(c)'
         /\ GivenBack(c) => GivenBack(c)'
         /\ Published(c) => Published(c)'
  BY NoWayBack
<1>2. SInv /\ Started(c) =>
         /\ Asking(c) => CanAskBreaker(c)
         /\ ~Asking(c) /\ ~TicketChecked(c) => CanAskPool(c)
         /\ ~Entered(c) => CanTimeOut(c)
         /\ Entered(c) /\ ~GivenBack(c) /\ TicketChecked(c) => CanGoOn(c)
         /\ GivenBack(c) /\ ~Published(c) => CanGoOn(c)
         /\ Published(c) /\ ~Spent(c) => CanGoOn(c)
  BY WayAhead
<1>3. SInv /\ Started(c) /\ <<BreakerStep(c)>>_vars => (Asking(c) => ~Asking(c)')
  BY WayAhead
<1>4. SInv /\ Started(c) /\ <<TicketStep(c)>>_vars
         => (~Asking(c) /\ ~TicketChecked(c) => TicketChecked(c)')
  BY WayAhead
<1>5. SInv /\ Started(c) /\ <<TimerFires(c)>>_vars => (~Entered(c) => Entered(c)')
  BY WayAhead
<1>6. SInv /\ Started(c) /\ <<BlockStep(c)>>_vars =>
         /\ Entered(c) /\ ~GivenBack(c) /\ TicketChecked(c) => GivenBack(c)'
         /\ GivenBack(c) /\ ~Published(c) => Published(c)'
         /\ Published(c) /\ ~Spent(c) => Spent(c)'
  BY WayAhead
<1> QED BY <1>1, <1>2, <1>3, <1>4, <1>5, <1>6, PTL DEF FairCall

LEMMA SelectConsecution == SInv /\ [Next]_vars => SInv'
BY SelectStep, TypeStep, PerCallStep DEF SInv, IInv

(* Every Execute returns: the timer or the runner enters the block, the    *)
(* block fills a channel, the caller takes what is in it.                  *)
THEOREM EveryExecuteReturns == Init /\ [][Next]_vars /\ GuardedFairness => CallsReturn
<1> SUFFICES ASSUME NEW c \in Calls
             PROVE  Init /\ [][Next]_vars /\ GuardedFairness
                       => (Waiting(c) ~> Returned(c))
  BY DEF CallsReturn, Waiting
<1>1. GuardedFairness => FairCall(c)
  BY DEF GuardedFairness
<1>2. Init => SInv
  BY InitInv, SelectInit DEF SInv
<1>3. SInv /\ [Next]_vars /\ Waiting(c) => (Waiting(c)' \/ Returned(c)')
  BY NoWayBack DEF Waiting, Started
<1>4. SInv /\ [Next]_vars /\ Started(c) => (Spent(c) => Spent(c)')
  BY NoWayBack
<1>5. SInv /\ Waiting(c) => Started(c) /\ (Spent(c) => CanReturn(c))
  BY WayAhead DEF Waiting, Started
<1>6. SInv /\ Waiting(c) /\ <<CallerStep(c)>>_vars => Returned(c)'
  BY WayAhead DEF Waiting, Started
<1> QED BY <1>1, <1>2, <1>3, <1>4, <1>5, <1>6, SelectConsecution, BlockEnds, PTL
        DEF FairCall

(* The fairness of Bulkhead, stated in the same way: Release can go on     *)
(* while its call holds a place, Respond \/ Fail while the call is pending,*)
(* and neither lasts, even if the wrapped command hangs.                   *)
THEOREM BulkheadIsServed ==
    Init /\ [][Next]_vars /\ GuardedFairness =>
        \A c \in Calls : /\ []<>~(c \in Holders)
                         /\ []<>~(phase[c] = "pending")
<1> SUFFICES ASSUME NEW c \in Calls
             PROVE  Init /\ [][Next]_vars /\ GuardedFairness =>
                       []<>~(c \in Holders) /\ []<>~(phase[c] = "pending")
  OBVIOUS
<1>1. GuardedFairness => FairCall(c)
  BY DEF GuardedFairness
<1>2. Init => SInv
  BY InitInv, SelectInit DEF SInv
<1>3. SInv /\ c \in Holders => Started(c)
  <2> SUFFICES ASSUME SInv, ticket[c], ~Started(c) PROVE FALSE
    BY DEF Holders
  <2> QED BY DEF SInv, IInv, PerCall, RunnerInv, NotRun, Started
<1>4. SInv /\ Started(c) => (Spent(c) => ~(c \in Holders))
  BY WayAhead DEF Holders, Spent, GivenBack
<1>5. phase[c] = "pending" => Waiting(c)
  BY DEF phase, Waiting
<1>6. Returned(c) => ~Waiting(c)
  BY DEF Returned, Waiting
<1>7. CallsReturn => (Waiting(c) ~> Returned(c))
  BY DEF CallsReturn, Waiting
<1>8. SInv /\ [Next]_vars /\ Started(c) => Started(c)'
  BY NoWayBack
<1> QED BY <1>1, <1>2, <1>3, <1>4, <1>5, <1>6, <1>7, <1>8, SelectConsecution, BlockEnds,
           EveryExecuteReturns, PTL
=============================================================================
