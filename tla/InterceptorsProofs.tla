------------------------- MODULE InterceptorsProofs -------------------------
(***************************************************************************)
(* Proofs about Interceptors, for any number of calls, goroutines that     *)
(* change the map, user functions and changes.                             *)
(*                                                                         *)
(* The inductive invariant says what the lock protects: only the call that *)
(* holds it is inside the range statement, and what that call has visited, *)
(* runs and has yet to visit is together the map as it is now.             *)
(***************************************************************************)
EXTENDS Interceptors, TLAPS

(* The lock is held exactly by the call inside the range statement.        *)
OneInside == \A c \in Calls : pc[c] \in {"range", "running"} <=> mutex = c

(* A user function runs exactly while its call is at that place.           *)
RunsInPlace == \A c \in Calls : running[c] # Nothing <=> pc[c] = "running"

(* What the call inside the range statement knows is the map as it is.     *)
LoopIsCurrent ==
    \A c \in Calls : mutex = c =>
        /\ todo[c] \cup ({running[c]} \ {Nothing}) \subseteq registered
        /\ registered \subseteq todo[c] \cup passed[c] \cup {running[c]}

(* A function whose removal is over is not in the map.                     *)
GoneIsGone == gone \cap registered = {}

(* Whoever waits to change the map has a function to change it with.       *)
ChangeHasFunction ==
    \A a \in Admins : admin[a].op # "none" => admin[a].id \in Interceptors

IInv ==
    /\ TypeOK
    /\ OneInside
    /\ RunsInPlace
    /\ LoopIsCurrent
    /\ GoneIsGone
    /\ ChangeHasFunction

-----------------------------------------------------------------------------
(* The steps of a call, without those of the goroutines around it.         *)
CallStep(c) ==
    \/ Execute(c) \/ ExecuteDisabled(c) \/ Lock(c) \/ Enter(c)
    \/ LetsPass(c) \/ Stops(c) \/ Panics(c) \/ Unlock(c) \/ Send(c)

LEMMA InitHolds == Init => IInv
BY InterceptorsAssumption, NamesAssumption
   DEF Init, IInv, TypeOK, OneInside, RunsInPlace, LoopIsCurrent, GoneIsGone,
       ChangeHasFunction

(* The steps of HttpCommand.Execute and of the functions it runs.          *)
LEMMA CallKeeps ==
    ASSUME IInv, NEW c \in Calls, CallStep(c)
    PROVE  IInv'
<1> USE InterceptorsAssumption, NamesAssumption
        DEF IInv, TypeOK, OneInside, RunsInPlace, LoopIsCurrent, GoneIsGone,
            ChangeHasFunction, Goto, map, Ended
<1>1. CASE Execute(c)
  BY <1>1 DEF Execute, Listen
<1>2. CASE ExecuteDisabled(c)
  BY <1>2 DEF ExecuteDisabled, Listen
<1>3. CASE Lock(c)
  BY <1>3 DEF Lock
<1>4. CASE Enter(c)
  BY <1>4 DEF Enter
<1>5. CASE LetsPass(c)
  BY <1>5 DEF LetsPass
<1>6. CASE Stops(c)
  BY <1>6 DEF Stops
<1>7. CASE Panics(c)
  BY <1>7 DEF Panics
<1>8. CASE Unlock(c)
  BY <1>8 DEF Unlock
<1>9. CASE Send(c)
  BY <1>9 DEF Send
<1> QED BY <1>1, <1>2, <1>3, <1>4, <1>5, <1>6, <1>7, <1>8, <1>9 DEF CallStep

(* The channel of ExecuteAsync touches nothing but the listener.           *)
LEMMA ChannelKeeps ==
    ASSUME IInv, NEW c \in AsyncCalls, Deliver(c) \/ Leave(c)
    PROVE  IInv'
BY InterceptorsAssumption
   DEF IInv, TypeOK, OneInside, RunsInPlace, LoopIsCurrent, GoneIsGone,
       ChangeHasFunction, Deliver, Leave, Answer, map

(* The map changes only while nobody is inside the range statement.        *)
LEMMA ChangeKeeps ==
    ASSUME IInv, NEW a \in Admins, Ask(a) \/ Register(a) \/ Unregister(a)
    PROVE  IInv'
<1> USE InterceptorsAssumption, NamesAssumption
        DEF IInv, TypeOK, OneInside, RunsInPlace, LoopIsCurrent, GoneIsGone,
            ChangeHasFunction, Idle
<1>1. CASE Ask(a)
  BY <1>1 DEF Ask
<1>2. CASE Register(a)
  BY <1>2 DEF Register
<1>3. CASE Unregister(a)
  BY <1>3 DEF Unregister
<1> QED BY <1>1, <1>2, <1>3

LEMMA StepKeeps == IInv /\ [Next]_vars => IInv'
<1> SUFFICES ASSUME IInv, [Next]_vars PROVE IInv'
  OBVIOUS
<1>1. ASSUME NEW c \in Calls, CallStep(c) PROVE IInv'
  BY <1>1, CallKeeps
<1>2. ASSUME NEW c \in AsyncCalls, Deliver(c) \/ Leave(c) PROVE IInv'
  BY <1>2, ChannelKeeps
<1>3. ASSUME NEW a \in Admins, Ask(a) \/ Register(a) \/ Unregister(a) PROVE IInv'
  BY <1>3, ChangeKeeps
<1>4. CASE UNCHANGED vars
  BY <1>4 DEF IInv, TypeOK, OneInside, RunsInPlace, LoopIsCurrent, GoneIsGone,
              ChangeHasFunction, vars
<1> QED BY <1>1, <1>2, <1>3, <1>4 DEF Next, Step, Quiescent, CallStep

(* The invariant that all the theorems below rest on.                      *)
THEOREM Invariance == Spec => []IInv
<1> QED BY InitHolds, StepKeeps, PTL DEF Spec

-----------------------------------------------------------------------------
(* Every variable keeps its type.                                          *)
THEOREM TypeCorrectness == Spec => []TypeOK
<1>1. IInv => TypeOK
  BY DEF IInv
<1> QED BY <1>1, Invariance, PTL

(* A function whose Unregister has returned does not run, in any call: the *)
(* one that runs is in the map, because only the lock's holder runs any.   *)
THEOREM RemovedRests == Spec => []UnregisteredRests
<1>1. IInv => UnregisteredRests
  BY InterceptorsAssumption, NamesAssumption
     DEF IInv, TypeOK, OneInside, RunsInPlace, LoopIsCurrent, GoneIsGone,
         UnregisteredRests
<1> QED BY <1>1, Invariance, PTL

(* The request of a call goes out only when every function that is in the  *)
(* map at that moment has let it pass, in whatever order they were asked.  *)
THEOREM AllMustPass == Spec => NobodyIsOverruled
<1> DEFINE Asked ==
      \A c \in Calls : pc[c] = "range" /\ pc'[c] = "send" => registered \subseteq passed[c]
<1>1. ASSUME IInv, Next PROVE Asked
  <2> SUFFICES ASSUME NEW c \in Calls, pc[c] = "range", pc'[c] = "send"
               PROVE  registered \subseteq passed[c]
    OBVIOUS
  <2>1. Unlock(c)
    <3>1. ASSUME NEW d \in Calls, CallStep(d) PROVE Unlock(c)
      BY <1>1, <3>1
         DEF IInv, TypeOK, CallStep, Execute, ExecuteDisabled, Lock, Enter, LetsPass,
             Stops, Panics, Unlock, Send, Goto
    <3>2. ASSUME NEW d \in AsyncCalls, Deliver(d) \/ Leave(d) PROVE FALSE
      BY <3>2 DEF Deliver, Leave, Answer
    <3>3. ASSUME NEW a \in Admins, Ask(a) \/ Register(a) \/ Unregister(a) PROVE FALSE
      BY <3>3 DEF Ask, Register, Unregister
    <3>4. CASE UNCHANGED vars
      BY <3>4 DEF vars
    <3> QED BY <1>1, <3>1, <3>2, <3>3, <3>4 DEF Next, Step, Quiescent, CallStep
  <2>2. todo[c] = {} /\ running[c] = Nothing /\ mutex = c
    BY <1>1, <2>1 DEF IInv, OneInside, RunsInPlace, Unlock
  <2> QED BY <1>1, <2>2, NamesAssumption DEF IInv, TypeOK, LoopIsCurrent
<1>2. IInv /\ [Next]_vars => [Asked]_vars
  BY <1>1
<1> QED BY <1>2, Invariance, PTL DEF Spec, NobodyIsOverruled
=============================================================================
