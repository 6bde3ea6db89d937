---------------------------- MODULE Interceptors ----------------------------
(***************************************************************************)
(* Pre-request interceptors (command/http/intercept.go): a map of user     *)
(* functions that every HttpCommand.Execute of the process consults before *)
(* it sends anything, and that the application changes at any time.        *)
(*                                                                         *)
(* One process-wide mutex guards the map.  A call holds it while it ranges *)
(* over the map, that is, while user code runs; the lock is not reentrant. *)
(* A user function may let the request pass, stop it, or panic.  It may    *)
(* also come back to this package, with a request of its own or to change  *)
(* the map (Reentrant), and then it waits for the lock it runs under.      *)
(*                                                                         *)
(* HttpCommand.ExecuteAsync makes a call in a goroutine of its own, which  *)
(* hands the answer over on an unbuffered channel.                         *)
(***************************************************************************)
EXTENDS FiniteSets, Naturals

CONSTANTS
    Calls,          \* calls of HttpCommand.Execute, of any API
    AsyncCalls,     \* those made by ExecuteAsync
    Admins,         \* goroutines that register and unregister
    Interceptors,   \* ids of user functions
    Reentrant,      \* those that come back to this package
    MaxChanges      \* bound: changes of the map

ASSUME InterceptorsAssumption ==
    /\ Reentrant \subseteq Interceptors
    /\ AsyncCalls \subseteq Calls
    /\ Calls \cap Admins = {}
    /\ MaxChanges \in Nat

VARIABLES
    registered,     \* interceptorFuncMap: the ids in it
    changes,        \* number of changes asked for so far
    mutex,          \* who holds interceptorFuncMapMutex
    pc,             \* where each call is
    todo,           \* ids its range statement has not visited yet
    running,        \* the user function it is in
    listener,       \* whether somebody receives from the channel of a call
    admin,          \* the change each admin waits to make
    gone,           \* history: ids whose latest change, a removal, is over
    passed          \* history: functions that let the request of a call pass

vars == <<registered, changes, mutex, pc, todo, running, listener, admin, gone,
          passed>>

NoOne == "no one"
Nothing == "nothing"

ASSUME NamesAssumption == NoOne \notin Calls \cup Admins /\ Nothing \notin Interceptors

-----------------------------------------------------------------------------
Init ==
    /\ registered \in SUBSET Interceptors
    /\ changes = 0
    /\ mutex = NoOne
    /\ pc = [c \in Calls |-> "idle"]
    /\ todo = [c \in Calls |-> {}]
    /\ running = [c \in Calls |-> Nothing]
    /\ listener = [c \in AsyncCalls |-> "none"]
    /\ admin = [a \in Admins |-> [op |-> "none", id |-> Nothing]]
    /\ gone = {}
    /\ passed = [c \in Calls |-> {}]

Goto(c, from, to) ==
    /\ pc[c] = from
    /\ pc' = [pc EXCEPT ![c] = to]

map == <<registered, changes, admin, gone>>

(* The channel of an asynchronous call, and who waits at its other end.    *)
Listen(c) ==
    listener' = [d \in AsyncCalls |-> IF d = c THEN "listening" ELSE listener[d]]

(* HttpCommand.Execute consults the interceptors while                     *)
(* EnablePreRequestInterceptor is set, otherwise it sends at once.         *)
Execute(c) ==
    /\ Goto(c, "idle", "lock")
    /\ Listen(c)
    /\ UNCHANGED <<map, mutex, todo, running, passed>>

ExecuteDisabled(c) ==
    /\ Goto(c, "idle", "returned")
    /\ Listen(c)
    /\ UNCHANGED <<map, mutex, todo, running, passed>>

(* A bug: the functions are copied under the lock and run without it. *)
Lock_CopyMap(c) ==
    /\ mutex = NoOne
    /\ Goto(c, "lock", "range")
    /\ todo' = [todo EXCEPT ![c] = registered]
    /\ UNCHANGED <<map, listener, mutex, running, passed>>

Lock(c) ==
    /\ mutex = NoOne
    /\ mutex' = c
    /\ Goto(c, "lock", "range")
    /\ todo' = [todo EXCEPT ![c] = registered]
    /\ UNCHANGED <<map, listener, running, passed>>

(* Go ranges over a map in any order.                                      *)
Enter(c) ==
    /\ Goto(c, "range", "running")
    /\ \E i \in todo[c] :
         /\ running' = [running EXCEPT ![c] = i]
         /\ todo' = [todo EXCEPT ![c] = @ \ {i}]
    /\ UNCHANGED <<map, listener, mutex, passed>>

(* What the user function does: it lets the request pass, ...              *)
LetsPass(c) ==
    /\ running[c] \notin Reentrant
    /\ Goto(c, "running", "range")
    /\ passed' = [passed EXCEPT ![c] = @ \cup {running[c]}]
    /\ running' = [running EXCEPT ![c] = Nothing]
    /\ UNCHANGED <<map, listener, mutex, todo>>

(* A bug: the next functions are asked as well, and the last one decides. *)
Stops_LastDecides(c) ==
    /\ running[c] \notin Reentrant
    /\ Goto(c, "running", "range")
    /\ running' = [running EXCEPT ![c] = Nothing]
    /\ UNCHANGED <<map, listener, mutex, todo, passed>>

(* ... stops it, so that its own response and error are the answer, ...    *)
Stops(c) ==
    /\ running[c] \notin Reentrant
    /\ Goto(c, "running", "stopped")
    /\ running' = [running EXCEPT ![c] = Nothing]
    /\ mutex' = NoOne
    /\ UNCHANGED <<map, listener, todo, passed>>

(* A bug: the unlock is not deferred. *)
Panics_KeepsLock(c) ==
    /\ running[c] \notin Reentrant
    /\ Goto(c, "running", "panicked")
    /\ running' = [running EXCEPT ![c] = Nothing]
    /\ UNCHANGED <<map, listener, mutex, todo, passed>>

(* ... or panics: the deferred unlock runs on the way to the application.  *)
Panics(c) ==
    /\ running[c] \notin Reentrant
    /\ Goto(c, "running", "panicked")
    /\ running' = [running EXCEPT ![c] = Nothing]
    /\ mutex' = NoOne
    /\ UNCHANGED <<map, listener, todo, passed>>

(* Everybody has let it pass: unlock, and on to internalExecute.           *)
Unlock(c) ==
    /\ todo[c] = {}
    /\ Goto(c, "range", "send")
    /\ mutex' = NoOne
    /\ UNCHANGED <<map, listener, todo, running, passed>>

Send(c) ==
    /\ Goto(c, "send", "returned")
    /\ UNCHANGED <<map, listener, mutex, todo, running, passed>>

-----------------------------------------------------------------------------
Answer(c, how) ==
    /\ listener[c] = "listening"
    /\ listener' = [listener EXCEPT ![c] = how]
    /\ UNCHANGED <<map, mutex, pc, todo, running, passed>>

(* A bug: only the answer of a request that was sent is handed over. *)
Deliver_Returned(c) == pc[c] = "returned" /\ Answer(c, "answered")

(* The goroutine of ExecuteAsync and the receiver meet at the channel: the *)
(* answer, or the error within a response, goes from one to the other.     *)
Deliver(c) == pc[c] \in {"returned", "stopped"} /\ Answer(c, "answered")

(* The application stops listening.  Nobody will meet the goroutine at the *)
(* channel any more, and it stays there for good.                          *)
Leave(c) == Answer(c, "left")

-----------------------------------------------------------------------------
(* RegisterPreRequestInterceptorFunc and its opposite: the request for the *)
(* lock, then the change.                                                  *)
Ask(a) ==
    /\ changes < MaxChanges
    /\ changes' = changes + 1
    /\ admin[a].op = "none"
    /\ \E op \in {"register", "unregister"}, i \in Interceptors :
         /\ admin' = [admin EXCEPT ![a] = [op |-> op, id |-> i]]
         /\ gone' = IF op = "register" THEN gone \ {i} ELSE gone
    /\ UNCHANGED <<registered, mutex, pc, todo, running, listener, passed>>

Idle(a) == admin' = [admin EXCEPT ![a] = [op |-> "none", id |-> Nothing]]

Register(a) ==
    /\ admin[a].op = "register"
    /\ mutex = NoOne
    /\ registered' = registered \cup {admin[a].id}
    /\ gone' = gone \ {admin[a].id}
    /\ Idle(a)
    /\ UNCHANGED <<changes, mutex, pc, todo, running, listener, passed>>

Unregister(a) ==
    /\ admin[a].op = "unregister"
    /\ mutex = NoOne
    /\ registered' = registered \ {admin[a].id}
    /\ gone' = gone \cup {admin[a].id}
    /\ Idle(a)
    /\ UNCHANGED <<changes, mutex, pc, todo, running, listener, passed>>

-----------------------------------------------------------------------------
Ended == {"returned", "stopped", "panicked"}

(* Everything is over, or a reentrant function waits for the lock that its *)
(* own call holds, and with it every other call.                           *)
Stuck == \E c \in Calls : running[c] \in Reentrant

(* A panic in a goroutine of ExecuteAsync meets no recover on its way and  *)
(* ends the process.                                                       *)
Down == \E c \in AsyncCalls : pc[c] = "panicked"

Blocked == Stuck \/ Down

Quiescent ==
    /\ \/ \A c \in Calls : pc[c] \in Ended
       \/ Stuck \/ Down
    /\ UNCHANGED vars

Step ==
    \/ \E c \in Calls :
          \/ Execute(c) \/ ExecuteDisabled(c) \/ Lock(c) \/ Enter(c)
          \/ LetsPass(c) \/ Stops(c) \/ Panics(c) \/ Unlock(c) \/ Send(c)
    \/ \E c \in AsyncCalls : Deliver(c) \/ Leave(c)
    \/ \E a \in Admins : Ask(a) \/ Register(a) \/ Unregister(a)

Next == (~Down /\ Step) \/ Quiescent

(* User functions that do not come back here end.  A Go mutex starves      *)
(* nobody, so whoever waits for it gets it if it is released often enough. *)
Fairness ==
    /\ \A c \in Calls :
          /\ SF_vars(Lock(c))
          /\ WF_vars(Enter(c) \/ LetsPass(c) \/ Stops(c) \/ Panics(c)
                       \/ Unlock(c) \/ Send(c))
    /\ \A c \in AsyncCalls : WF_vars(Deliver(c))
    /\ \A a \in Admins : SF_vars(Register(a) \/ Unregister(a))

Spec == Init /\ [][Next]_vars /\ Fairness

-----------------------------------------------------------------------------
(* Properties.                                                             *)

(* The type of every variable.                                             *)
TypeOK ==
    /\ registered \in SUBSET Interceptors
    /\ changes \in 0 .. MaxChanges
    /\ mutex \in Calls \cup {NoOne}
    /\ pc \in [Calls -> {"idle", "lock", "range", "running", "send"} \cup Ended]
    /\ todo \in [Calls -> SUBSET Interceptors]
    /\ running \in [Calls -> Interceptors \cup {Nothing}]
    /\ listener \in [AsyncCalls -> {"none", "listening", "answered", "left"}]
    /\ admin \in [Admins -> [op : {"none", "register", "unregister"},
                             id : Interceptors \cup {Nothing}]]
    /\ gone \in SUBSET Interceptors
    /\ passed \in [Calls -> SUBSET Interceptors]

(* When a request is let through, every function that is registered at that*)
(* moment has let it pass: none was skipped, none was added meanwhile, and *)
(* none that stopped it was overruled.                                     *)
NobodyIsOverruled ==
    [][\A c \in Calls : pc[c] = "range" /\ pc'[c] = "send"
         => registered \subseteq passed[c]]_vars

(* Once Unregister has returned, the function is not running and is not    *)
(* run again: the application may release what it uses.                    *)
UnregisteredRests == \A c \in Calls : running[c] \notin gone

(* Every call gets through the interceptors, also behind one that panics,  *)
(* as long as no function comes back to the package under the lock and none*)
(* panics in a goroutine.                                                  *)
CallsReturn == \A c \in Calls : pc[c] = "lock" ~> pc[c] \in Ended \/ Blocked

(* Whoever listens to the channel of ExecuteAsync gets the answer of the   *)
(* call, also when an interceptor has stopped it, with the same exceptions;*)
(* an answered call is over.                                               *)
ListenersAreAnswered ==
    \A c \in AsyncCalls : listener[c] = "listening" ~>
        (listener[c] = "answered" /\ pc[c] \in Ended) \/ listener[c] = "left" \/ Blocked

(* A change of the map is never starved by calls, with those exceptions.  *)
ChangesReturn ==
    \A a \in Admins : admin[a].op # "none" ~> admin[a].op = "none" \/ Blocked
=============================================================================
