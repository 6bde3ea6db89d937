------------------------------ MODULE Bulkhead ------------------------------
(***************************************************************************)
(* What HttpHystrixCommand promises its callers: a bulkhead in front of    *)
(* the wrapped HttpCommand.  A call asks for a place, may be given one of  *)
(* Concurrency places, and is answered exactly once.  A call answered with *)
(* a response has had a place; a call answered with an error holds none    *)
(* any more; nobody is let in after having been answered; every call is    *)
(* answered and every place comes back.                                    *)
(***************************************************************************)
EXTENDS Naturals, FiniteSets

CONSTANTS
    Calls,          \* calls of HttpHystrixCommand.Execute
    Concurrency     \* api.Concurrency, the number of places

VARIABLES
    phase,      \* what the caller of each call has seen
    holding,    \* calls that occupy a place
    admitted    \* calls that have ever been given a place

vars == <<phase, holding, admitted>>

Init ==
    /\ phase = [c \in Calls |-> "idle"]
    /\ holding = {}
    /\ admitted = {}

Submit(c) ==
    /\ phase[c] = "idle"
    /\ phase' = [phase EXCEPT ![c] = "pending"]
    /\ UNCHANGED <<holding, admitted>>

Admit(c) ==
    /\ phase[c] = "pending"
    /\ c \notin admitted
    /\ Cardinality(holding) < Concurrency
    /\ holding' = holding \cup {c}
    /\ admitted' = admitted \cup {c}
    /\ UNCHANGED phase

Release(c) ==
    /\ c \in holding
    /\ holding' = holding \ {c}
    /\ UNCHANGED <<phase, admitted>>

Respond(c) ==
    /\ phase[c] = "pending"
    /\ c \in admitted
    /\ phase' = [phase EXCEPT ![c] = "response"]
    /\ UNCHANGED <<holding, admitted>>

Fail(c) ==
    /\ phase[c] = "pending"
    /\ c \notin holding
    /\ phase' = [phase EXCEPT ![c] = "error"]
    /\ UNCHANGED <<holding, admitted>>

Next == \E c \in Calls :
    Submit(c) \/ Admit(c) \/ Release(c) \/ Respond(c) \/ Fail(c)

Fairness == \A c \in Calls :
    /\ WF_vars(Release(c))
    /\ WF_vars(Respond(c) \/ Fail(c))

Spec == Init /\ [][Next]_vars /\ Fairness
=============================================================================
