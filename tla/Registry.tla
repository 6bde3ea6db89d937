------------------------------ MODULE Registry ------------------------------
(***************************************************************************)
(* What a GoxHttpContext promises the users of its APIs, whatever maps and *)
(* locks it is made of: a table of versions.  A reload commits a new       *)
(* version of one API in one step, one reload after the other.  From then  *)
(* until the version has settled a call may be given the budget of the     *)
(* version before, which is none at all for a new API; at any other time   *)
(* it is given the budget of the version that the table shows.  What       *)
(* hystrix was told of an API, and whether it was told at all, is settled  *)
(* by the first version.                                                   *)
(***************************************************************************)
EXTENDS Naturals

CONSTANTS
    Names,      \* API names
    Callers     \* concurrent calls of Execute

VARIABLES
    api,        \* the version of each registered API
    call        \* where each call is, in which API, with which deadline

vars == <<api, call>>

Version == [kind : {"http", "hystrix"}, hystrixTimeout : Nat,
            clientTimeout : Nat, budget : Nat, earlier : Nat]

Settled(n) == api[n].earlier = api[n].budget

(* Hystrix does not give up before the requests it runs. *)
Outlasts(v) == v.kind = "hystrix" => v.hystrixTimeout >= v.budget

Init ==
    /\ DOMAIN api \subseteq Names
    /\ \A n \in DOMAIN api :
         /\ api[n] \in Version
         /\ api[n].clientTimeout <= api[n].budget
         /\ Outlasts(api[n])
         /\ Settled(n)
    /\ call = [c \in Callers |-> [at |-> "idle", name |-> "no name", deadline |-> 0]]

(* What a version takes over from the one before. *)
Replaces(old, new) ==
    /\ new.kind = old.kind
    /\ new.hystrixTimeout = old.hystrixTimeout
    /\ new.earlier = old.budget

(* A reload makes the next version of an API: its budget is that of one    *)
(* attempt.                                                                *)
Commit(n) ==
    /\ \A k \in DOMAIN api : Settled(k)
    /\ DOMAIN api' = DOMAIN api \cup {n}
    /\ \A k \in DOMAIN api \ {n} : api'[k] = api[k]
    /\ api'[n] \in Version
    /\ api'[n].budget > 0
    /\ api'[n].budget = api'[n].clientTimeout
    /\ IF n \in DOMAIN api THEN Replaces(api[n], api'[n])
                           ELSE Outlasts(api'[n]) /\ api'[n].earlier = 0
    /\ UNCHANGED call

Settle(n) ==
    /\ n \in DOMAIN api
    /\ ~Settled(n)
    /\ api' = [api EXCEPT ![n] = [@ EXCEPT !.earlier = api[n].budget]]
    /\ UNCHANGED call

Find(c) ==
    /\ call[c].at = "idle"
    /\ \E n \in Names :
         call' = [call EXCEPT ![c] =
            [at |-> IF n \in DOMAIN api THEN "found" ELSE "not_found",
             name |-> n, deadline |-> 0]]
    /\ UNCHANGED api

Give(c) ==
    /\ call[c].at = "found"
    /\ \E d \in {api[call[c].name].budget, api[call[c].name].earlier} :
         call' = [call EXCEPT ![c].at = "running", ![c].deadline = d]
    /\ UNCHANGED api

Return(c) ==
    /\ call[c].at = "running"
    /\ call' = [call EXCEPT ![c].at = "returned"]
    /\ UNCHANGED api

Next ==
    \/ \E n \in Names : Commit(n) \/ Settle(n)
    \/ \E c \in Callers : Find(c) \/ Give(c) \/ Return(c)

Spec == Init /\ [][Next]_vars
=============================================================================
