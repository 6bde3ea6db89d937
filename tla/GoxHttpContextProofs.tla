------------------------ MODULE GoxHttpContextProofs ------------------------
(***************************************************************************)
(* Theorems about GoxHttpContext, for any APIs, configurations, callers    *)
(* and reloaders.  The invariant says who is where in the critical section *)
(* and what the maps hold meanwhile.                                       *)
(***************************************************************************)
EXTENDS GoxHttpContext, TLAPS

-----------------------------------------------------------------------------
(* The inductive invariant.                                                *)

Inside(t) == reloader[t].at \in {"locked", "command", "between", "timeout"}

(* ReloadApi has found the configuration of its API to be usable; nobody   *)
(* edits it before the lock is free.                                       *)
Prepared(t) ==
    reloader[t].at \in {"command", "between", "timeout"} => Buildable(t)

(* The new command is registered, the new budget is not.                   *)
Registered(t) ==
    reloader[t].at \in {"between", "timeout"} =>
        /\ Named(t) \in DOMAIN commands
        /\ commands[Named(t)].clientTimeout = config[Named(t)].timeout

UnderReload(n) == \E t \in Reloaders :
    Named(t) = n /\ reloader[t].at \in {"command", "between", "timeout"}

Asked(n) == \E t \in Reloaders : Named(t) = n /\ reloader[t].at # "idle"

Room(n) == n \in DOMAIN timeouts /\ commands[n].clientTimeout <= timeouts[n]

Current(n) ==
    /\ timeouts[n] = config[n].timeout
    /\ commands[n].clientTimeout = config[n].timeout

Exclusion == \A t \in Reloaders : Inside(t) => lock = t
Defaulted == lock # NoOne => \A n \in DOMAIN config : config[n].timeout \in Nat \ {0}
Stages == \A t \in Reloaders : Prepared(t) /\ Registered(t)
CommandFirst == DOMAIN timeouts \subseteq DOMAIN commands
RoomOrReload == \A n \in DOMAIN commands : Room(n) \/ UnderReload(n)
BudgetsPositive ==
    /\ SetupNames \subseteq DOMAIN timeouts
    /\ \A n \in DOMAIN timeouts : timeouts[n] > 0
CurrentOrAsked == \A n \in reloaded :
    /\ n \in DOMAIN config
    /\ n \in DOMAIN timeouts
    /\ ~config[n].buildable \/ Current(n) \/ Asked(n)

IInv ==
    /\ TypeOK
    /\ Exclusion
    /\ Defaulted
    /\ Stages
    /\ CommandFirst
    /\ RoomOrReload
    /\ BudgetsPositive
    /\ CurrentOrAsked
    /\ HystrixOutlastsDeadline
    /\ SetupCallsHaveTime

-----------------------------------------------------------------------------
(* Facts used in several steps.                                            *)

LEMMA Steps ==
    ASSUME TypeOK, NEW t \in Reloaders, NEW from, NEW to, Goto(t, from, to),
           to \in {"idle", "locked", "command", "between", "timeout"}
    PROVE  /\ reloader[t].at = from
           /\ reloader'[t].at = to
           /\ Named(t)' = Named(t)
           /\ \A u \in Reloaders \ {t} : reloader'[u] = reloader[u]
           /\ reloader' \in [Reloaders ->
                 [at : {"idle", "asked", "locked", "command", "between", "timeout"},
                  name : Names \cup {NoName}]]
BY DEF TypeOK, Goto, Named

LEMMA Configured ==
    ASSUME TypeOK, NEW n \in DOMAIN config
    PROVE  /\ n \in Names
           /\ config[n] \in Api
BY DEF TypeOK

LEMMA Usable ==
    ASSUME IInv, NEW t \in Reloaders, Inside(t), NEW n \in DOMAIN config
    PROVE  /\ n \in Names
           /\ config[n] \in Api
           /\ config[n].timeout \in Nat \ {0}
BY Configured, ContextAssumption DEF IInv, Exclusion, Defaulted

LEMMA DefaultsAreUsable ==
    ASSUME NEW api \in Api
    PROVE  /\ SetupDefaults(api) \in Api
           /\ SetupDefaults(api).timeout \in Nat \ {0}
           /\ SetupDefaults(api).buildable = api.buildable
           /\ api.timeout > 0 => SetupDefaults(api).timeout = api.timeout
BY DEF SetupDefaults, Api

command == [kind : {"http", "hystrix"}, hystrixTimeout : Nat, clientTimeout : Nat]

(* A hystrix timeout covers the budget of the same configuration, which    *)
(* covers an attempt.                                                      *)
LEMMA BudgetsCover ==
    ASSUME NEW api, api.timeout \in Nat, api.retryCount \in Int, api.wait \in Nat
    PROVE  /\ GetTimeoutWithRetryIncluded(api) \in Nat
           /\ GetTimeoutWithRetryIncluded(api) >= api.timeout
           /\ HystrixTimeout(api) \in Nat
           /\ HystrixTimeout(api) >= GetTimeoutWithRetryIncluded(api)
<1>. DEFINE w == WithRetries(api)
            retries == api.timeout * api.retryCount
<1>1. api.retryCount > 0 => retries \in Nat
  OBVIOUS
<1>. HIDE DEF retries
<1>2. w = IF api.retryCount > 0 THEN api.timeout + retries + api.wait ELSE api.timeout
  BY DEF WithRetries, retries
<1>3. w \in Nat /\ w >= api.timeout
  BY <1>1, <1>2
<1>. HIDE DEF w
<1>4. WithDelta(w) \in Nat /\ WithDelta(w) >= w
  BY <1>3 DEF WithDelta
<1>. QED
  BY <1>3, <1>4 DEF HystrixTimeout, GetTimeoutWithRetryIncluded, w

LEMMA CommandType ==
    ASSUME NEW cf \in Api, cf.timeout \in Nat
    PROVE  /\ NewCommand(cf) \in command
           /\ NewCommand(cf).clientTimeout = cf.timeout
           /\ \A cmd \in command :
                 /\ UpdatedCommand(cmd, cf) \in command
                 /\ UpdatedCommand(cmd, cf).clientTimeout = cf.timeout
                 /\ UpdatedCommand(cmd, cf).kind = cmd.kind
                 /\ UpdatedCommand(cmd, cf).hystrixTimeout = cmd.hystrixTimeout
<1>1. cf.timeout \in Nat /\ cf.retryCount \in Int /\ cf.wait \in Nat
  BY DEF Api
<1>2. HystrixTimeout(cf) \in Nat
  BY <1>1, BudgetsCover
<1>. QED
  BY <1>1, <1>2 DEF NewCommand, UpdatedCommand, command

-----------------------------------------------------------------------------
LEMMA Initially == Init => IInv
<1>. SUFFICES ASSUME Init PROVE IInv
  OBVIOUS
<1>. USE DEF Init
<1>1. ASSUME NEW n \in SetupNames
      PROVE  /\ config[n] \in Api
             /\ config[n].timeout \in Nat \ {0}
             /\ timeouts[n] \in Nat
             /\ timeouts[n] >= config[n].timeout
             /\ HystrixTimeout(config[n]) >= timeouts[n]
             /\ commands[n] = NewCommand(config[n])
  <2>1. /\ config[n] \in {SetupDefaults(Parsed(e)) : e \in Entries}
        /\ timeouts[n] = GetTimeoutWithRetryIncluded(config[n])
        /\ commands[n] = NewCommand(config[n])
    OBVIOUS
  <2>2. config[n] \in Api /\ config[n].timeout \in Nat \ {0}
    BY <2>1, ContextAssumption, DefaultsAreUsable
  <2>3. config[n].timeout \in Nat /\ config[n].retryCount \in Int /\ config[n].wait \in Nat
    BY <2>2 DEF Api
  <2>. QED
    BY <2>1, <2>2, <2>3, BudgetsCover
<1>2. TypeOK
  <2>1. \A n \in DOMAIN commands : commands[n] \in command
    BY <1>1, CommandType
  <2>2. /\ DOMAIN config = SetupNames
        /\ DOMAIN commands = SetupNames
        /\ DOMAIN timeouts = SetupNames
    OBVIOUS
  <2>3. /\ \A n \in DOMAIN config : config[n] \in Api
        /\ \A n \in DOMAIN timeouts : timeouts[n] \in Nat
    BY <1>1, <2>2
  <2>4. /\ SetupNames \subseteq Names
        /\ edits \in 0 .. MaxEdits
    BY ContextAssumption
  <2>5. /\ lock \in Reloaders \cup {NoOne}
        /\ reloader \in [Reloaders ->
              [at : {"idle", "asked", "locked", "command", "between", "timeout"},
               name : Names \cup {NoName}]]
        /\ call \in [Callers ->
              [at : {"idle", "not_found", "found", "running", "returned"},
               name : Names \cup {NoName}, deadline : Nat]]
        /\ reloaded \in SUBSET Names
        /\ crashed \in BOOLEAN
    OBVIOUS
  <2>. QED
    BY <2>1, <2>2, <2>3, <2>4, <2>5 DEF TypeOK, command
<1>3. Exclusion /\ Defaulted /\ Stages /\ CommandFirst /\ CurrentOrAsked /\ SetupCallsHaveTime
  BY DEF Exclusion, Defaulted, Inside, Stages, Prepared, Registered, CommandFirst,
         CurrentOrAsked, SetupCallsHaveTime
<1>4. RoomOrReload
  BY <1>1, CommandType DEF RoomOrReload, Room
<1>5. BudgetsPositive
  BY <1>1 DEF BudgetsPositive
<1>6. HystrixOutlastsDeadline
  BY <1>1 DEF HystrixOutlastsDeadline, NewCommand
<1>. QED
  BY <1>2, <1>3, <1>4, <1>5, <1>6 DEF IInv

-----------------------------------------------------------------------------
(* Execute, and the runtime's throw, change neither maps nor reloaders.    *)
LEMMA CallSteps ==
    ASSUME IInv,
           UNCHANGED <<config, edits, commands, timeouts, lock, reloader, reloaded>>,
           call' \in [Callers ->
              [at : {"idle", "not_found", "found", "running", "returned"},
               name : Names \cup {NoName}, deadline : Nat]],
           crashed' \in BOOLEAN,
           SetupCallsHaveTime'
    PROVE  IInv'
<1>1. TypeOK'
  BY DEF IInv, TypeOK
<1>2. Exclusion' /\ Defaulted' /\ Stages' /\ CommandFirst' /\ RoomOrReload'
  BY DEF IInv, Exclusion, Defaulted, Inside, Stages, Prepared, Registered, Buildable, Named,
         CommandFirst, RoomOrReload, Room, UnderReload
<1>3. BudgetsPositive' /\ CurrentOrAsked' /\ HystrixOutlastsDeadline'
  BY DEF IInv, BudgetsPositive, CurrentOrAsked, Current, Asked, Named,
         HystrixOutlastsDeadline
<1>. QED
  BY <1>1, <1>2, <1>3 DEF IInv

LEMMA Execution ==
    ASSUME IInv, NEW c \in Callers, FindCommand(c) \/ SetDeadline(c) \/ Return(c)
    PROVE  IInv'
<1>. USE DEF IInv
<1>0. call \in [Callers ->
              [at : {"idle", "not_found", "found", "running", "returned"},
               name : Names \cup {NoName}, deadline : Nat]]
  BY DEF TypeOK
<1>1. CASE FindCommand(c)
  <2>1. PICK n \in Names :
           call' = [call EXCEPT ![c] =
              [at |-> IF n \in DOMAIN commands THEN "found" ELSE "not_found",
               name |-> n, deadline |-> 0]]
    BY <1>1 DEF FindCommand
  <2>2. SetupCallsHaveTime'
    BY <1>0, <2>1 DEF SetupCallsHaveTime
  <2>. QED
    BY <1>0, <1>1, <2>1, <2>2, CallSteps DEF FindCommand, TypeOK
<1>2. CASE SetDeadline(c)
  <2>1. Lookup(timeouts, call[c].name) \in Nat
    BY DEF TypeOK, Lookup
  <2>2. call[c].name \in SetupNames => Lookup(timeouts, call[c].name) > 0
    BY DEF Lookup, BudgetsPositive
  <2>3. call' = [call EXCEPT ![c] = [[call[c] EXCEPT !.at = "running"]
                    EXCEPT !.deadline = Lookup(timeouts, call[c].name)]]
    BY <1>0, <1>2 DEF SetDeadline
  <2>. DEFINE d == Lookup(timeouts, call[c].name)
              moved == [call[c] EXCEPT !.at = "running"]
              timed == [moved EXCEPT !.deadline = d]
  <2>4. /\ call[c] \in [at : {"idle", "not_found", "found", "running", "returned"},
                        name : Names \cup {NoName}, deadline : Nat]
        /\ moved.name = call[c].name
        /\ moved \in [at : {"idle", "not_found", "found", "running", "returned"},
                      name : Names \cup {NoName}, deadline : Nat]
    BY <1>0
  <2>5. /\ timed.name = call[c].name
        /\ timed.deadline = d
        /\ timed \in [at : {"idle", "not_found", "found", "running", "returned"},
                      name : Names \cup {NoName}, deadline : Nat]
    <3>. HIDE DEF moved, d
    <3>. QED
      BY <2>1, <2>4 DEF d
  <2>8. call' = [call EXCEPT ![c] = timed]
    BY <2>3
  <2>. HIDE DEF d, timed, moved
  <2>6. SetupCallsHaveTime'
    BY <1>0, <2>2, <2>5, <2>8 DEF SetupCallsHaveTime, d
  <2>7. call' \in [Callers ->
              [at : {"idle", "not_found", "found", "running", "returned"},
               name : Names \cup {NoName}, deadline : Nat]]
    BY <1>0, <2>5, <2>8
  <2>. QED
    BY <1>2, <2>6, <2>7, CallSteps DEF SetDeadline, TypeOK
<1>3. CASE Return(c)
  <2>1. SetupCallsHaveTime'
    BY <1>0, <1>3 DEF Return, SetupCallsHaveTime
  <2>. QED
    BY <1>0, <1>3, <2>1, CallSteps DEF Return, TypeOK
<1>. QED
  BY <1>1, <1>2, <1>3

LEMMA Ends == ASSUME IInv, Throw PROVE IInv'
<1>1. SetupCallsHaveTime'
  BY DEF IInv, Throw, SetupCallsHaveTime
<1>. QED
  BY <1>1, CallSteps DEF IInv, Throw, TypeOK

-----------------------------------------------------------------------------
(* The application and the reloads.                                        *)
LEMMA NobodyInside ==
    ASSUME IInv, lock = NoOne
    PROVE  \A t \in Reloaders : reloader[t].at \in {"idle", "asked"}
<1>. SUFFICES ASSUME NEW t \in Reloaders
              PROVE  reloader[t].at \in {"idle", "asked"}
  OBVIOUS
<1>1. ~Inside(t)
  BY ContextAssumption DEF IInv, Exclusion
<1>. QED
  BY <1>1 DEF IInv, TypeOK, Inside

LEMMA Alone ==
    ASSUME IInv, NEW t \in Reloaders, Inside(t)
    PROVE  /\ lock = t
           /\ \A u \in Reloaders \ {t} : reloader[u].at \in {"idle", "asked"}
<1>1. lock = t
  BY DEF IInv, Exclusion
<1>2. ASSUME NEW u \in Reloaders \ {t} PROVE reloader[u].at \in {"idle", "asked"}
  <2>1. ~Inside(u)
    BY <1>1 DEF IInv, Exclusion
  <2>. QED
    BY <2>1 DEF IInv, TypeOK, Inside
<1>. QED
  BY <1>1, <1>2

LEMMA Asking == ASSUME IInv, NEW t \in Reloaders, Ask(t) PROVE IInv'
<1>. USE DEF IInv
<1>1. PICK n \in Names :
         /\ reloader' = [reloader EXCEPT ![t] = [at |-> "asked", name |-> n]]
         /\ (\E cf \in Configs : config' = Put(config, n, cf)) \/ config' = config
  BY DEF Ask
<1>2. /\ \A u \in Reloaders : reloader[u].at \in {"idle", "asked"}
      /\ reloader[t].at = "idle"
  BY NobodyInside DEF Ask
<1>3. /\ reloader' \in [Reloaders ->
            [at : {"idle", "asked", "locked", "command", "between", "timeout"},
             name : Names \cup {NoName}]]
      /\ reloader'[t].at = "asked"
      /\ Named(t)' = n
      /\ \A u \in Reloaders \ {t} : reloader'[u] = reloader[u]
  BY <1>1 DEF TypeOK, Named
<1>4. /\ DOMAIN config \subseteq DOMAIN config'
      /\ DOMAIN config' \subseteq Names
      /\ \A k \in DOMAIN config' : config'[k] \in Api
      /\ \A k \in DOMAIN config \ {n} : config'[k] = config[k]
  BY <1>1, ContextAssumption DEF TypeOK, Put
<1>5. TypeOK'
  <2>1. edits' \in 0 .. MaxEdits
    BY ContextAssumption DEF Ask, TypeOK
  <2>. QED
    BY <1>3, <1>4, <2>1 DEF Ask, TypeOK
<1>6. \A u \in Reloaders : reloader'[u].at \in {"idle", "asked"}
  BY <1>2, <1>3
<1>7. Exclusion' /\ Defaulted' /\ Stages'
  BY <1>6 DEF Ask, Exclusion, Defaulted, Inside, Stages, Prepared, Registered
<1>8. CommandFirst' /\ BudgetsPositive' /\ HystrixOutlastsDeadline' /\ SetupCallsHaveTime'
  BY DEF Ask, CommandFirst, BudgetsPositive, HystrixOutlastsDeadline, SetupCallsHaveTime
<1>9. RoomOrReload'
  <2>1. \A k : ~UnderReload(k)
    BY <1>2 DEF UnderReload
  <2>. QED
    BY <2>1 DEF RoomOrReload, Room, Ask
<1>10. CurrentOrAsked'
  <2>. SUFFICES ASSUME NEW k \in reloaded
                PROVE  /\ k \in DOMAIN config'
                       /\ ~config'[k].buildable \/ Current(k)' \/ Asked(k)'
    BY DEF CurrentOrAsked, Ask, IInv
  <2>1. k \in DOMAIN config /\ (~config[k].buildable \/ Current(k) \/ Asked(k))
    BY DEF CurrentOrAsked
  <2>2. CASE k = n
    BY <1>3, <1>4, <2>1, <2>2 DEF Asked
  <2>3. CASE k # n
    <3>1. config'[k] = config[k] /\ k \in DOMAIN config'
      BY <1>4, <2>1, <2>3
    <3>2. CASE Asked(k)
      <4>1. PICK u \in Reloaders : Named(u) = k /\ reloader[u].at # "idle"
        BY <3>2 DEF Asked
      <4>2. u # t
        BY <1>2, <4>1
      <4>. QED
        BY <1>3, <3>1, <4>1, <4>2 DEF Asked, Named
    <3>. QED
      BY <2>1, <3>1, <3>2 DEF Current, Ask
  <2>. QED
    BY <2>2, <2>3
<1>. QED
  BY <1>5, <1>7, <1>8, <1>9, <1>10

(* A step of a reload that leaves the maps alone: GiveUp and BeginTimeout. *)
LEMMA MapsStay ==
    ASSUME IInv, NEW t \in Reloaders, NEW from, NEW to, Goto(t, from, to),
           to \in {"idle", "timeout"},
           lock' \in {lock, NoOne},
           UNCHANGED <<config, edits, commands, timeouts, call, reloaded, crashed>>,
           Exclusion',
           to = "timeout" <=> from = "between",
           from \in {"locked", "between"},
           to = "idle" => from = "locked" /\ ~Buildable(t)
    PROVE  IInv'
<1>. USE DEF IInv
<1>1. /\ reloader[t].at = from
      /\ reloader'[t].at = to
      /\ Named(t)' = Named(t)
      /\ \A u \in Reloaders \ {t} : reloader'[u] = reloader[u]
      /\ reloader' \in [Reloaders ->
            [at : {"idle", "asked", "locked", "command", "between", "timeout"},
             name : Names \cup {NoName}]]
  BY Steps
<1>2. TypeOK'
  BY <1>1 DEF TypeOK
<1>3. Stages' /\ Defaulted'
  BY <1>1 DEF Stages, Prepared, Registered, Buildable, Named, Defaulted
<1>4. CommandFirst' /\ BudgetsPositive' /\ HystrixOutlastsDeadline' /\ SetupCallsHaveTime'
  BY DEF CommandFirst, BudgetsPositive, HystrixOutlastsDeadline, SetupCallsHaveTime
<1>5. RoomOrReload'
  <2>1. ASSUME NEW k, UnderReload(k) PROVE UnderReload(k)'
    <3>1. PICK u \in Reloaders :
             /\ Named(u) = k
             /\ reloader[u].at \in {"command", "between", "timeout"}
      BY <2>1 DEF UnderReload
    <3>2. Named(u)' = k
      BY <1>1, <3>1 DEF Named
    <3>3. reloader'[u].at \in {"command", "between", "timeout"}
      <4>1. CASE u = t
        BY <1>1, <3>1, <4>1
      <4>2. CASE u # t
        BY <1>1, <3>1, <4>2
      <4>. QED
        BY <4>1, <4>2
    <3>. QED
      BY <3>2, <3>3 DEF UnderReload
  <2>. QED
    BY <2>1 DEF RoomOrReload, Room
<1>6. CurrentOrAsked'
  <2>. SUFFICES ASSUME NEW k \in reloaded
                PROVE  ~config[k].buildable \/ Current(k) \/ Asked(k)'
    BY DEF CurrentOrAsked, Current
  <2>1. k \in DOMAIN config /\ (~config[k].buildable \/ Current(k) \/ Asked(k))
    BY DEF CurrentOrAsked
  <2>2. CASE Asked(k)
    <3>1. PICK u \in Reloaders : Named(u) = k /\ reloader[u].at # "idle"
      BY <2>2 DEF Asked
    <3>2. CASE u = t /\ to = "idle"
      BY <2>1, <3>1, <3>2 DEF Buildable
    <3>3. CASE u # t \/ to # "idle"
      BY <1>1, <3>1, <3>3 DEF Asked, Named
    <3>. QED
      BY <3>2, <3>3
  <2>. QED
    BY <2>1, <2>2
<1>. QED
  BY <1>2, <1>3, <1>4, <1>5, <1>6

(* SetupDefaults rewrites the configuration of every API; what is already  *)
(* registered with a positive timeout keeps it.                            *)
LEMMA Locking == ASSUME IInv, NEW t \in Reloaders, Lock(t) PROVE IInv'
<1>. USE DEF IInv
<1>1. \A u \in Reloaders : reloader[u].at \in {"idle", "asked"}
  BY NobodyInside DEF Lock
<1>2. /\ reloader[t].at = "asked"
      /\ reloader'[t].at = "locked"
      /\ Named(t)' = Named(t)
      /\ \A u \in Reloaders \ {t} : reloader'[u] = reloader[u]
      /\ reloader' \in [Reloaders ->
            [at : {"idle", "asked", "locked", "command", "between", "timeout"},
             name : Names \cup {NoName}]]
  BY Steps DEF Lock
<1>3. /\ DOMAIN config' = DOMAIN config
      /\ \A n \in DOMAIN config :
            /\ config'[n] \in Api
            /\ config'[n].timeout \in Nat \ {0}
            /\ config'[n].buildable = config[n].buildable
            /\ config[n].timeout > 0 => config'[n].timeout = config[n].timeout
  BY Configured, DefaultsAreUsable DEF Lock
<1>4. lock' = t /\ UNCHANGED <<edits, commands, timeouts, call, reloaded, crashed>>
  BY DEF Lock
<1>5. TypeOK'
  BY <1>2, <1>3, <1>4 DEF TypeOK
<1>6. Exclusion' /\ Defaulted' /\ Stages'
  BY <1>1, <1>2, <1>3, <1>4 DEF Exclusion, Inside, Defaulted, Stages, Prepared, Registered
<1>7. CommandFirst' /\ BudgetsPositive' /\ HystrixOutlastsDeadline' /\ SetupCallsHaveTime'
  BY <1>4 DEF CommandFirst, BudgetsPositive, HystrixOutlastsDeadline, SetupCallsHaveTime
<1>8. RoomOrReload'
  BY <1>1, <1>4 DEF RoomOrReload, Room, UnderReload
<1>9. CurrentOrAsked'
  <2>. SUFFICES ASSUME NEW k \in reloaded
                PROVE  ~config'[k].buildable \/ Current(k)' \/ Asked(k)'
    BY <1>3, <1>4 DEF CurrentOrAsked
  <2>1. /\ k \in DOMAIN config
        /\ k \in DOMAIN timeouts
        /\ ~config[k].buildable \/ Current(k) \/ Asked(k)
    BY DEF CurrentOrAsked
  <2>2. CASE Asked(k)
    <3>1. PICK u \in Reloaders : Named(u) = k /\ reloader[u].at # "idle"
      BY <2>2 DEF Asked
    <3>2. Named(u)' = k /\ reloader'[u].at # "idle"
      BY <1>2, <3>1 DEF Named
    <3>. QED
      BY <3>2 DEF Asked
  <2>3. CASE Current(k)
    <3>1. config[k].timeout > 0
      BY <2>1, <2>3 DEF Current, BudgetsPositive
    <3>. QED
      BY <1>3, <1>4, <2>1, <2>3, <3>1 DEF Current
  <2>. QED
    BY <1>3, <2>1, <2>2, <2>3
<1>. QED
  BY <1>5, <1>6, <1>7, <1>8, <1>9

LEMMA GivingUp == ASSUME IInv, NEW t \in Reloaders, GiveUp(t) PROVE IInv'
<1>1. reloader[t].at = "locked" /\ Inside(t)
  BY DEF GiveUp, Goto, Inside
<1>2. \A u \in Reloaders \ {t} : reloader[u].at \in {"idle", "asked"}
  BY <1>1, Alone
<1>3. /\ \A u \in Reloaders \ {t} : reloader'[u] = reloader[u]
      /\ reloader'[t].at = "idle"
  BY Steps DEF IInv, GiveUp
<1>4. Exclusion'
  BY <1>2, <1>3 DEF Exclusion, Inside
<1>. QED
  BY <1>4, MapsStay DEF GiveUp

LEMMA BeginningTimeout ==
    ASSUME IInv, NEW t \in Reloaders, BeginTimeout(t) PROVE IInv'
<1>1. reloader[t].at = "between" /\ Inside(t)
  BY DEF BeginTimeout, Goto, Inside
<1>2. /\ lock = t
      /\ \A u \in Reloaders \ {t} : reloader[u].at \in {"idle", "asked"}
  BY <1>1, Alone
<1>3. \A u \in Reloaders \ {t} : reloader'[u] = reloader[u]
  BY Steps DEF IInv, BeginTimeout
<1>4. Exclusion'
  BY <1>2, <1>3 DEF Exclusion, Inside, BeginTimeout
<1>. QED
  BY <1>2, <1>4, MapsStay DEF BeginTimeout

LEMMA BeginningCommand ==
    ASSUME IInv, NEW t \in Reloaders, BeginCommand(t) PROVE IInv'
<1>. PICK n : n = Named(t)
  OBVIOUS
<1>1. /\ reloader[t].at = "locked" /\ Inside(t)
      /\ n \in DOMAIN config /\ config[n].buildable
  BY DEF BeginCommand, Goto, Inside, Buildable
<1>2. /\ lock = t
      /\ \A u \in Reloaders \ {t} : reloader[u].at \in {"idle", "asked"}
  BY <1>1, Alone
<1>3. /\ reloader'[t].at = "command"
      /\ Named(t)' = n
      /\ \A u \in Reloaders \ {t} : reloader'[u] = reloader[u]
      /\ reloader' \in [Reloaders ->
            [at : {"idle", "asked", "locked", "command", "between", "timeout"},
             name : Names \cup {NoName}]]
  BY Steps DEF IInv, BeginCommand
<1>4. /\ DOMAIN commands' = DOMAIN commands
      /\ \A k \in DOMAIN commands :
            /\ commands'[k] \in command
            /\ commands'[k].kind = commands[k].kind
            /\ commands'[k].hystrixTimeout = commands[k].hystrixTimeout
      /\ \A k \in DOMAIN commands \ {n} : commands'[k] = commands[k]
  <2>1. \A k \in DOMAIN commands : commands[k] \in command
    BY DEF IInv, TypeOK, command
  <2>2. CASE n \in DOMAIN commands /\ commands[n].kind = "hystrix"
    <3>1. config[n] \in Api /\ config[n].timeout \in Nat
      BY <1>1, Usable
    <3>. DEFINE v == UpdatedCommand(commands[n], config[n])
    <3>2. /\ v \in command
          /\ v.kind = commands[n].kind
          /\ v.hystrixTimeout = commands[n].hystrixTimeout
      BY <2>1, <2>2, <3>1, CommandType
    <3>3. commands' = Put(commands, n, v)
      BY <2>2 DEF BeginCommand
    <3>. HIDE DEF v
    <3>4. /\ DOMAIN commands' = DOMAIN commands \cup {n}
          /\ commands'[n] = v
          /\ \A k \in DOMAIN commands \ {n} : commands'[k] = commands[k]
      BY <3>3 DEF Put
    <3>. QED
      BY <2>1, <2>2, <3>2, <3>4
  <2>3. CASE ~(n \in DOMAIN commands /\ commands[n].kind = "hystrix")
    BY <2>1, <2>3 DEF BeginCommand
  <2>. QED
    BY <2>2, <2>3
<1>5. UNCHANGED <<config, edits, timeouts, lock, call, reloaded, crashed>>
  BY DEF BeginCommand
<1>6. TypeOK'
  BY <1>3, <1>4, <1>5 DEF IInv, TypeOK, command
<1>7. Exclusion' /\ Defaulted'
  BY <1>2, <1>3, <1>5 DEF IInv, Exclusion, Defaulted, Inside
<1>8. Stages'
  BY <1>1, <1>2, <1>3, <1>5 DEF Stages, Prepared, Registered, Buildable, Named
<1>9. CommandFirst' /\ BudgetsPositive' /\ SetupCallsHaveTime'
  BY <1>4, <1>5 DEF IInv, CommandFirst, BudgetsPositive, SetupCallsHaveTime
<1>10. RoomOrReload'
  <2>1. UnderReload(n)'
    BY <1>3 DEF UnderReload
  <2>2. \A k \in DOMAIN commands \ {n} : ~UnderReload(k)
    BY <1>1, <1>2 DEF UnderReload
  <2>3. \A k \in DOMAIN commands \ {n} : Room(k)'
    BY <1>4, <1>5, <2>2 DEF IInv, RoomOrReload, Room
  <2>. QED
    BY <1>4, <2>1, <2>3 DEF RoomOrReload
<1>11. HystrixOutlastsDeadline'
  BY <1>4, <1>5 DEF IInv, HystrixOutlastsDeadline
<1>12. CurrentOrAsked'
  <2>1. Asked(n)'
    BY <1>3 DEF Asked
  <2>. SUFFICES ASSUME NEW k \in reloaded, k # n
                PROVE  ~config[k].buildable \/ Current(k)' \/ Asked(k)'
    BY <1>5, <2>1 DEF IInv, CurrentOrAsked
  <2>2. /\ k \in DOMAIN config
        /\ ~config[k].buildable \/ Current(k) \/ Asked(k)
    BY DEF IInv, CurrentOrAsked
  <2>3. ASSUME Asked(k) PROVE Asked(k)'
    <3>1. PICK u \in Reloaders : Named(u) = k /\ reloader[u].at # "idle"
      BY <2>3 DEF Asked
    <3>2. u # t
      BY <3>1
    <3>. QED
      BY <1>3, <3>1, <3>2 DEF Asked, Named
  <2>4. commands'[k] = commands[k]
    BY <1>4 DEF IInv, CurrentOrAsked, CommandFirst
  <2>5. ASSUME Current(k) PROVE Current(k)'
    BY <1>5, <2>4, <2>5 DEF Current
  <2>. QED
    BY <2>2, <2>3, <2>5
<1>. QED
  BY <1>6, <1>7, <1>8, <1>9, <1>10, <1>11, <1>12 DEF IInv

LEMMA PuttingCommand ==
    ASSUME IInv, NEW t \in Reloaders, PutCommand(t) PROVE IInv'
<1>. PICK n : n = Named(t)
  OBVIOUS
<1>1. /\ reloader[t].at = "command" /\ Inside(t)
      /\ n \in DOMAIN config /\ config[n].buildable
  BY DEF IInv, Stages, Prepared, PutCommand, Goto, Inside, Buildable
<1>2. /\ lock = t
      /\ \A u \in Reloaders \ {t} : reloader[u].at \in {"idle", "asked"}
  BY <1>1, Alone
<1>3. /\ reloader'[t].at = "between"
      /\ Named(t)' = n
      /\ \A u \in Reloaders \ {t} : reloader'[u] = reloader[u]
      /\ reloader' \in [Reloaders ->
            [at : {"idle", "asked", "locked", "command", "between", "timeout"},
             name : Names \cup {NoName}]]
  BY Steps DEF IInv, PutCommand
<1>4. /\ DOMAIN commands' = DOMAIN commands \cup {n}
      /\ commands'[n] \in command
      /\ commands'[n].clientTimeout = config[n].timeout
      /\ n \in DOMAIN commands =>
            /\ commands'[n].kind = commands[n].kind
            /\ commands'[n].hystrixTimeout = commands[n].hystrixTimeout
      /\ \A k \in DOMAIN commands \ {n} : commands'[k] = commands[k]
  <2>. DEFINE v == IF n \in DOMAIN commands
                   THEN UpdatedCommand(commands[n], config[n])
                   ELSE NewCommand(config[n])
  <2>1. config[n] \in Api /\ config[n].timeout \in Nat
    BY <1>1, Usable
  <2>2. n \in DOMAIN commands => commands[n] \in command
    BY DEF IInv, TypeOK, command
  <2>3. /\ v \in command
        /\ v.clientTimeout = config[n].timeout
        /\ n \in DOMAIN commands =>
              /\ v.kind = commands[n].kind
              /\ v.hystrixTimeout = commands[n].hystrixTimeout
    BY <2>1, <2>2, CommandType
  <2>4. commands' = Put(commands, n, v)
    BY DEF PutCommand
  <2>. HIDE DEF v
  <2>5. /\ DOMAIN commands' = DOMAIN commands \cup {n}
        /\ commands'[n] = v
        /\ \A k \in DOMAIN commands \ {n} : commands'[k] = commands[k]
    BY <2>4 DEF Put
  <2>. QED
    BY <2>3, <2>5
<1>5. UNCHANGED <<config, edits, timeouts, lock, call, reloaded, crashed>>
  BY DEF PutCommand
<1>6. TypeOK'
  <2>1. n \in Names
    BY <1>1, Configured DEF IInv
  <2>2. \A k \in DOMAIN commands' : commands'[k] \in command
    BY <1>4 DEF IInv, TypeOK, command
  <2>. QED
    BY <1>3, <1>4, <1>5, <2>1, <2>2 DEF IInv, TypeOK, command
<1>7. Exclusion' /\ Defaulted'
  BY <1>2, <1>3, <1>5 DEF IInv, Exclusion, Defaulted, Inside
<1>8. Stages'
  BY <1>1, <1>2, <1>3, <1>4, <1>5 DEF Stages, Prepared, Registered, Buildable, Named
<1>9. CommandFirst' /\ BudgetsPositive' /\ SetupCallsHaveTime'
  BY <1>4, <1>5 DEF IInv, CommandFirst, BudgetsPositive, SetupCallsHaveTime
<1>10. RoomOrReload'
  <2>1. UnderReload(n)'
    BY <1>3 DEF UnderReload
  <2>2. \A k \in DOMAIN commands \ {n} : ~UnderReload(k)
    BY <1>1, <1>2 DEF UnderReload
  <2>3. \A k \in DOMAIN commands \ {n} : Room(k)'
    BY <1>4, <1>5, <2>2 DEF IInv, RoomOrReload, Room
  <2>. QED
    BY <1>4, <2>1, <2>3 DEF RoomOrReload
<1>11. HystrixOutlastsDeadline'
  BY <1>4, <1>5 DEF IInv, CommandFirst, HystrixOutlastsDeadline
<1>12. CurrentOrAsked'
  <2>1. Asked(n)'
    BY <1>3 DEF Asked
  <2>. SUFFICES ASSUME NEW k \in reloaded, k # n
                PROVE  ~config[k].buildable \/ Current(k)' \/ Asked(k)'
    BY <1>5, <2>1 DEF IInv, CurrentOrAsked
  <2>2. /\ k \in DOMAIN config
        /\ ~config[k].buildable \/ Current(k) \/ Asked(k)
    BY DEF IInv, CurrentOrAsked
  <2>3. ASSUME Asked(k) PROVE Asked(k)'
    <3>1. PICK u \in Reloaders : Named(u) = k /\ reloader[u].at # "idle"
      BY <2>3 DEF Asked
    <3>2. u # t
      BY <3>1
    <3>. QED
      BY <1>3, <3>1, <3>2 DEF Asked, Named
  <2>4. commands'[k] = commands[k]
    BY <1>4 DEF IInv, CurrentOrAsked, CommandFirst
  <2>5. ASSUME Current(k) PROVE Current(k)'
    BY <1>5, <2>4, <2>5 DEF Current
  <2>. QED
    BY <2>2, <2>3, <2>5
<1>. QED
  BY <1>6, <1>7, <1>8, <1>9, <1>10, <1>11, <1>12 DEF IInv

LEMMA PuttingTimeout ==
    ASSUME IInv, NEW t \in Reloaders, PutTimeout(t) PROVE IInv'
<1>. PICK n : n = Named(t)
  OBVIOUS
<1>1. /\ reloader[t].at = "timeout" /\ Inside(t)
      /\ n \in DOMAIN config /\ config[n].buildable
      /\ n \in DOMAIN commands
      /\ commands[n].clientTimeout = config[n].timeout
  BY DEF IInv, Stages, Prepared, Registered, PutTimeout, Goto, Inside, Buildable
<1>2. \A u \in Reloaders \ {t} : reloader[u].at \in {"idle", "asked"}
  BY <1>1, Alone
<1>3. /\ reloader'[t].at = "idle"
      /\ Named(t)' = n
      /\ \A u \in Reloaders \ {t} : reloader'[u] = reloader[u]
      /\ reloader' \in [Reloaders ->
            [at : {"idle", "asked", "locked", "command", "between", "timeout"},
             name : Names \cup {NoName}]]
  BY Steps DEF IInv, PutTimeout
<1>4. /\ DOMAIN timeouts' = DOMAIN timeouts \cup {n}
      /\ timeouts'[n] = config[n].timeout
      /\ \A k \in DOMAIN timeouts \ {n} : timeouts'[k] = timeouts[k]
  BY DEF PutTimeout, Put
<1>5. /\ UNCHANGED <<config, edits, commands, call, crashed>>
      /\ reloaded' = reloaded \cup {n}
      /\ lock' = NoOne
  BY DEF PutTimeout
<1>6. n \in Names /\ config[n].timeout \in Nat \ {0}
  BY <1>1, Usable
<1>7. TypeOK'
  <2>1. \A k \in DOMAIN timeouts' : timeouts'[k] \in Nat
    BY <1>4, <1>6 DEF IInv, TypeOK
  <2>. QED
    BY <1>3, <1>4, <1>5, <1>6, <2>1 DEF IInv, TypeOK
<1>8. Exclusion' /\ Defaulted' /\ Stages'
  BY <1>2, <1>3, <1>5 DEF Exclusion, Defaulted, Inside, Stages, Prepared, Registered
<1>9. CommandFirst' /\ SetupCallsHaveTime'
  BY <1>1, <1>4, <1>5 DEF IInv, CommandFirst, SetupCallsHaveTime
<1>10. BudgetsPositive'
  BY <1>4, <1>6 DEF IInv, BudgetsPositive
<1>11. RoomOrReload'
  <2>1. Room(n)'
    BY <1>1, <1>4, <1>5, <1>6 DEF Room
  <2>2. \A k \in DOMAIN commands \ {n} : ~UnderReload(k)
    BY <1>1, <1>2 DEF UnderReload
  <2>3. \A k \in DOMAIN commands \ {n} : Room(k)'
    BY <1>4, <1>5, <2>2 DEF IInv, RoomOrReload, Room
  <2>. QED
    BY <1>5, <2>1, <2>3 DEF RoomOrReload
<1>12. HystrixOutlastsDeadline'
  BY <1>4, <1>5 DEF IInv, HystrixOutlastsDeadline
<1>13. CurrentOrAsked'
  <2>1. Current(n)'
    BY <1>1, <1>4, <1>5 DEF Current
  <2>. SUFFICES ASSUME NEW k \in reloaded, k # n
                PROVE  ~config[k].buildable \/ Current(k)' \/ Asked(k)'
    BY <1>1, <1>4, <1>5, <2>1 DEF IInv, CurrentOrAsked
  <2>2. /\ k \in DOMAIN config
        /\ ~config[k].buildable \/ Current(k) \/ Asked(k)
    BY DEF IInv, CurrentOrAsked
  <2>3. ASSUME Asked(k) PROVE Asked(k)'
    <3>1. PICK u \in Reloaders : Named(u) = k /\ reloader[u].at # "idle"
      BY <2>3 DEF Asked
    <3>2. u # t
      BY <3>1
    <3>. QED
      BY <1>3, <3>1, <3>2 DEF Asked, Named
  <2>4. timeouts'[k] = timeouts[k]
    BY <1>4 DEF IInv, CurrentOrAsked
  <2>5. ASSUME Current(k) PROVE Current(k)'
    BY <1>5, <2>4, <2>5 DEF Current
  <2>. QED
    BY <2>2, <2>3, <2>5
<1>. QED
  BY <1>7, <1>8, <1>9, <1>10, <1>11, <1>12, <1>13 DEF IInv

-----------------------------------------------------------------------------
(* The invariant holds in every reachable state.                           *)

LEMMA Consecution == IInv /\ [Next]_vars => IInv'
<1>. SUFFICES ASSUME IInv, [Next]_vars PROVE IInv'
  OBVIOUS
<1>1. ASSUME NEW t \in Reloaders, Ask(t) PROVE IInv'
  BY <1>1, Asking
<1>2. ASSUME NEW t \in Reloaders, Lock(t) PROVE IInv'
  BY <1>2, Locking
<1>3. ASSUME NEW t \in Reloaders, GiveUp(t) PROVE IInv'
  BY <1>3, GivingUp
<1>4. ASSUME NEW t \in Reloaders, BeginCommand(t) PROVE IInv'
  BY <1>4, BeginningCommand
<1>5. ASSUME NEW t \in Reloaders, PutCommand(t) PROVE IInv'
  BY <1>5, PuttingCommand
<1>6. ASSUME NEW t \in Reloaders, BeginTimeout(t) PROVE IInv'
  BY <1>6, BeginningTimeout
<1>7. ASSUME NEW t \in Reloaders, PutTimeout(t) PROVE IInv'
  BY <1>7, PuttingTimeout
<1>8. ASSUME NEW c \in Callers, FindCommand(c) \/ SetDeadline(c) \/ Return(c)
      PROVE  IInv'
  BY <1>8, Execution
<1>9. CASE Throw
  BY <1>9, Ends
<1>10. CASE UNCHANGED vars
  <2>1. UNCHANGED <<config, edits, commands, timeouts, lock, reloader, call,
                    reloaded, crashed>>
    BY <1>10 DEF vars
  <2>. QED
    BY <2>1, CallSteps DEF IInv, TypeOK, SetupCallsHaveTime
<1>. QED
  BY <1>1, <1>2, <1>3, <1>4, <1>5, <1>6, <1>7, <1>8, <1>9, <1>10
     DEF Next, Reload, Quiescent

THEOREM Invariance == Spec => []IInv
BY Initially, Consecution, PTL DEF Spec

(* Every variable keeps its type, for any APIs, configurations, callers,   *)
(* reloaders and number of edits.                                          *)
THEOREM TypeCorrectness == Spec => []TypeOK
<1>1. IInv => TypeOK
  BY DEF IInv
<1>. QED
  BY <1>1, Invariance, PTL

(* Between reloads an API has a command and a budget that leaves it room   *)
(* for an attempt, or neither (addNewAPi, updateAPi and their error exits).*)
THEOREM NothingHalfRegistered == Spec => []AllOrNothing
<1>1. IInv => AllOrNothing
  <2>. SUFFICES ASSUME IInv, lock = NoOne
                PROVE  /\ DOMAIN commands = DOMAIN timeouts
                       /\ \A n \in DOMAIN commands :
                             commands[n].clientTimeout <= timeouts[n]
    BY DEF AllOrNothing
  <2>1. \A n : ~UnderReload(n)
    BY NobodyInside DEF UnderReload
  <2>2. \A n \in DOMAIN commands : Room(n)
    BY <2>1 DEF IInv, RoomOrReload
  <2>. QED
    BY <2>2 DEF IInv, CommandFirst, Room
<1>. QED
  BY <1>1, Invariance, PTL

(* Until its first reload an API's hystrix timeout covers the deadline of  *)
(* its requests, however the configured numbers are chosen.                *)
THEOREM HystrixOutlasts == Spec => []HystrixOutlastsDeadline
<1>1. IInv => HystrixOutlastsDeadline
  BY DEF IInv
<1>. QED
  BY <1>1, Invariance, PTL

(* A call of an API that setup registered finds a positive budget between  *)
(* any two map writes of any reloads.                                      *)
THEOREM SetupCallsTimed == Spec => []SetupCallsHaveTime
<1>1. IInv => SetupCallsHaveTime
  BY DEF IInv
<1>. QED
  BY <1>1, Invariance, PTL

(* When all reloads have returned, what was reloaded is what is configured:*)
(* the reload that the last edit asked for came after it.                  *)
THEOREM NoEditLost == Spec => []QuietMeansCurrent
<1>1. IInv => QuietMeansCurrent
  BY DEF IInv, CurrentOrAsked, Asked, Current, Quiet, QuietMeansCurrent
<1>. QED
  BY <1>1, Invariance, PTL

(* No step unregisters an API or changes the type of its command.          *)
THEOREM CommandsAreKept == Spec => CommandsStay
<1>1. ASSUME IInv, [Next]_vars
      PROVE  \A n \in DOMAIN commands :
               n \in DOMAIN commands' /\ commands'[n].kind = commands[n].kind
  <2>. SUFFICES ASSUME NEW n \in DOMAIN commands
                PROVE  n \in DOMAIN commands' /\ commands'[n].kind = commands[n].kind
    OBVIOUS
  <2>1. CASE UNCHANGED commands
    BY <2>1
  <2>2. ASSUME NEW t \in Reloaders, BeginCommand(t) \/ PutCommand(t)
        PROVE  n \in DOMAIN commands' /\ commands'[n].kind = commands[n].kind
    <3>1. /\ commands[n] \in command
          /\ Named(t) \in DOMAIN config
          /\ Inside(t)
      BY <1>1, <2>2 DEF IInv, TypeOK, command, Stages, Prepared, Buildable,
                        BeginCommand, PutCommand, Goto, Inside
    <3>. DEFINE v == UpdatedCommand(commands[n], config[n])
    <3>2. n = Named(t) => v.kind = commands[n].kind
      BY <1>1, <3>1, CommandType, Usable
    <3>3. CASE n = Named(t)
      <4>1. commands' = commands \/ commands' = Put(commands, n, v)
        BY <2>2, <3>3 DEF BeginCommand, PutCommand
      <4>. HIDE DEF v
      <4>. QED
        BY <3>2, <3>3, <4>1 DEF Put
    <3>4. CASE n # Named(t)
      BY <2>2, <3>4 DEF BeginCommand, PutCommand, Put
    <3>. QED
      BY <3>3, <3>4
  <2>. QED
    BY <1>1, <2>1, <2>2 DEF Next, Reload, Ask, Lock, GiveUp, BeginTimeout,
       PutTimeout, FindCommand, SetDeadline, Return, Throw, Quiescent, vars
<1>2. ASSUME IInv, [Next]_vars
      PROVE  [\A n \in DOMAIN commands :
                n \in DOMAIN commands' /\ commands'[n].kind = commands[n].kind]_vars
  BY <1>1, <1>2
<1>. QED
  BY <1>2, Invariance, PTL DEF Spec, CommandsStay

-----------------------------------------------------------------------------
(* The context implements the table of module Registry.                    *)

(* UpdateCommand has been called before the command is written: what calls *)
(* find of an API under reload is the new version already.                 *)
Exchanged == \A t \in Reloaders :
    /\ reloader[t].at = "command"
    /\ Named(t) \in DOMAIN commands
    /\ commands[Named(t)].kind = "hystrix"
    => commands[Named(t)].clientTimeout = config[Named(t)].timeout

FoundIsKnown == \A c \in Callers :
    call[c].at = "found" => call[c].name \in DOMAIN commands

RInv == IInv /\ Exchanged /\ FoundIsKnown

LEMMA RInitially == Init => RInv
BY Initially DEF RInv, Init, Exchanged, FoundIsKnown

(* Steps of others leave a reload's API alone. *)
LEMMA ExchangedStays ==
    ASSUME Exchanged, UNCHANGED <<config, commands, timeouts>>,
           \A t \in Reloaders : reloader'[t].at = "command" => reloader'[t] = reloader[t]
    PROVE  Exchanged'
BY DEF Exchanged, Named

LEMMA BeginningExchanges ==
    ASSUME IInv, NEW t \in Reloaders, BeginCommand(t)
    PROVE  Exchanged'
<1>. PICK n : n = Named(t)
  OBVIOUS
<1>1. /\ reloader[t].at = "locked" /\ Inside(t)
      /\ n \in DOMAIN config
  BY DEF BeginCommand, Goto, Inside, Buildable
<1>2. \A u \in Reloaders \ {t} : reloader[u].at \in {"idle", "asked"}
  BY <1>1, Alone
<1>3. /\ reloader'[t].at = "command"
      /\ Named(t)' = n
      /\ \A u \in Reloaders \ {t} : reloader'[u] = reloader[u]
  BY Steps DEF IInv, BeginCommand
<1>4. config[n] \in Api /\ config[n].timeout \in Nat
  BY <1>1, Usable
<1>5. UNCHANGED config
  BY DEF BeginCommand
<1>6. n \in DOMAIN commands' /\ commands'[n].kind = "hystrix" =>
         commands'[n].clientTimeout = config[n].timeout
  <2>1. CASE n \in DOMAIN commands /\ commands[n].kind = "hystrix"
    <3>. DEFINE v == UpdatedCommand(commands[n], config[n])
    <3>1. v.clientTimeout = config[n].timeout
      BY <1>4, <2>1, CommandType DEF IInv, TypeOK, command
    <3>2. commands' = Put(commands, n, v)
      BY <2>1 DEF BeginCommand
    <3>. HIDE DEF v
    <3>. QED
      BY <3>1, <3>2 DEF Put
  <2>2. CASE ~(n \in DOMAIN commands /\ commands[n].kind = "hystrix")
    BY <2>2 DEF BeginCommand
  <2>. QED
    BY <2>1, <2>2
<1>. QED
  BY <1>2, <1>3, <1>5, <1>6 DEF Exchanged

(* Outside of BeginCommand and PutCommand the commands do not change. *)
LEMMA CommandsGrow ==
    ASSUME [Next]_vars
    PROVE  DOMAIN commands \subseteq DOMAIN commands'
<1>1. CASE UNCHANGED commands
  BY <1>1
<1>2. ASSUME NEW t \in Reloaders, BeginCommand(t) \/ PutCommand(t)
      PROVE  DOMAIN commands \subseteq DOMAIN commands'
  BY <1>2 DEF BeginCommand, PutCommand, Put
<1>. QED
  BY <1>1, <1>2 DEF Next, Reload, Ask, Lock, GiveUp, BeginTimeout,
     PutTimeout, FindCommand, SetDeadline, Return, Throw, Quiescent, vars

LEMMA FoundStaysKnown ==
    ASSUME RInv, [Next]_vars
    PROVE  FoundIsKnown'
<1>0. call \in [Callers ->
              [at : {"idle", "not_found", "found", "running", "returned"},
               name : Names \cup {NoName}, deadline : Nat]]
  BY DEF RInv, IInv, TypeOK
<1>1. CASE UNCHANGED call
  BY <1>1, CommandsGrow DEF RInv, FoundIsKnown
<1>2. ASSUME NEW c \in Callers, FindCommand(c) PROVE FoundIsKnown'
  BY <1>0, <1>2 DEF FindCommand, RInv, FoundIsKnown
<1>3. ASSUME NEW c \in Callers, SetDeadline(c) \/ Return(c) PROVE FoundIsKnown'
  <2>1. /\ call'[c].at \in {"running", "returned"}
        /\ \A d \in Callers \ {c} : call'[d] = call[d]
        /\ commands' = commands
    BY <1>0, <1>3 DEF SetDeadline, Return
  <2>. QED
    BY <2>1 DEF RInv, FoundIsKnown
<1>. QED
  BY <1>1, <1>2, <1>3 DEF Next, Reload, Ask, Lock, GiveUp, BeginCommand, PutCommand,
     BeginTimeout, PutTimeout, Throw, Quiescent, vars

LEMMA RConsecution == RInv /\ [Next]_vars => RInv'
<1>. SUFFICES ASSUME RInv, [Next]_vars PROVE RInv'
  OBVIOUS
<1>0. IInv' /\ FoundIsKnown'
  BY Consecution, FoundStaysKnown DEF RInv
<1>1. ASSUME NEW t \in Reloaders, Ask(t) PROVE Exchanged'
  <2>1. \A u \in Reloaders : reloader[u].at \in {"idle", "asked"}
    BY <1>1, NobodyInside DEF Ask, RInv
  <2>2. \A u \in Reloaders : reloader'[u].at # "command"
    BY <1>1, <2>1 DEF Ask, RInv, IInv, TypeOK
  <2>. QED
    BY <2>2 DEF Exchanged
<1>2. ASSUME NEW t \in Reloaders, Lock(t) PROVE Exchanged'
  <2>1. \A u \in Reloaders : reloader[u].at \in {"idle", "asked"}
    BY <1>2, NobodyInside DEF Lock, RInv
  <2>2. \A u \in Reloaders : reloader'[u].at # "command"
    BY <1>2, <2>1 DEF Lock, Goto, RInv, IInv, TypeOK
  <2>. QED
    BY <2>2 DEF Exchanged
<1>3. ASSUME NEW t \in Reloaders, GiveUp(t) \/ BeginTimeout(t) PROVE Exchanged'
  <2>1. \A u \in Reloaders : reloader'[u].at = "command" => reloader'[u] = reloader[u]
    BY <1>3 DEF GiveUp, BeginTimeout, Goto, RInv, IInv, TypeOK
  <2>. QED
    BY <1>3, <2>1, ExchangedStays DEF GiveUp, BeginTimeout, RInv
<1>4. ASSUME NEW t \in Reloaders, BeginCommand(t) PROVE Exchanged'
  BY <1>4, BeginningExchanges DEF RInv
<1>5. ASSUME NEW t \in Reloaders, PutCommand(t) \/ PutTimeout(t) PROVE Exchanged'
  <2>1. Inside(t)
    BY <1>5 DEF PutCommand, PutTimeout, Goto, Inside
  <2>2. \A u \in Reloaders \ {t} : reloader[u].at \in {"idle", "asked"}
    BY <2>1, Alone DEF RInv
  <2>3. \A u \in Reloaders : reloader'[u].at # "command"
    BY <1>5, <2>2 DEF PutCommand, PutTimeout, Goto, RInv, IInv, TypeOK
  <2>. QED
    BY <2>3 DEF Exchanged
<1>6. ASSUME UNCHANGED <<config, commands, timeouts, reloader>> PROVE Exchanged'
  BY <1>6, ExchangedStays DEF RInv
<1>7. ASSUME NEW c \in Callers, FindCommand(c) \/ SetDeadline(c) \/ Return(c)
      PROVE  Exchanged'
  BY <1>6, <1>7 DEF FindCommand, SetDeadline, Return
<1>8. ASSUME Throw \/ UNCHANGED vars PROVE Exchanged'
  BY <1>6, <1>8 DEF Throw, vars
<1>9. Exchanged'
  BY <1>1, <1>2, <1>3, <1>4, <1>5, <1>7, <1>8 DEF Next, Reload, Quiescent
<1>. QED
  BY <1>0, <1>9 DEF RInv

-----------------------------------------------------------------------------
(* The table, entry by entry.                                              *)

LEMMA VersionsTyped ==
    ASSUME RInv
    PROVE  /\ DOMAIN Versions = DOMAIN commands
           /\ \A n \in DOMAIN commands :
                 /\ Versions[n] \in Table!Version
                 /\ Versions[n].kind = commands[n].kind
                 /\ Versions[n].hystrixTimeout = commands[n].hystrixTimeout
                 /\ Versions[n].clientTimeout = commands[n].clientTimeout
                 /\ Versions[n].budget = IF Committed(n) THEN commands[n].clientTimeout
                                                         ELSE Lookup(timeouts, n)
                 /\ Versions[n].earlier = Lookup(timeouts, n)
<1>. SUFFICES ASSUME NEW n \in DOMAIN commands
              PROVE  Versions[n] \in Table!Version
  BY DEF Versions
<1>1. commands[n] \in command
  BY DEF RInv, IInv, TypeOK, command
<1>2. Lookup(timeouts, n) \in Nat
  BY DEF RInv, IInv, TypeOK, Lookup
<1>. QED
  BY <1>1, <1>2 DEF Versions, Table!Version, command

(* Nothing the table shows has changed. *)
LEMMA TableStays ==
    ASSUME DOMAIN commands' = DOMAIN commands,
           \A n \in DOMAIN commands :
              commands'[n] = commands[n] /\ (Committed(n)' <=> Committed(n)),
           UNCHANGED timeouts
    PROVE  Versions' = Versions
BY DEF Versions

(* While nobody writes, the table is what the maps are. *)
LEMMA AllSettled ==
    ASSUME RInv, \A t \in Reloaders : reloader[t].at \in {"idle", "asked", "locked"}
    PROVE  /\ \A n : ~Committed(n)
           /\ DOMAIN commands = DOMAIN timeouts
           /\ \A n \in DOMAIN commands : commands[n].clientTimeout <= timeouts[n]
           /\ \A n \in DOMAIN commands : Table!Settled(n)
<1>1. \A n : ~Committed(n) /\ ~UnderReload(n)
  BY DEF Committed, UnderReload
<1>2. \A n \in DOMAIN commands : Room(n)
  BY <1>1 DEF RInv, IInv, RoomOrReload
<1>. QED
  BY <1>1, <1>2, VersionsTyped DEF RInv, IInv, CommandFirst, Room, Table!Settled

LEMMA TableInit == Init => Table!Init
<1>. SUFFICES ASSUME Init PROVE Table!Init
  OBVIOUS
<1>1. RInv
  BY RInitially
<1>2. \A t \in Reloaders : reloader[t].at \in {"idle", "asked", "locked"}
  BY DEF Init
<1>3. /\ DOMAIN Versions = DOMAIN commands
      /\ DOMAIN commands \subseteq Names
  BY <1>1, VersionsTyped DEF RInv, IInv, TypeOK
<1>4. ASSUME NEW n \in DOMAIN commands
      PROVE  /\ Versions[n] \in Table!Version
             /\ Versions[n].clientTimeout <= Versions[n].budget
             /\ Table!Outlasts(Versions[n])
             /\ Table!Settled(n)
  <2>1. /\ Versions[n].budget = timeouts[n]
        /\ commands[n].clientTimeout <= timeouts[n]
        /\ n \in DOMAIN timeouts
        /\ Table!Settled(n)
    BY <1>1, <1>2, AllSettled, VersionsTyped DEF Lookup
  <2>2. commands[n].kind = "hystrix" => commands[n].hystrixTimeout >= timeouts[n]
    BY <1>1, <2>1 DEF RInv, IInv, HystrixOutlastsDeadline, Init
  <2>. QED
    BY <1>1, <2>1, <2>2, VersionsTyped DEF Table!Outlasts
<1>5. call = [c \in Callers |-> [at |-> "idle", name |-> "no name", deadline |-> 0]]
  BY DEF Init, NoName
<1>. QED
  BY <1>3, <1>4, <1>5 DEF Table!Init

-----------------------------------------------------------------------------
(* The steps of a reload that the table shows.                             *)

(* BeginCommand and PutCommand when API n shows a new version. *)
LEMMA Commits ==
    ASSUME RInv, RInv', NEW n \in DOMAIN commands',
           n \in DOMAIN commands => ~Committed(n),
           Committed(n)', n \in Names,
           \A k \in DOMAIN commands : Table!Settled(k),
           DOMAIN commands' = DOMAIN commands \cup {n},
           \A k \in DOMAIN commands \ {n} :
              commands'[k] = commands[k] /\ (Committed(k)' <=> Committed(k)),
           n \in DOMAIN commands =>
              /\ commands'[n].kind = commands[n].kind
              /\ commands'[n].hystrixTimeout = commands[n].hystrixTimeout,
           n \notin DOMAIN commands /\ commands'[n].kind = "hystrix" =>
              commands'[n].hystrixTimeout >= commands'[n].clientTimeout,
           commands'[n].clientTimeout > 0,
           UNCHANGED <<timeouts, call>>
    PROVE  Table!Commit(n)
<1>1. /\ DOMAIN Versions = DOMAIN commands
      /\ DOMAIN Versions' = DOMAIN commands'
  BY VersionsTyped DEF Versions
<1>2. ASSUME NEW k \in DOMAIN commands \ {n} PROVE Versions'[k] = Versions[k]
  BY <1>2 DEF Versions
<1>3. /\ Versions'[n].kind = commands'[n].kind
      /\ Versions'[n].hystrixTimeout = commands'[n].hystrixTimeout
      /\ Versions'[n].clientTimeout = commands'[n].clientTimeout
      /\ Versions'[n].budget = commands'[n].clientTimeout
      /\ Versions'[n].earlier = Lookup(timeouts, n)
  BY DEF Versions
<1>4. Versions'[n] \in Table!Version
  <2>1. commands'[n] \in command
    BY DEF RInv, IInv, TypeOK, command
  <2>2. Lookup(timeouts, n) \in Nat
    BY DEF RInv, IInv, TypeOK, Lookup
  <2>. QED
    BY <2>1, <2>2 DEF Versions, Table!Version, command
<1>5. CASE n \in DOMAIN commands
  <2>1. /\ Versions[n].kind = commands[n].kind
        /\ Versions[n].hystrixTimeout = commands[n].hystrixTimeout
        /\ Versions[n].budget = Lookup(timeouts, n)
    BY <1>5, VersionsTyped
  <2>2. Table!Replaces(Versions[n], Versions'[n])
    BY <1>3, <1>5, <2>1 DEF Table!Replaces
  <2>. QED
    BY <1>1, <1>2, <1>3, <1>4, <1>5, <2>2 DEF Table!Commit
<1>6. CASE n \notin DOMAIN commands
  <2>1. Lookup(timeouts, n) = 0
    BY <1>6 DEF RInv, IInv, CommandFirst, Lookup
  <2>2. Table!Outlasts(Versions'[n]) /\ Versions'[n].earlier = 0
    BY <1>3, <1>6, <2>1 DEF Table!Outlasts
  <2>. QED
    BY <1>1, <1>2, <1>3, <1>4, <1>6, <2>2 DEF Table!Commit
<1>. QED
  BY <1>5, <1>6

LEMMA BeginningShows ==
    ASSUME RInv, RInv', NEW t \in Reloaders, BeginCommand(t)
    PROVE  Table!Commit(Named(t)) \/ UNCHANGED <<Versions, call>>
<1>. PICK n : n = Named(t)
  OBVIOUS
<1>1. /\ reloader[t].at = "locked" /\ Inside(t)
      /\ n \in DOMAIN config
      /\ UNCHANGED <<timeouts, call>>
  BY DEF BeginCommand, Goto, Inside, Buildable
<1>2. \A u \in Reloaders \ {t} : reloader[u].at \in {"idle", "asked"}
  BY <1>1, Alone DEF RInv
<1>3. /\ reloader'[t].at = "command"
      /\ Named(t)' = n
      /\ \A u \in Reloaders \ {t} : reloader'[u] = reloader[u]
  BY Steps DEF RInv, IInv, BeginCommand
<1>4. /\ \A k : ~Committed(k)
      /\ \A k \in DOMAIN commands : Table!Settled(k)
  BY <1>1, <1>2, AllSettled
<1>5. \A k : Committed(k)' <=> k = n /\ commands'[n].kind = "hystrix"
  BY <1>2, <1>3 DEF Committed, Named
<1>6. CASE n \in DOMAIN commands /\ commands[n].kind = "hystrix"
  <2>1. n \in Names /\ config[n] \in Api /\ config[n].timeout \in Nat \ {0}
    BY <1>1, Usable DEF RInv
  <2>. DEFINE v == UpdatedCommand(commands[n], config[n])
  <2>2. /\ v.clientTimeout = config[n].timeout
        /\ v.kind = commands[n].kind
        /\ v.hystrixTimeout = commands[n].hystrixTimeout
    BY <1>6, <2>1, CommandType DEF RInv, IInv, TypeOK, command
  <2>3. commands' = Put(commands, n, v)
    BY <1>6 DEF BeginCommand
  <2>. HIDE DEF v
  <2>4. /\ DOMAIN commands' = DOMAIN commands \cup {n}
        /\ commands'[n] = v
        /\ \A k \in DOMAIN commands \ {n} : commands'[k] = commands[k]
    BY <2>3 DEF Put
  <2>5. Committed(n)'
    BY <1>5, <1>6, <2>2, <2>4
  <2>6. /\ n \in DOMAIN commands'
        /\ commands'[n].clientTimeout > 0
        /\ commands'[n].kind = commands[n].kind
        /\ commands'[n].hystrixTimeout = commands[n].hystrixTimeout
    BY <2>1, <2>2, <2>4
  <2>7. \A k \in DOMAIN commands \ {n} :
           commands'[k] = commands[k] /\ (Committed(k)' <=> Committed(k))
    BY <1>4, <1>5, <2>4
  <2>8. Table!Commit(n)
    BY <1>1, <1>4, <1>6, <2>1, <2>4, <2>5, <2>6, <2>7, Commits
  <2>. QED
    BY <2>8
<1>7. CASE ~(n \in DOMAIN commands /\ commands[n].kind = "hystrix")
  <2>1. commands' = commands
    BY <1>7 DEF BeginCommand
  <2>2. \A k \in DOMAIN commands : Committed(k)' <=> Committed(k)
    BY <1>4, <1>5, <1>7, <2>1
  <2>3. Versions' = Versions
    BY <1>1, <2>1, <2>2, TableStays
  <2>. QED
    BY <1>1, <2>3
<1>. QED
  BY <1>6, <1>7

LEMMA PuttingShows ==
    ASSUME RInv, RInv', NEW t \in Reloaders, PutCommand(t)
    PROVE  Table!Commit(Named(t)) \/ UNCHANGED <<Versions, call>>
<1>. PICK n : n = Named(t)
  OBVIOUS
<1>1. /\ reloader[t].at = "command" /\ Inside(t)
      /\ n \in DOMAIN config
      /\ UNCHANGED <<timeouts, call>>
  BY DEF RInv, IInv, Stages, Prepared, PutCommand, Goto, Inside, Buildable
<1>2. \A u \in Reloaders \ {t} : reloader[u].at \in {"idle", "asked"}
  BY <1>1, Alone DEF RInv
<1>3. /\ reloader'[t].at = "between"
      /\ Named(t)' = n
      /\ \A u \in Reloaders \ {t} : reloader'[u] = reloader[u]
  BY Steps DEF RInv, IInv, PutCommand
<1>4. /\ \A k : Committed(k) <=> k = n /\ commands[n].kind = "hystrix"
      /\ \A k : Committed(k)' <=> k = n
  BY <1>1, <1>2, <1>3 DEF Committed, Named
<1>5. n \in Names /\ config[n] \in Api /\ config[n].timeout \in Nat \ {0}
  BY <1>1, Usable DEF RInv
<1>. DEFINE v == IF n \in DOMAIN commands
                 THEN UpdatedCommand(commands[n], config[n])
                 ELSE NewCommand(config[n])
<1>6. /\ v.clientTimeout = config[n].timeout
      /\ n \in DOMAIN commands =>
            v.kind = commands[n].kind /\ v.hystrixTimeout = commands[n].hystrixTimeout
  BY <1>5, CommandType DEF RInv, IInv, TypeOK, command
<1>7. commands' = Put(commands, n, v)
  BY DEF PutCommand
<1>8. /\ DOMAIN commands' = DOMAIN commands \cup {n}
      /\ commands'[n] = v
      /\ \A k \in DOMAIN commands \ {n} : commands'[k] = commands[k]
  <2>. HIDE DEF v
  <2>. QED
    BY <1>7 DEF Put
<1>9. CASE n \in DOMAIN commands /\ commands[n].kind = "hystrix"
  <2>1. commands[n] \in command /\ commands[n].clientTimeout = config[n].timeout
    BY <1>1, <1>9 DEF RInv, IInv, TypeOK, Exchanged, command
  <2>2. v = commands[n]
    BY <1>9, <2>1 DEF UpdatedCommand, command
  <2>. HIDE DEF v
  <2>3. Versions' = Versions
    BY <1>1, <1>4, <1>8, <1>9, <2>2, TableStays
  <2>. QED
    BY <1>1, <2>3
<1>10. CASE ~(n \in DOMAIN commands /\ commands[n].kind = "hystrix")
  <2>1. ASSUME n \notin DOMAIN commands, v.kind = "hystrix"
        PROVE  v.hystrixTimeout >= v.clientTimeout
    <3>1. v = NewCommand(config[n])
      BY <2>1
    <3>2. /\ ~config[n].disableHystrix
          /\ v.hystrixTimeout = HystrixTimeout(config[n])
      BY <2>1, <3>1 DEF NewCommand
    <3>3. config[n].timeout \in Nat /\ config[n].retryCount \in Int /\ config[n].wait \in Nat
      BY <1>5 DEF Api
    <3>. QED
      BY <1>6, <3>2, <3>3, BudgetsCover
  <2>. HIDE DEF v
  <2>2. \A k \in DOMAIN commands : ~Committed(k)
    BY <1>4, <1>10
  <2>3. \A k \in DOMAIN commands : Table!Settled(k)
    BY <2>2, VersionsTyped DEF Table!Settled
  <2>4. /\ n \in DOMAIN commands'
        /\ Committed(n)'
        /\ commands'[n].clientTimeout > 0
    BY <1>4, <1>5, <1>6, <1>8
  <2>5. \A k \in DOMAIN commands \ {n} :
           commands'[k] = commands[k] /\ (Committed(k)' <=> Committed(k))
    BY <1>4, <1>8, <2>2
  <2>6. n \in DOMAIN commands =>
           /\ commands'[n].kind = commands[n].kind
           /\ commands'[n].hystrixTimeout = commands[n].hystrixTimeout
    BY <1>6, <1>8
  <2>7. n \notin DOMAIN commands /\ commands'[n].kind = "hystrix" =>
           commands'[n].hystrixTimeout >= commands'[n].clientTimeout
    BY <1>8, <2>1
  <2>8. Table!Commit(n)
    BY <1>1, <1>5, <1>8, <2>2, <2>3, <2>4, <2>5, <2>6, <2>7, Commits
  <2>. QED
    BY <2>8
<1>. QED
  BY <1>9, <1>10

LEMMA PuttingSettles ==
    ASSUME RInv, NEW t \in Reloaders, PutTimeout(t)
    PROVE  (\E n \in Names : Table!Settle(n)) \/ UNCHANGED <<Versions, call>>
<1>. PICK n : n = Named(t)
  OBVIOUS
<1>1. /\ reloader[t].at = "timeout" /\ Inside(t)
      /\ n \in DOMAIN config
      /\ n \in DOMAIN commands
      /\ commands[n].clientTimeout = config[n].timeout
      /\ UNCHANGED <<commands, call>>
  BY DEF RInv, IInv, Stages, Prepared, Registered, PutTimeout, Goto, Inside, Buildable
<1>2. \A u \in Reloaders \ {t} : reloader[u].at \in {"idle", "asked"}
  BY <1>1, Alone DEF RInv
<1>3. /\ reloader'[t].at = "idle"
      /\ Named(t)' = n
      /\ \A u \in Reloaders \ {t} : reloader'[u] = reloader[u]
  BY Steps DEF RInv, IInv, PutTimeout
<1>4. /\ \A k : Committed(k) <=> k = n
      /\ \A k : ~Committed(k)'
  BY <1>1, <1>2, <1>3 DEF Committed, Named
<1>5. timeouts' = Put(timeouts, n, config[n].timeout)
  BY DEF PutTimeout
<1>6. /\ Lookup(timeouts', n) = config[n].timeout
      /\ \A k \in DOMAIN commands \ {n} : Lookup(timeouts', k) = Lookup(timeouts, k)
  BY <1>5 DEF Put, Lookup
<1>7. /\ Versions[n].budget = config[n].timeout
      /\ Versions[n] = [kind |-> commands[n].kind,
                        hystrixTimeout |-> commands[n].hystrixTimeout,
                        clientTimeout |-> commands[n].clientTimeout,
                        budget |-> config[n].timeout,
                        earlier |-> Lookup(timeouts, n)]
  BY <1>1, <1>4 DEF Versions
<1>8. Versions'[n] = [kind |-> commands[n].kind,
                      hystrixTimeout |-> commands[n].hystrixTimeout,
                      clientTimeout |-> commands[n].clientTimeout,
                      budget |-> config[n].timeout,
                      earlier |-> config[n].timeout]
  BY <1>1, <1>4, <1>6 DEF Versions
<1>9. Versions'[n] = [Versions[n] EXCEPT !.earlier = Versions[n].budget]
  BY <1>7, <1>8
<1>10. ASSUME NEW k \in DOMAIN commands \ {n} PROVE Versions'[k] = Versions[k]
  BY <1>1, <1>4, <1>6, <1>10 DEF Versions
<1>11. /\ DOMAIN Versions = DOMAIN commands
       /\ DOMAIN Versions' = DOMAIN commands
       /\ Versions = [k \in DOMAIN commands |-> Versions[k]]
       /\ Versions' = [k \in DOMAIN commands |-> Versions'[k]]
  BY <1>1 DEF Versions
<1>12. Versions' = [Versions EXCEPT ![n] = [@ EXCEPT !.earlier = Versions[n].budget]]
  BY <1>1, <1>9, <1>10, <1>11
<1>13. n \in Names
  BY <1>1, Usable DEF RInv
<1>14. CASE Table!Settled(n)
  <2>1. Versions'[n] = Versions[n]
    BY <1>7, <1>8, <1>14 DEF Table!Settled
  <2>2. Versions' = Versions
    BY <1>10, <1>11, <2>1
  <2>. QED
    BY <1>1, <2>2
<1>15. CASE ~Table!Settled(n)
  BY <1>1, <1>11, <1>12, <1>13, <1>15 DEF Table!Settle
<1>. QED
  BY <1>14, <1>15

-----------------------------------------------------------------------------
(* Steps of a reload that the table does not show. *)
LEMMA HiddenSteps ==
    ASSUME RInv, NEW t \in Reloaders,
           Ask(t) \/ Lock(t) \/ GiveUp(t) \/ BeginTimeout(t)
    PROVE  UNCHANGED <<Versions, call>>
<1>1. UNCHANGED <<commands, timeouts, call>>
  BY DEF Ask, Lock, GiveUp, BeginTimeout
<1>2. CASE Ask(t) \/ Lock(t)
  <2>1. \A u \in Reloaders : reloader[u].at \in {"idle", "asked"}
    BY <1>2, NobodyInside DEF Ask, Lock, RInv
  <2>2. \A u \in Reloaders : reloader'[u].at \in {"idle", "asked", "locked"}
    BY <1>2, <2>1 DEF Ask, Lock, Goto, RInv, IInv, TypeOK
  <2>3. \A k : ~Committed(k) /\ ~Committed(k)'
    BY <2>1, <2>2 DEF Committed
  <2>. QED
    BY <1>1, <2>3, TableStays
<1>3. CASE GiveUp(t)
  <2>1. reloader[t].at = "locked" /\ Inside(t)
    BY <1>3 DEF GiveUp, Goto, Inside
  <2>2. \A u \in Reloaders \ {t} : reloader[u].at \in {"idle", "asked"}
    BY <2>1, Alone DEF RInv
  <2>3. \A u \in Reloaders : reloader'[u].at \in {"idle", "asked"}
    BY <1>3, <2>2 DEF GiveUp, Goto, RInv, IInv, TypeOK
  <2>4. \A k : ~Committed(k) /\ ~Committed(k)'
    BY <2>1, <2>2, <2>3 DEF Committed
  <2>. QED
    BY <1>1, <2>4, TableStays
<1>4. CASE BeginTimeout(t)
  <2>1. /\ reloader[t].at = "between"
        /\ reloader'[t].at = "timeout"
        /\ Named(t)' = Named(t)
        /\ \A u \in Reloaders \ {t} : reloader'[u] = reloader[u]
    BY <1>4, Steps DEF BeginTimeout, RInv, IInv
  <2>2. ASSUME NEW k PROVE Committed(k)' <=> Committed(k)
    <3>1. ASSUME NEW u \in Reloaders
          PROVE  /\ Named(u)' = Named(u)
                 /\ reloader'[u].at = "command" <=> reloader[u].at = "command"
                 /\ reloader'[u].at \in {"between", "timeout"}
                       <=> reloader[u].at \in {"between", "timeout"}
      BY <2>1 DEF Named
    <3>. QED
      BY <1>1, <3>1 DEF Committed
  <2>. QED
    BY <1>1, <2>2, TableStays
<1>. QED
  BY <1>2, <1>3, <1>4

LEMMA NobodyReloads ==
    ASSUME UNCHANGED <<commands, timeouts, reloader>>
    PROVE  Versions' = Versions
<1>1. \A k : Committed(k)' <=> Committed(k)
  BY DEF Committed, Named
<1>. QED
  BY <1>1, TableStays

(* Calls: the budget of the lookup is the earlier one of the version. *)
LEMMA CallsShow ==
    ASSUME RInv, NEW c \in Callers, FindCommand(c) \/ SetDeadline(c) \/ Return(c)
    PROVE  Table!Find(c) \/ Table!Give(c) \/ Table!Return(c)
<1>1. Versions' = Versions
  BY NobodyReloads DEF FindCommand, SetDeadline, Return
<1>2. CASE FindCommand(c)
  <2>1. DOMAIN Versions = DOMAIN commands
    BY DEF Versions
  <2>. QED
    BY <1>1, <1>2, <2>1 DEF FindCommand, Table!Find
<1>3. CASE SetDeadline(c)
  <2>1. call[c].name \in DOMAIN commands
    BY <1>3 DEF SetDeadline, RInv, FoundIsKnown
  <2>2. Versions[call[c].name].earlier = Lookup(timeouts, call[c].name)
    BY <2>1 DEF Versions
  <2>. QED
    BY <1>1, <1>3, <2>2 DEF SetDeadline, Table!Give
<1>4. CASE Return(c)
  BY <1>1, <1>4 DEF Return, Table!Return
<1>. QED
  BY <1>2, <1>3, <1>4

LEMMA TableStep == RInv /\ RInv' /\ [Next]_vars => [Table!Next]_(Table!vars)
<1>. SUFFICES ASSUME RInv, RInv', [Next]_vars
              PROVE  Table!Next \/ UNCHANGED <<Versions, call>>
  BY DEF Table!vars
<1>1. ASSUME NEW t \in Reloaders, BeginCommand(t) \/ PutCommand(t)
      PROVE  Table!Next \/ UNCHANGED <<Versions, call>>
  <2>1. Named(t) \in Names
    <3>1. Inside(t) /\ Named(t) \in DOMAIN config
      BY <1>1 DEF RInv, IInv, Stages, Prepared, BeginCommand, PutCommand, Goto, Inside,
                  Buildable
    <3>. QED
      BY <3>1, Usable DEF RInv
  <2>2. Table!Commit(Named(t)) \/ UNCHANGED <<Versions, call>>
    BY <1>1, BeginningShows, PuttingShows
  <2>. QED
    BY <2>1, <2>2 DEF Table!Next
<1>2. ASSUME NEW t \in Reloaders, PutTimeout(t)
      PROVE  Table!Next \/ UNCHANGED <<Versions, call>>
  BY <1>2, PuttingSettles DEF Table!Next
<1>3. ASSUME NEW t \in Reloaders, Ask(t) \/ Lock(t) \/ GiveUp(t) \/ BeginTimeout(t)
      PROVE  UNCHANGED <<Versions, call>>
  BY <1>3, HiddenSteps
<1>4. ASSUME NEW c \in Callers, FindCommand(c) \/ SetDeadline(c) \/ Return(c)
      PROVE  Table!Next
  BY <1>4, CallsShow DEF Table!Next
<1>5. CASE Throw \/ UNCHANGED vars
  BY <1>5, NobodyReloads DEF Throw, vars
<1>. QED
  BY <1>1, <1>2, <1>3, <1>4, <1>5 DEF Next, Reload, Quiescent

(* The maps, the lock and the lookups implement a table of versions: every *)
(* reload takes effect in one step and for one API, the next one after it  *)
(* has settled, and a call is given the budget of the version it finds or  *)
(* of the one that this is replacing.                                      *)
THEOREM ImplementsRegistry == Spec => RefinesRegistry
<1>1. Spec => []RInv
  BY RInitially, RConsecution, PTL DEF Spec
<1>2. RInv /\ RInv' /\ [Next]_vars => [Table!Next]_(Table!vars)
  BY TableStep
<1>. QED
  BY <1>1, <1>2, TableInit, PTL DEF Spec, RefinesRegistry, Table!Spec

-----------------------------------------------------------------------------
(* Liveness.  The provers cannot expand ENABLED, which WF_ and SF_ contain.*)
(* In its place stands the guard of each step: its conjuncts without       *)
(* primes, and of GiveUp and BeginCommand together, which are each other's *)
(* opposite, the place both start at.                                      *)
Held(t) == lock = t
(* Whoever holds the lock is on the way to its unlock.                     *)
HolderInside == \A t \in Reloaders : Held(t) => Inside(t)
HInv == IInv /\ HolderInside

Idle(t) == reloader[t].at = "idle"
Waits(t) == reloader[t].at = "asked"
Writing(t) == reloader[t].at \in {"command", "between", "timeout"}
Written(t) == reloader[t].at \in {"between", "timeout"}
Ending(t) == reloader[t].at = "timeout"
Free == lock = NoOne

CanReload(t) == ~crashed /\ Inside(t)
CanLock(t) == ~crashed /\ lock = NoOne /\ reloader[t].at = "asked"

FairReloader(t) ==
    /\ []<>~CanReload(t) \/ []<><<Reload(t)>>_vars
    /\ <>[]~CanLock(t) \/ []<><<Lock(t)>>_vars

GuardedFairness == \A t \in Reloaders : FairReloader(t)

(* A reloader is moved by its own steps only, and each leads ahead: the    *)
(* last one, or giving up, frees the lock.                                 *)
LEMMA ReloaderSteps ==
    ASSUME HInv, [Next]_vars, NEW t \in Reloaders
    PROVE  /\ Inside(t) => Inside(t)' \/ (Idle(t) /\ Free)'
           /\ Waits(t) => Waits(t)' \/ Inside(t)'
           /\ Writing(t) => Writing(t)' \/ Idle(t)'
           /\ Written(t) => Written(t)' \/ Idle(t)'
           /\ Ending(t) => Ending(t)' \/ Idle(t)'
           /\ Held(t)' => Inside(t)'
<1> DEFINE Moved ==
           /\ Inside(t) => Inside(t)' \/ (Idle(t) /\ Free)'
           /\ Waits(t) => Waits(t)' \/ Inside(t)'
           /\ Writing(t) => Writing(t)' \/ Idle(t)'
           /\ Written(t) => Written(t)' \/ Idle(t)'
           /\ Ending(t) => Ending(t)' \/ Idle(t)'
           /\ Held(t)' => Inside(t)'
<1> USE DEF Inside, Idle, Waits, Writing, Written, Ending, Free, Held
<1>a. /\ TypeOK /\ Exclusion /\ NoOne \notin Reloaders
      /\ reloader \in [Reloaders ->
             [at : {"idle", "asked", "locked", "command", "between", "timeout"},
              name : Names \cup {NoName}]]
      /\ \A u \in Reloaders : Held(u) => Inside(u)
  BY ContextAssumption DEF HInv, IInv, HolderInside, TypeOK
<1>0. CASE UNCHANGED <<reloader, lock>>
  BY <1>a, <1>0
<1>1. ASSUME NEW u \in Reloaders, Ask(u) PROVE Moved
  BY <1>a, <1>1 DEF Ask
<1>2. ASSUME NEW u \in Reloaders, Lock(u) PROVE Moved
  BY <1>a, <1>2 DEF Lock, Goto
<1>3. ASSUME NEW u \in Reloaders, GiveUp(u) PROVE Moved
  BY <1>a, <1>3 DEF GiveUp, Goto, Exclusion
<1>4. ASSUME NEW u \in Reloaders, BeginCommand(u) PROVE Moved
  BY <1>a, <1>4 DEF BeginCommand, Goto
<1>5. ASSUME NEW u \in Reloaders, PutCommand(u) PROVE Moved
  BY <1>a, <1>5 DEF PutCommand, Goto
<1>6. ASSUME NEW u \in Reloaders, BeginTimeout(u) PROVE Moved
  BY <1>a, <1>6 DEF BeginTimeout, Goto
<1>7. ASSUME NEW u \in Reloaders, PutTimeout(u) PROVE Moved
  BY <1>a, <1>7 DEF PutTimeout, Goto, Exclusion
<1>8. ASSUME NEW c \in Callers, FindCommand(c) \/ SetDeadline(c) \/ Return(c)
      PROVE  UNCHANGED <<reloader, lock>>
  BY <1>8 DEF FindCommand, SetDeadline, Return
<1>9. Throw \/ Quiescent \/ UNCHANGED vars => UNCHANGED <<reloader, lock>>
  BY DEF Throw, Quiescent, vars
<1> QED BY <1>0, <1>1, <1>2, <1>3, <1>4, <1>5, <1>6, <1>7, <1>8, <1>9 DEF Next, Reload

LEMMA HolderInvariance == Init /\ [][Next]_vars => []HInv
<1>1. Init => HInv
  BY Initially, ContextAssumption DEF HInv, HolderInside, Held, Init
<1>2. HInv /\ [Next]_vars => HInv'
  <2> SUFFICES ASSUME HInv, [Next]_vars PROVE HInv'
    OBVIOUS
  <2>1. IInv'
    BY Consecution DEF HInv
  <2>2. HolderInside'
    BY ReloaderSteps DEF HolderInside
  <2> QED BY <2>1, <2>2 DEF HInv
<1> QED BY <1>1, <1>2, PTL

(* Each step of the reload gets it further.                                *)
LEMMA ReloadAhead ==
    ASSUME HInv, NEW t \in Reloaders
    PROVE  /\ Reload(t) /\ Inside(t) /\ ~Writing(t) => Writing(t)' \/ Idle(t)'
           /\ Reload(t) /\ Writing(t) /\ ~Written(t) => Written(t)'
           /\ Reload(t) /\ Written(t) /\ ~Ending(t) => Ending(t)'
           /\ Reload(t) /\ Ending(t) => Idle(t)'
           /\ Lock(t) => Inside(t)'
<1>a. reloader \in [Reloaders ->
             [at : {"idle", "asked", "locked", "command", "between", "timeout"},
              name : Names \cup {NoName}]]
  BY DEF HInv, IInv, TypeOK
<1> USE DEF Inside, Idle, Writing, Written, Ending, Goto
<1>1. Lock(t) => Inside(t)'
  BY <1>a DEF Lock
<1>2. GiveUp(t) => reloader[t].at = "locked" /\ Idle(t)'
  BY <1>a DEF GiveUp
<1>3. BeginCommand(t) => reloader[t].at = "locked" /\ Writing(t)'
  BY <1>a DEF BeginCommand
<1>4. PutCommand(t) => reloader[t].at = "command" /\ Written(t)'
  BY <1>a DEF PutCommand
<1>5. BeginTimeout(t) => reloader[t].at = "between" /\ Ending(t)'
  BY <1>a DEF BeginTimeout
<1>6. PutTimeout(t) => reloader[t].at = "timeout" /\ Idle(t)'
  BY <1>a DEF PutTimeout
<1> HIDE DEF Goto
<1> QED BY <1>1, <1>2, <1>3, <1>4, <1>5, <1>6 DEF Reload

(* A reload that has the lock ends, and frees it.                          *)
LEMMA InsideEnds ==
    ASSUME NEW t \in Reloaders
    PROVE  []HInv /\ [][Next]_vars /\ FairReloader(t)
              => /\ Inside(t) ~> Idle(t) \/ crashed
                 /\ Held(t) ~> Free \/ crashed
<1>1. HInv /\ [Next]_vars =>
           /\ Inside(t) => Inside(t)' \/ (Idle(t)' /\ Free')
           /\ Writing(t) => Writing(t)' \/ Idle(t)'
           /\ Written(t) => Written(t)' \/ Idle(t)'
           /\ Ending(t) => Ending(t)' \/ Idle(t)'
  BY ReloaderSteps
<1>2. HInv => /\ Inside(t) /\ ~crashed => CanReload(t)
              /\ Held(t) => Inside(t)
              /\ Idle(t) => ~Inside(t)
              /\ Writing(t) => Inside(t)
              /\ Written(t) => Inside(t)
              /\ Ending(t) => Inside(t)
  BY DEF HInv, HolderInside, CanReload, Inside, Idle, Writing, Written, Ending
<1>3. HInv /\ <<Reload(t)>>_vars =>
           /\ Inside(t) /\ ~Writing(t) => Writing(t)' \/ Idle(t)'
           /\ Writing(t) /\ ~Written(t) => Written(t)'
           /\ Written(t) /\ ~Ending(t) => Ending(t)'
           /\ Ending(t) => Idle(t)'
  BY ReloadAhead
<1> QED BY <1>1, <1>2, <1>3, PTL DEF FairReloader

(* Whoever has the lock, it becomes free again.                            *)
LEMMA LockIsFreed ==
    []HInv /\ [][Next]_vars /\ GuardedFairness => [](~Free => <>(Free \/ crashed))
<1>1. ASSUME NEW t \in Reloaders
      PROVE  []HInv /\ [][Next]_vars /\ GuardedFairness => [](Held(t) => <>(Free \/ crashed))
  <2>1. GuardedFairness => FairReloader(t)
    BY DEF GuardedFairness
  <2> QED BY <2>1, InsideEnds, PTL
<1>2. []HInv /\ [][Next]_vars /\ GuardedFairness
        => \A t \in Reloaders : [](Held(t) => <>(Free \/ crashed))
  BY <1>1
<1>3. (\A t \in Reloaders : [](Held(t) => <>(Free \/ crashed)))
        => [](\A t \in Reloaders : (Held(t) => <>(Free \/ crashed)))
  OBVIOUS
<1>4. HInv /\ ~Free => \E t \in Reloaders : Held(t)
  BY DEF HInv, IInv, TypeOK, Free, Held
<1>5. (\A t \in Reloaders : (Held(t) => <>(Free \/ crashed)))
        => ((\E t \in Reloaders : Held(t)) => <>(Free \/ crashed))
  OBVIOUS
<1> QED BY <1>2, <1>3, <1>4, <1>5, PTL

(* Every ReloadApi returns, unless the runtime throws: the lock becomes    *)
(* free again and again, so that a fair mutex is taken at last, and a      *)
(* reload that has it meets nothing to wait for.                           *)
THEOREM EveryReloadReturns == Init /\ [][Next]_vars /\ GuardedFairness => ReloadsReturn
<1> SUFFICES ASSUME NEW t \in Reloaders
             PROVE  Init /\ [][Next]_vars /\ GuardedFairness => (Waits(t) ~> Idle(t) \/ crashed)
  BY DEF ReloadsReturn, Waits, Idle
<1>1. GuardedFairness => FairReloader(t)
  BY DEF GuardedFairness
<1>2. HInv /\ [Next]_vars => (Waits(t) => Waits(t)' \/ Inside(t)')
  BY ReloaderSteps
<1>3. HInv /\ <<Lock(t)>>_vars => Inside(t)'
  BY ReloadAhead
<1>4. Waits(t) /\ Free /\ ~crashed => CanLock(t)
  BY DEF Waits, Free, CanLock
<1>5. Waits(t) => ~Inside(t) /\ ~Idle(t)
  BY DEF Waits, Inside, Idle
<1> QED BY <1>1, <1>2, <1>3, <1>4, <1>5, InsideEnds, LockIsFreed, HolderInvariance, PTL DEF FairReloader
=============================================================================
