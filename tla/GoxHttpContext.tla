--------------------------- MODULE GoxHttpContext ---------------------------
(***************************************************************************)
(* goxHttpContextImpl (api/api_impl.go): the maps from API names to        *)
(* commands and to time budgets, the calls of Execute that read them and   *)
(* the calls of ReloadApi that write them.                                 *)
(*                                                                         *)
(* ReloadApi holds a mutex, Execute takes no lock: it reads one map, then  *)
(* the other, at any point of a reload.  A Go map that is read while it is *)
(* written may end the whole process.  The configuration belongs to the    *)
(* application, which edits it in place and then asks for a reload.  What  *)
(* the commands do is in HystrixCommand and HttpCommand; here a command is *)
(* what it keeps of the configuration it was made from.                    *)
(***************************************************************************)
EXTENDS Integers, FiniteSets, Timeouts, ConfigDefaults

CONSTANTS
    Names,          \* API names
    SetupNames,     \* those configured when NewGoxHttpContext runs
    Entries,        \* what the file may say of an API
    Configs,        \* the settings the application may give an API later
    Callers,        \* concurrent calls of Execute
    Reloaders,      \* goroutines of the application that edit and reload
    MaxEdits        \* bound: edits of the configuration

NoOne == "no one"
NoName == "no name"

ASSUME ContextAssumption ==
    /\ SetupNames \subseteq Names
    /\ NoOne \notin Reloaders
    /\ \A e \in Entries : Parsed(e) \in Api
    /\ Configs \subseteq Api              \* raw: zero, negative, no server
    /\ MaxEdits \in Nat

VARIABLES
    config,     \* g.config.Apis: the application's configuration
    edits,      \* number of requests for a reload so far
    commands,   \* g.commands
    timeouts,   \* g.timeouts
    lock,       \* g.lock: the reloader that holds it
    reloader,   \* where each reloader is, and in which API
    call,       \* where each call is, in which API, with which deadline
    reloaded,   \* history: names that a reload has registered
    crashed     \* the Go runtime has thrown: concurrent map read and write

vars == <<config, edits, commands, timeouts, lock, reloader, call, reloaded,
          crashed>>

-----------------------------------------------------------------------------
(* A Go map is a function on its keys: assignment and lookup, which yields *)
(* the zero value for a key that is not there.                             *)
Put(map, key, value) ==
    [k \in DOMAIN map \cup {key} |-> IF k = key THEN value ELSE map[k]]

Lookup(map, key) == IF key \in DOMAIN map THEN map[key] ELSE 0

(* A new command: its type, what hystrix was told, and the client timeout  *)
(* of the HttpCommand inside.                                              *)
NewCommand(cf) ==
    [kind |-> IF cf.disableHystrix THEN "http" ELSE "hystrix",
     hystrixTimeout |-> IF cf.disableHystrix THEN 0 ELSE HystrixTimeout(cf),
     clientTimeout |-> cf.timeout]

(* A bug: the type of the command follows the configuration, hystrix is not*)
(* configured anew.                                                        *)
UpdatedCommand_NewKind(cmd, cf) ==
    [cmd EXCEPT !.clientTimeout = cf.timeout,
                !.kind = IF cf.disableHystrix THEN "http" ELSE "hystrix"]

(* updateAPi keeps the type of the command; for a hystrix command it only  *)
(* exchanges the HttpCommand inside.                                       *)
UpdatedCommand(cmd, cf) == [cmd EXCEPT !.clientTimeout = cf.timeout]

(* NewGoxHttpContext has returned: every configured API has a command and  *)
(* a budget that includes its retries.                                     *)
Init ==
    /\ config \in [SetupNames ->
          {api \in {SetupDefaults(Parsed(e)) : e \in Entries} : api.buildable}]
    /\ edits = 0
    /\ commands = [n \in SetupNames |-> NewCommand(config[n])]
    /\ timeouts = [n \in SetupNames |-> GetTimeoutWithRetryIncluded(config[n])]
    /\ lock = NoOne
    /\ reloader = [t \in Reloaders |-> [at |-> "idle", name |-> NoName]]
    /\ call = [c \in Callers |-> [at |-> "idle", name |-> NoName, deadline |-> 0]]
    /\ reloaded = {}
    /\ crashed = FALSE

-----------------------------------------------------------------------------
(* The application changes or adds the configuration of one API, or leaves *)
(* it as it is, and calls ReloadApi.  It does not change the configuration *)
(* while a reload of its own iterates over it.                             *)
Ask(t) ==
    /\ ~crashed
    /\ lock = NoOne
    /\ edits < MaxEdits
    /\ edits' = edits + 1
    /\ reloader[t].at = "idle"
    /\ \E n \in Names :
         /\ reloader' = [reloader EXCEPT ![t] = [at |-> "asked", name |-> n]]
         /\ \/ \E cf \in Configs : config' = Put(config, n, cf)
            \/ UNCHANGED config
    /\ UNCHANGED <<commands, timeouts, lock, call, reloaded, crashed>>

Goto(t, from, to) ==
    /\ ~crashed
    /\ reloader[t].at = from
    /\ reloader' = [reloader EXCEPT ![t].at = to]

(* A bug: the values that were edited are used as they are. *)
Lock_NoDefaults(t) ==
    /\ lock = NoOne
    /\ Goto(t, "asked", "locked")
    /\ lock' = t
    /\ UNCHANGED <<config, edits, commands, timeouts, call, reloaded, crashed>>

(* A bug: reloads exclude nobody. *)
Lock_Shared(t) ==
    /\ Goto(t, "asked", "locked")
    /\ lock' = t
    /\ config' = [n \in DOMAIN config |-> SetupDefaults(config[n])]
    /\ UNCHANGED <<edits, commands, timeouts, call, reloaded, crashed>>

(* SetupDefaults runs over all APIs, whichever is reloaded.                *)
Lock(t) ==
    /\ lock = NoOne
    /\ Goto(t, "asked", "locked")
    /\ lock' = t
    /\ config' = [n \in DOMAIN config |-> SetupDefaults(config[n])]
    /\ UNCHANGED <<edits, commands, timeouts, call, reloaded, crashed>>

Named(t) == reloader[t].name

Buildable(t) == Named(t) \in DOMAIN config /\ config[Named(t)].buildable

(* A bug: the command is stored before the failure is noticed. *)
GiveUp_AfterStoring(t) ==
    /\ Goto(t, "locked", "idle")
    /\ ~Buildable(t)
    /\ lock' = NoOne
    /\ commands' = IF Named(t) \in DOMAIN config
                   THEN Put(commands, Named(t), NewCommand(config[Named(t)]))
                   ELSE commands
    /\ UNCHANGED <<config, edits, timeouts, call, reloaded, crashed>>

(* ReloadApi returns nil for a name that is not configured, an error when  *)
(* the server is unknown or the HttpCommand cannot be made.                *)
GiveUp(t) ==
    /\ Goto(t, "locked", "idle")
    /\ ~Buildable(t)
    /\ lock' = NoOne
    /\ UNCHANGED <<config, edits, commands, timeouts, call, reloaded, crashed>>

(* The new HttpCommand is ready.  UpdateCommand puts it into the registered*)
(* hystrix command at once; then the write of the commands map begins.     *)
BeginCommand(t) ==
    /\ Goto(t, "locked", "command")
    /\ Buildable(t)
    /\ LET n == Named(t) IN
       commands' =
          IF n \in DOMAIN commands /\ commands[n].kind = "hystrix"
          THEN Put(commands, n, UpdatedCommand(commands[n], config[n]))
          ELSE commands
    /\ UNCHANGED <<config, edits, timeouts, lock, call, reloaded, crashed>>

PutCommand(t) ==
    /\ Goto(t, "command", "between")
    /\ LET n == Named(t) IN
       commands' = Put(commands, n,
          IF n \in DOMAIN commands THEN UpdatedCommand(commands[n], config[n])
                                   ELSE NewCommand(config[n]))
    /\ UNCHANGED <<config, edits, timeouts, lock, call, reloaded, crashed>>

BeginTimeout(t) ==
    /\ Goto(t, "between", "timeout")
    /\ UNCHANGED <<config, edits, commands, timeouts, lock, call, reloaded, crashed>>

(* A bug: the update of an existing API forgets its budget. *)
PutTimeout_OnlyNew(t) ==
    /\ Goto(t, "timeout", "idle")
    /\ timeouts' = IF Named(t) \in DOMAIN timeouts THEN timeouts
                   ELSE Put(timeouts, Named(t), config[Named(t)].timeout)
    /\ reloaded' = reloaded \cup {Named(t)}
    /\ lock' = NoOne
    /\ UNCHANGED <<config, edits, commands, call, crashed>>

(* A bug: the deferred unlock is missing. *)
PutTimeout_KeepsLock(t) ==
    /\ Goto(t, "timeout", "idle")
    /\ timeouts' = Put(timeouts, Named(t), config[Named(t)].timeout)
    /\ reloaded' = reloaded \cup {Named(t)}
    /\ UNCHANGED <<config, edits, commands, lock, call, crashed>>

(* A reload registers api.Timeout, without retries; then it unlocks.       *)
PutTimeout(t) ==
    /\ Goto(t, "timeout", "idle")
    /\ timeouts' = Put(timeouts, Named(t), config[Named(t)].timeout)
    /\ reloaded' = reloaded \cup {Named(t)}
    /\ lock' = NoOne
    /\ UNCHANGED <<config, edits, commands, call, crashed>>

-----------------------------------------------------------------------------
(* Execute looks the command up ...                                        *)
FindCommand(c) ==
    /\ ~crashed
    /\ call[c].at = "idle"
    /\ \E n \in Names :
         call' = [call EXCEPT ![c] =
            [at |-> IF n \in DOMAIN commands THEN "found" ELSE "not_found",
             name |-> n, deadline |-> 0]]
    /\ UNCHANGED <<config, edits, commands, timeouts, lock, reloader, reloaded, crashed>>

(* ... and then its budget, the deadline of the request context ...        *)
SetDeadline(c) ==
    /\ ~crashed
    /\ call[c].at = "found"
    /\ call' = [call EXCEPT ![c].at = "running",
                            ![c].deadline = Lookup(timeouts, call[c].name)]
    /\ UNCHANGED <<config, edits, commands, timeouts, lock, reloader, reloaded, crashed>>

(* ... and runs the command.                                               *)
Return(c) ==
    /\ ~crashed
    /\ call[c].at = "running"
    /\ call' = [call EXCEPT ![c].at = "returned"]
    /\ UNCHANGED <<config, edits, commands, timeouts, lock, reloader, reloaded, crashed>>

(* The runtime may notice a lookup in a map that is being written, and then*)
(* it ends the process.                                                    *)
Throw ==
    /\ ~crashed
    /\ \E t \in Reloaders, c \in Callers :
         \/ reloader[t].at = "command" /\ call[c].at = "idle"
         \/ reloader[t].at = "timeout" /\ call[c].at = "found"
    /\ crashed' = TRUE
    /\ UNCHANGED <<config, edits, commands, timeouts, lock, reloader, call, reloaded>>

Quiescent ==
    /\ \/ crashed
       \/ /\ \A c \in Callers : call[c].at \in {"not_found", "returned"}
          /\ \A t \in Reloaders : reloader[t].at = "idle"
    /\ UNCHANGED vars

Reload(t) ==
    \/ GiveUp(t) \/ BeginCommand(t) \/ PutCommand(t)
    \/ BeginTimeout(t) \/ PutTimeout(t)

Next ==
    \/ \E t \in Reloaders : Ask(t) \/ Lock(t) \/ Reload(t)
    \/ \E c \in Callers : FindCommand(c) \/ SetDeadline(c) \/ Return(c)
    \/ Throw
    \/ Quiescent

(* A reload goes on, and a Go mutex starves nobody.                        *)
Fairness == \A t \in Reloaders : WF_vars(Reload(t)) /\ SF_vars(Lock(t))

Spec == Init /\ [][Next]_vars /\ Fairness

-----------------------------------------------------------------------------
(* Properties.                                                             *)

(* The type of every variable.                                             *)
TypeOK ==
    /\ DOMAIN config \subseteq Names
    /\ \A n \in DOMAIN config : config[n] \in Api
    /\ edits \in 0 .. MaxEdits
    /\ DOMAIN commands \subseteq Names
    /\ \A n \in DOMAIN commands :
          commands[n] \in [kind : {"http", "hystrix"},
                           hystrixTimeout : Nat, clientTimeout : Nat]
    /\ DOMAIN timeouts \subseteq Names
    /\ \A n \in DOMAIN timeouts : timeouts[n] \in Nat
    /\ lock \in Reloaders \cup {NoOne}
    /\ reloader \in [Reloaders ->
          [at : {"idle", "asked", "locked", "command", "between", "timeout"},
           name : Names \cup {NoName}]]
    /\ call \in [Callers ->
          [at : {"idle", "not_found", "found", "running", "returned"},
           name : Names \cup {NoName}, deadline : Nat]]
    /\ reloaded \in SUBSET Names
    /\ crashed \in BOOLEAN

(* Between reloads, failed ones included, an API has a command and a budget*)
(* or neither, and the budget leaves room for one attempt of the command.  *)
AllOrNothing ==
    lock = NoOne =>
        /\ DOMAIN commands = DOMAIN timeouts
        /\ \A n \in DOMAIN commands : commands[n].clientTimeout <= timeouts[n]

(* Until its first reload hystrix waits for an API at least as long as its *)
(* requests may take: the request context ends first and frees the ticket  *)
(* and the connection.                                                     *)
HystrixOutlastsDeadline ==
    \A n \in DOMAIN commands \cap DOMAIN timeouts :
        commands[n].kind = "hystrix" /\ n \notin reloaded =>
            commands[n].hystrixTimeout >= timeouts[n]

(* A call of an API that was there from the start gets a deadline in the   *)
(* future, whatever reloads run beside it.                                 *)
SetupCallsHaveTime ==
    \A c \in Callers :
        call[c].at = "running" /\ call[c].name \in SetupNames => call[c].deadline > 0

Quiet == \A t \in Reloaders : reloader[t].at = "idle"

(* No edit is lost to a concurrent reload: when all reloads have returned, *)
(* what was reloaded has the configured timeout.                           *)
QuietMeansCurrent ==
    Quiet /\ ~crashed => \A n \in reloaded :
        config[n].buildable =>
            /\ timeouts[n] = config[n].timeout
            /\ commands[n].clientTimeout = config[n].timeout

(* A registered API never becomes unknown to Execute, not even during its  *)
(* reload, and its command keeps the type setup or the first reload gave   *)
(* it.                                                                     *)
CommandsStay ==
    [][\A n \in DOMAIN commands :
         n \in DOMAIN commands' /\ commands'[n].kind = commands[n].kind]_vars

(* Every ReloadApi returns, unless the runtime throws.                     *)
ReloadsReturn ==
    \A t \in Reloaders :
        reloader[t].at = "asked" ~> reloader[t].at = "idle" \/ crashed

-----------------------------------------------------------------------------
(* A reload has put the new command of API n where calls find it, and has  *)
(* its budget still to write.                                              *)
Committed(n) == \E t \in Reloaders :
    /\ Named(t) = n
    /\ \/ reloader[t].at = "command" /\ commands[n].kind = "hystrix"
       \/ reloader[t].at \in {"between", "timeout"}

Versions == [n \in DOMAIN commands |->
    [kind |-> commands[n].kind,
     hystrixTimeout |-> commands[n].hystrixTimeout,
     clientTimeout |-> commands[n].clientTimeout,
     budget |-> IF Committed(n) THEN commands[n].clientTimeout
                                ELSE Lookup(timeouts, n),
     earlier |-> Lookup(timeouts, n)]]

Table == INSTANCE Registry WITH api <- Versions

(* Setup, reloads and calls implement the table of module Registry: each   *)
(* reload takes effect in one of its steps, for one API, after the reload  *)
(* before has settled, and a call is given the budget of the version there *)
(* or, while that settles, of the one before.                              *)
RefinesRegistry == Table!Spec

-----------------------------------------------------------------------------
(* command/interface.go:77, "Add extra time to handle retry counts": the   *)
(* budget of an API that was reloaded includes its retries.                *)
ReloadKeepsBudget ==
    Quiet => \A n \in DOMAIN timeouts :
        config[n].buildable =>
            timeouts[n] >= GetTimeoutWithRetryIncluded(config[n])

(* api/api_impl.go:85, "Lock for updating new resources": with the lock,   *)
(* an update beside running calls does not end the process.                *)
UpdatesAreLocked == ~crashed
=============================================================================
