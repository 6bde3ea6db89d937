--------------------------- MODULE ConfigDefaults ---------------------------
(***************************************************************************)
(* How the settings of an API come to be: what UnmarshalYAML               *)
(* (command/config_parser.go) takes from its entry in the file, and what   *)
(* Config.SetupDefaults (command/internal.go) puts in place of values that *)
(* cannot be used.  Here are the settings the budgets depend on, and       *)
(* whether a command can be made: buildable stands for a server that is    *)
(* configured, with a proxy URL that parses.                               *)
(***************************************************************************)
EXTENDS Integers

(* command.Api.                                                            *)
Api == [timeout : Int, retryCount : Int, wait : Nat,
        disableHystrix : BOOLEAN, buildable : BOOLEAN]

(* What a key stands for that an entry does not have; the server has no    *)
(* default.                                                                *)
YamlDefault == [timeout |-> 100, retryCount |-> 0, wait |-> 1,
                disableHystrix |-> FALSE, buildable |-> FALSE]

(* An entry is a record with some of these fields.                         *)
Parsed(entry) ==
    [k \in DOMAIN YamlDefault |->
        IF k \in DOMAIN entry THEN entry[k] ELSE YamlDefault[k]]

(* The loop body of SetupDefaults; a negative retry count stays.           *)
SetupDefaults(api) == [api EXCEPT !.timeout = IF @ <= 0 THEN 1 ELSE @]
=============================================================================
