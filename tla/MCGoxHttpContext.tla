-------------------------- MODULE MCGoxHttpContext --------------------------
(* GoxHttpContext for TLC.                                                 *)
EXTENDS GoxHttpContext

Cf(timeout, retryCount, disableHystrix, buildable) ==
    [timeout |-> timeout, retryCount |-> retryCount, wait |-> 3,
     disableHystrix |-> disableHystrix, buildable |-> buildable]

(* The file gives almost nothing, or an unusable timeout with retries, or  *)
(* switches hystrix off.                                                   *)
FewEntries == {[buildable |-> TRUE],
               [buildable |-> TRUE, timeout |-> -1, retryCount |-> 2],
               [buildable |-> TRUE, timeout |-> 5, disableHystrix |-> TRUE]}

(* A short timeout, below the 10 ms at which the delta becomes a           *)
(* percentage, with a negative retry count, none at all with retries, one  *)
(* without hystrix, and one with no server.                                *)
FewConfigs == {Cf(5, -3, FALSE, TRUE), Cf(0, 2, FALSE, TRUE),
               Cf(30, 1, TRUE, TRUE), Cf(5, 1, FALSE, FALSE)}

(* The same API with and without retries.                                  *)
RetryConfigs == {Cf(5, 0, FALSE, TRUE), Cf(5, 2, FALSE, TRUE)}
=============================================================================
