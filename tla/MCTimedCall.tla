---------------------------- MODULE MCTimedCall ----------------------------
(* TimedCall for TLC.                                                      *)
EXTENDS TimedCall, TLC

Cf(timeout, retryCount, wait) ==
    [timeout |-> timeout, retryCount |-> retryCount, wait |-> wait]

(* A negative count, one retry, two retries whose waits may or may not fit,*)
(* and a timeout longer than the first one's timer with resty's own wait.  *)
FewConfigs == {Cf(2, -3, 1), Cf(3, 1, 3), Cf(2, 2, 2), Cf(6, 1, 0)}

CallSymmetry == Permutations(Calls)
=============================================================================
