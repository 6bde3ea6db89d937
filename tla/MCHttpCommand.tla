--------------------------- MODULE MCHttpCommand ---------------------------
(* HttpCommand for TLC: one code of each kind.                             *)
EXTENDS HttpCommand

(* 200 accepted success, 204 success that is not listed, 404 accepted      *)
(* error, 500 error.                                                       *)
AllCodes == {200, 204, 404, 500}
ListedCodes == {200, 404}

(* No policy, a policy without retries, one retry.                         *)
AnyRetryCount == {-1, 0, 1}

OneRetry == {1}
=============================================================================
