-------------------------- MODULE MCHystrixCommand --------------------------
(* HystrixCommand for TLC.                                                 *)
EXTENDS HystrixCommand

(* An accepted response, a refused one, and an interceptor's plain error.  *)
FewResults == {[resp |-> "response", err |-> "nil"],
               [resp |-> "response", err |-> "gox"],
               [resp |-> "nil", err |-> "plain"]}
=============================================================================
