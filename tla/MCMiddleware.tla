---------------------------- MODULE MCMiddleware ----------------------------
(* Middleware for TLC.                                                     *)
EXTENDS Middleware

AllChains == {<<"logger", "validator", "handler">>,
              <<"validator", "logger", "auth", "handler">>}

(* A secret in an object, in an object in a list, and in a list in a list. *)
Secretive == Object([pan |-> Leaf("1"), ok |-> Leaf("2")])
Nest == Object([data |-> Secretive, all |-> List(<<Secretive, Leaf("3")>>),
                deep |-> List(<<List(<<Secretive>>)>>)])

AllBodies == {<<>>, <<Nest>>, <<List(<<Secretive>>)>>}

RequestHeaders == [host |-> <<"h">>, auth |-> <<"a", "b">>]

Reply(status, docs, via) == [status |-> status, docs |-> docs, via |-> via]

(* An answer, one that bypasses Write, and AbortWithError.                 *)
AllReplies == {Reply(200, <<Nest>>, "Write"), Reply(201, <<Leaf("t")>>, "WriteString"),
               Reply(422, <<>>, "Write")}

AllErrors == {{}, {"name", "email"}, {"other"}, {"name", "other"}}

Secrets(keys) == [is |-> "enabled", headers |-> {"auth", "cookie"},
                  requestKeys |-> keys, responseKeys |-> {"pan"}]
Without(is) == [is |-> is]
AllLogs == {Without("nil"), Without("disabled"), Secrets({"pan", "none"}), Secrets({"data"})}
=============================================================================
