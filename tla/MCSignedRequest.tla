------------------------- MODULE MCSignedRequest -------------------------
(* SignedRequest for TLC: the content type, a hash and a timestamp header, *)
(* and another one; sources that set nothing, half or all of them.         *)
EXTENDS SignedRequest

AllNames == {"Content-Type", "X-Id", "X-Hash", "X-Time"}
FewGivens == {{}, {"Content-Type", "X-Id"}, AllNames}

Hmac(key, timestamp, listed) ==
    [kind |-> "hmac", key |-> key, hash |-> "X-Hash",
     timestamp |-> timestamp, listed |-> listed]

NotHmac(kind) == [Hmac(FALSE, NoName, {}) EXCEPT !.kind = kind]

FewSignings == {NotHmac("off"), NotHmac("no-op"),
                Hmac(TRUE, "X-Time", {"X-Id", "X-Time"}),
                Hmac(TRUE, NoName, {"Content-Type"}),
                Hmac(FALSE, NoName, {})}
=============================================================================
