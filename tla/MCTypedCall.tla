---------------------------- MODULE MCTypedCall ----------------------------
(* TypedCall for TLC: successes with and without content, a 304, an        *)
(* accepted and a refused client error, a server error.                    *)
EXTENDS TypedCall

AllCodes == {200, 201, 204, 304, 404, 409, 500}
ListedCodes == {200, 201, 404}
=============================================================================
