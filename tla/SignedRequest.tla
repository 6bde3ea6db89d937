--------------------------- MODULE SignedRequest ---------------------------
(***************************************************************************)
(* The headers of one request, from HttpCommand.buildRequest through the   *)
(* HMAC interceptor (interceptor/hmac_sha256_interceptor.go) to the server.*)
(*                                                                         *)
(* buildRequest applies the sources of headers one after the other; the    *)
(* interceptor signs what is there then; resty sends the request, and sends*)
(* it again when a retry is wanted, each time after the middleware that the*)
(* application has put into the client.  A header value is who set it and, *)
(* for a timestamp, when; a hash is what it was computed from (signed).    *)
(* Body, path and query do not change once they are set and are left out.  *)
(***************************************************************************)
EXTENDS Naturals

CONSTANTS
    Names,          \* header names in canonical form
    ContentType,    \* the one that has a default
    Givens,         \* the sets of headers a source may set
    Signings,       \* settings of an interceptor_config
    MaxSends,       \* bound: sends of the request
    MaxTime         \* bound: ticks of the clock

NoName == "no name"

(* The sources outside buildRequest: MDC and tracing values, the server's  *)
(* and the API's headers, the request's, the context's, and those of the   *)
(* middleware that the application has put into the client.                *)
Sources == {"mdc", "server", "api", "request", "context", "client"}

(* An interceptor_config: missing or disabled, without hmac_config, or with*)
(* one: has it a key, the headers for hash and timestamp, those to sign.   *)
signing == [kind : {"off", "no-op", "hmac"}, key : BOOLEAN, hash : Names,
            timestamp : Names \cup {NoName}, listed : SUBSET Names]

ASSUME SigningAssumption ==
    /\ NoName \notin Names
    /\ ContentType \in Names
    /\ Givens \subseteq SUBSET Names
    /\ Signings \subseteq signing
    /\ MaxSends \in Nat /\ MaxTime \in Nat

VARIABLES
    at,         \* the next step
    given,      \* what each source sets
    server,     \* server.InterceptorConfig
    api,        \* api.InterceptorConfig
    header,     \* the headers of the request
    signed,     \* what the hash was computed from
    now,        \* the clock
    sends,      \* history: number of sends
    received    \* history: the headers of the latest one

vars == <<at, given, server, api, header, signed, now, sends, received>>

setup == <<given, server, api>>

-----------------------------------------------------------------------------
By(source) == [by |-> source, time |-> 0]
Absent == By("absent")
NoHeader == [n \in Names |-> Absent]
Nothing == [body |-> FALSE, time |-> Absent, listed |-> NoHeader]

(* A bug: a header that is set stays. *)
Set_KeepsFirst(h, names, value) ==
    [n \in Names |-> IF n \in names /\ h[n] = Absent THEN value ELSE h[n]]

(* resty's SetHeader, for several names.                                   *)
Set(h, names, value) == [n \in Names |-> IF n \in names THEN value ELSE h[n]]

Init ==
    /\ at = "mdc"
    /\ given \in [Sources -> Givens]
    /\ server \in Signings
    /\ api \in Signings
    /\ header = NoHeader
    /\ signed = Nothing
    /\ now = 0
    /\ sends = 0
    /\ received = NoHeader

Apply(source, next) ==
    /\ at = source
    /\ at' = next
    /\ header' = Set(header, given[source], By(source))
    /\ UNCHANGED <<setup, signed, now, sends, received>>

SetMdc == Apply("mdc", "server")
SetServerHeaders == Apply("server", "api")
SetApiHeaders == Apply("api", "request")
SetRequestHeaders == Apply("request", "default")

(* The content type is application/json unless the request has one.        *)
SetDefaultContentType ==
    /\ at = "default"
    /\ at' = "context"
    /\ header' = IF ContentType \in given["request"] THEN header
                 ELSE Set(header, {ContentType}, By("default"))
    /\ UNCHANGED <<setup, signed, now, sends, received>>

SetContextHeaders == Apply("context", "intercept")

-----------------------------------------------------------------------------
(* A bug: the API's configuration is looked at only if the server has none.*)
Chosen_ServerOrApi == server

(* The server's configuration goes before the API's.                       *)
Chosen == IF server.kind # "off" THEN server ELSE api

(* What a signature is computed from: the body, the timestamp, if it has a *)
(* header, and the listed headers that are there.                          *)
Payload(cf, h) ==
    [body |-> TRUE,
     time |-> IF cf.timestamp = NoName THEN Absent ELSE h[cf.timestamp],
     listed |-> [n \in Names |-> IF n \in cf.listed THEN h[n] ELSE Absent]]

Timestamped(cf, h) ==
    Set(h, {cf.timestamp} \cap Names, [by |-> "clock", time |-> now])

NotIntercepted ==
    /\ at = "intercept"
    /\ Chosen.kind # "hmac"
    /\ at' = "send"
    /\ UNCHANGED <<setup, header, signed, now, sends, received>>

(* Without a key buildRequest fails.                                       *)
SignFails ==
    /\ at = "intercept"
    /\ Chosen.kind = "hmac" /\ ~Chosen.key
    /\ at' = "failed"
    /\ UNCHANGED <<setup, header, signed, now, sends, received>>

(* A bug: the listed headers are read before the timestamp is set. *)
Sign_ReadsFirst ==
    /\ at = "intercept"
    /\ Chosen.kind = "hmac" /\ Chosen.key
    /\ at' = "send"
    /\ signed' = Payload(Chosen, header)
    /\ header' = Timestamped(Chosen, Set(header, {Chosen.hash}, By("hash")))
    /\ UNCHANGED <<setup, now, sends, received>>

(* The timestamp is set, what is there is signed, the hash is set and the  *)
(* timestamp once more.                                                    *)
Sign ==
    /\ at = "intercept"
    /\ Chosen.kind = "hmac" /\ Chosen.key
    /\ at' = "send"
    /\ signed' = Payload(Chosen, Timestamped(Chosen, header))
    /\ header' = Timestamped(Chosen,
                    Set(Timestamped(Chosen, header), {Chosen.hash}, By("hash")))
    /\ UNCHANGED <<setup, now, sends, received>>

-----------------------------------------------------------------------------
(* A bug: each attempt has a timestamp of its own, the hash has not. *)
Send_StampsAgain ==
    /\ at = "send"
    /\ sends < MaxSends
    /\ sends' = sends + 1
    /\ header' = Timestamped(Chosen, Set(header, given["client"], By("client")))
    /\ received' = header'
    /\ UNCHANGED <<at, setup, signed, now>>

(* The middleware comes last, on every attempt; the request is the same one*)
(* each time.                                                              *)
Send ==
    /\ at = "send"
    /\ sends < MaxSends
    /\ sends' = sends + 1
    /\ header' = Set(header, given["client"], By("client"))
    /\ received' = header'
    /\ UNCHANGED <<at, setup, signed, now>>

(* Time passes while resty waits for a reply or for its next attempt.      *)
Tick ==
    /\ now < MaxTime
    /\ now' = now + 1
    /\ UNCHANGED <<at, setup, header, signed, sends, received>>

Done == at \in {"send", "failed"} /\ UNCHANGED vars

Next ==
    \/ SetMdc \/ SetServerHeaders \/ SetApiHeaders \/ SetRequestHeaders
    \/ SetDefaultContentType \/ SetContextHeaders
    \/ NotIntercepted \/ SignFails \/ Sign
    \/ Send \/ Tick
    \/ Done

Spec == Init /\ [][Next]_vars

-----------------------------------------------------------------------------
(* Properties.                                                             *)

value == [by : {"absent", "mdc", "server", "api", "request", "default",
                "context", "clock", "hash", "client"}, time : 0 .. MaxTime]

(* The type of every variable.                                             *)
TypeOK ==
    /\ at \in {"mdc", "server", "api", "request", "default", "context",
               "intercept", "send", "failed"}
    /\ given \in [Sources -> Givens]
    /\ server \in signing /\ api \in signing
    /\ header \in [Names -> value]
    /\ signed \in [body : BOOLEAN, time : value, listed : [Names -> value]]
    /\ now \in 0 .. MaxTime
    /\ sends \in 0 .. MaxSends
    /\ received \in [Names -> value]

Signed == Chosen.kind = "hmac"

(* Headers that can verify: the hash is not part of itself, nor of the     *)
(* timestamp, and the client leaves alone what was signed.                 *)
Verifiable ==
    /\ Chosen.hash \notin Chosen.listed \cup {Chosen.timestamp}
    /\ given["client"] \cap (Chosen.listed \cup {Chosen.hash, Chosen.timestamp}) = {}

(* A server that computes the hash from what it received, on the first     *)
(* attempt or a later one, finds the hash it received.                     *)
SignatureVerifies ==
    sends > 0 /\ Signed /\ Verifiable =>
        /\ received[Chosen.hash] = By("hash")
        /\ Payload(Chosen, received) = signed

(* Nothing goes out without a hash if the server's configuration, or the   *)
(* API's where the server has none, asks for one, not even without a key.  *)
NothingUnsigned ==
    \A cf \in {server} \cup (IF server.kind = "off" THEN {api} ELSE {}) :
        sends > 0 /\ cf.kind = "hmac" => cf.key /\ signed # Nothing

(* Who set each header in the end: the client, the signature, the context, *)
(* the request, the API, the server, MDC, in this order; the default       *)
(* content type replaces any but the request's and the context's.          *)
Winner(n) ==
    IF n \in given["client"] THEN "client"
    ELSE IF Signed /\ n = Chosen.timestamp THEN "clock"
    ELSE IF Signed /\ n = Chosen.hash THEN "hash"
    ELSE IF n \in given["context"] THEN "context"
    ELSE IF n \in given["request"] THEN "request"
    ELSE IF n = ContentType THEN "default"
    ELSE IF n \in given["api"] THEN "api"
    ELSE IF n \in given["server"] THEN "server"
    ELSE IF n \in given["mdc"] THEN "mdc"
    ELSE "absent"

(* The server receives each header from the source that goes first         *)
(* (README.md:187: API-level headers take precedence over server-level     *)
(* headers).                                                               *)
HeaderPrecedence == sends > 0 => \A n \in Names : received[n].by = Winner(n)

(* A retry repeats the request: identifiers, timestamp and hash are those  *)
(* of the first attempt, so that a server can tell that it is one.         *)
RetriesRepeat == [][sends > 0 => received' = received]_vars
=============================================================================
