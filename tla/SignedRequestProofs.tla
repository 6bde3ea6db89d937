------------------------ MODULE SignedRequestProofs -------------------------
(***************************************************************************)
(* Proofs about SignedRequest, for any header names, any headers of the    *)
(* sources, any settings of the interceptors, any number of sends and any  *)
(* time.                                                                   *)
(*                                                                         *)
(* The inductive invariant gives the headers after each source as a        *)
(* function of what the sources set, and those of the finished request as  *)
(* a function of that and of the moment of signing.                        *)
(***************************************************************************)
EXTENDS SignedRequest, TLAPS

(* The headers after each source.                                          *)
AfterMdc == Set(NoHeader, given["mdc"], By("mdc"))
AfterServer == Set(AfterMdc, given["server"], By("server"))
AfterApi == Set(AfterServer, given["api"], By("api"))
AfterRequest == Set(AfterApi, given["request"], By("request"))
AfterDefault == IF ContentType \in given["request"] THEN AfterRequest
                ELSE Set(AfterRequest, {ContentType}, By("default"))
AfterContext == Set(AfterDefault, given["context"], By("context"))

(* The same with a timestamp of time t, and the request as it is signed.   *)
StampedAt(t, h) == Set(h, {Chosen.timestamp} \cap Names, [by |-> "clock", time |-> t])

Complete(t) ==
    IF Signed
    THEN StampedAt(t, Set(StampedAt(t, AfterContext), {Chosen.hash}, By("hash")))
    ELSE AfterContext

(* What the middleware of the application makes of it, once or repeatedly. *)
Sent(t) == Set(Complete(t), given["client"], By("client"))

UnderWay ==
    /\ at = "mdc" => header = NoHeader
    /\ at = "server" => header = AfterMdc
    /\ at = "api" => header = AfterServer
    /\ at = "request" => header = AfterApi
    /\ at = "default" => header = AfterRequest
    /\ at = "context" => header = AfterDefault
    /\ at = "intercept" => header = AfterContext
    /\ at # "send" => sends = 0

(* The request is complete: when it was signed, if it was, and what is out.*)
Ready(t) ==
    /\ Signed => Chosen.key /\ signed = Payload(Chosen, StampedAt(t, AfterContext))
    /\ header = IF sends = 0 THEN Complete(t) ELSE Sent(t)
    /\ sends > 0 => received = Sent(t)

IInv ==
    /\ TypeOK
    /\ UnderWay
    /\ at = "send" => \E t \in Nat : Ready(t)

-----------------------------------------------------------------------------
LEMMA SetType ==
    ASSUME NEW h \in [Names -> value], NEW names, NEW v \in value
    PROVE  Set(h, names, v) \in [Names -> value]
BY DEF Set

LEMMA SetTwice ==
    ASSUME NEW h, NEW names, NEW v
    PROVE  Set(Set(h, names, v), names, v) = Set(h, names, v)
BY DEF Set

LEMMA ByType ==
    ASSUME NEW source \in {"absent", "mdc", "server", "api", "request", "default",
                           "context", "hash", "client"}
    PROVE  By(source) \in value
BY SigningAssumption DEF By, value

(* The setting that applies is one of the two.                             *)
LEMMA ChosenType == TypeOK => Chosen \in signing
BY DEF TypeOK, Chosen

LEMMA InitHolds == Init => IInv
<1> SUFFICES ASSUME Init PROVE IInv
  OBVIOUS
<1>1. NoHeader \in [Names -> value] /\ Absent \in value
  BY ByType DEF NoHeader, Absent
<1>2. TypeOK
  BY <1>1, SigningAssumption DEF Init, TypeOK, Nothing
<1>3. UnderWay
  BY DEF Init, UnderWay
<1> QED BY <1>2, <1>3 DEF Init, IInv

(* The sources of buildRequest.                                            *)
LEMMA SourcesKeep ==
    ASSUME IInv,
           \/ SetMdc \/ SetServerHeaders \/ SetApiHeaders \/ SetRequestHeaders
           \/ SetDefaultContentType \/ SetContextHeaders
    PROVE  IInv'
<1>1. header' \in [Names -> value]
  BY SetType, ByType
     DEF IInv, TypeOK, SetMdc, SetServerHeaders, SetApiHeaders, SetRequestHeaders,
         SetDefaultContentType, SetContextHeaders, Apply
<1>2. TypeOK'
  BY <1>1
     DEF IInv, TypeOK, SetMdc, SetServerHeaders, SetApiHeaders, SetRequestHeaders,
         SetDefaultContentType, SetContextHeaders, Apply, setup
<1>3. UnderWay' /\ at' # "send"
  BY DEF IInv, UnderWay, AfterMdc, AfterServer, AfterApi, AfterRequest, AfterDefault,
         AfterContext, SetMdc, SetServerHeaders, SetApiHeaders, SetRequestHeaders,
         SetDefaultContentType, SetContextHeaders, Apply, setup
<1> QED BY <1>2, <1>3 DEF IInv

LEMMA NotInterceptedKeeps == ASSUME IInv, NotIntercepted PROVE IInv'
<1>1. TypeOK'
  BY DEF IInv, TypeOK, NotIntercepted, setup
<1>2. UnderWay'
  BY DEF UnderWay, NotIntercepted
<1>3. ~Signed' /\ sends' = 0 /\ header' = AfterContext'
  BY DEF IInv, UnderWay, NotIntercepted, setup, Signed, Chosen, AfterContext,
         AfterDefault, AfterRequest, AfterApi, AfterServer, AfterMdc
<1>4. Ready(0)'
  BY <1>3 DEF Ready, Complete
<1> QED BY <1>1, <1>2, <1>4 DEF IInv

LEMMA SignFailsKeeps == ASSUME IInv, SignFails PROVE IInv'
BY DEF IInv, TypeOK, UnderWay, SignFails, setup

LEMMA SignKeeps == ASSUME IInv, Sign PROVE IInv'
<1>1. /\ at = "intercept" /\ at' = "send" /\ sends = 0 /\ header = AfterContext
      /\ now \in Nat /\ Chosen \in signing
      /\ [by |-> "clock", time |-> now] \in value
  BY SigningAssumption, ChosenType DEF IInv, TypeOK, UnderWay, Sign, value
<1>2. /\ Timestamped(Chosen, header) = StampedAt(now, AfterContext)
      /\ header' = StampedAt(now, Set(StampedAt(now, AfterContext), {Chosen.hash},
                                      By("hash")))
      /\ signed' = Payload(Chosen, StampedAt(now, AfterContext))
  BY <1>1 DEF Sign, Timestamped, StampedAt
<1>3. StampedAt(now, AfterContext) \in [Names -> value]
  BY <1>1, SetType DEF IInv, TypeOK, StampedAt
<1>4. header' \in [Names -> value]
  BY <1>1, <1>2, <1>3, SetType, ByType DEF StampedAt
<1>5. signed' \in [body : BOOLEAN, time : value, listed : [Names -> value]]
  <2> DEFINE h == StampedAt(now, AfterContext)
  <2>1. h \in [Names -> value] /\ Absent \in value
    BY <1>3, ByType DEF Absent
  <2> HIDE DEF h
  <2>2. Payload(Chosen, h).listed \in [Names -> value]
    BY <2>1 DEF Payload
  <2>3. (IF Chosen.timestamp = NoName THEN Absent ELSE h[Chosen.timestamp]) \in value
    BY <1>1, <2>1 DEF signing
  <2> QED BY <1>2, <2>2, <2>3 DEF Payload, h
<1>6. TypeOK'
  BY <1>1, <1>4, <1>5 DEF IInv, TypeOK, Sign, setup
<1>7. UnderWay'
  BY <1>1 DEF UnderWay
<1>8. Ready(now)'
  <2>1. /\ given' = given /\ server' = server /\ api' = api
        /\ sends' = 0 /\ now' = now
    BY <1>1 DEF Sign, setup
  <2>2. Chosen' = Chosen /\ AfterContext' = AfterContext
    BY <2>1 DEF Chosen, AfterContext, AfterDefault, AfterRequest, AfterApi,
                AfterServer, AfterMdc
  <2>3. Signed' /\ Chosen'.key
    BY <2>2 DEF Sign, Signed
  <2>4. StampedAt(now, AfterContext)' = StampedAt(now, AfterContext)
    BY <2>1, <2>2 DEF StampedAt
  <2>5. Payload(Chosen, StampedAt(now, AfterContext))' = signed'
    BY <1>2, <2>2, <2>4 DEF Payload
  <2>6. Complete(now)' = header'
    BY <1>2, <2>1, <2>2, <2>3 DEF Complete, StampedAt
  <2> QED BY <2>1, <2>3, <2>5, <2>6 DEF Ready
<1>9. \E t \in Nat : Ready(t)'
  <2>1. now' = now
    BY DEF Sign
  <2>2. \A t \in Nat : t = now => Ready(t)'
    BY <1>8, <2>1 DEF Ready, Complete, StampedAt
  <2> QED BY <1>1, <2>2
<1> QED BY <1>6, <1>7, <1>9 DEF IInv

(* Every attempt sends the same request, through the same middleware.      *)
LEMMA SendKeeps == ASSUME IInv, Send PROVE IInv'
<1>1. PICK t \in Nat : Ready(t)
  BY DEF IInv, Send
<1>2. given' = given /\ server' = server /\ api' = api /\ signed' = signed
  BY DEF Send, setup
<1>3. Chosen' = Chosen /\ AfterContext' = AfterContext
  BY <1>2 DEF Chosen, AfterContext, AfterDefault, AfterRequest, AfterApi,
              AfterServer, AfterMdc
<1>4. Signed' = Signed /\ Complete(t)' = Complete(t) /\ Sent(t)' = Sent(t)
  BY <1>2, <1>3 DEF Signed, Complete, StampedAt, Sent
<1>5. StampedAt(t, AfterContext)' = StampedAt(t, AfterContext)
  BY <1>3 DEF StampedAt
<1>6. header' = Sent(t)
  BY <1>1, SetTwice DEF Send, Ready, Sent
<1>7. header' \in [Names -> value]
  BY SetType, ByType DEF IInv, TypeOK, Send
<1>8. TypeOK'
  BY <1>7, SigningAssumption DEF IInv, TypeOK, Send, setup
<1>9. UnderWay'
  BY DEF UnderWay, Send
<1>10. sends' > 0
  BY DEF IInv, TypeOK, Send
<1>11. Payload(Chosen, StampedAt(t, AfterContext))' = Payload(Chosen, StampedAt(t, AfterContext))
  BY <1>3, <1>5 DEF Payload
<1>12. Ready(t)'
  BY <1>1, <1>2, <1>3, <1>4, <1>6, <1>10, <1>11 DEF Ready, Send
<1> QED BY <1>8, <1>9, <1>12 DEF IInv

(* Neither the passing of time nor a stutter touches the request.          *)
LEMMA RestKeeps ==
    ASSUME IInv, \/ Tick
                 \/ UNCHANGED vars
    PROVE  IInv'
<1>1. /\ UNCHANGED <<at, given, server, api, header, signed, sends, received>>
      /\ now' \in 0 .. MaxTime
  BY SigningAssumption DEF IInv, TypeOK, Tick, vars, setup
<1>2. TypeOK'
  BY <1>1 DEF IInv, TypeOK
<1>3. /\ Chosen' = Chosen /\ AfterContext' = AfterContext
      /\ AfterDefault' = AfterDefault /\ AfterRequest' = AfterRequest
      /\ AfterApi' = AfterApi /\ AfterServer' = AfterServer /\ AfterMdc' = AfterMdc
  BY <1>1 DEF Chosen, AfterContext, AfterDefault, AfterRequest, AfterApi, AfterServer,
              AfterMdc
<1>4. UnderWay'
  BY <1>1, <1>3 DEF IInv, UnderWay
<1>5. ASSUME NEW t \in Nat, Ready(t) PROVE Ready(t)'
  BY <1>1, <1>3, <1>5 DEF Ready, Signed, Complete, StampedAt, Sent, Payload
<1> QED BY <1>1, <1>2, <1>4, <1>5 DEF IInv

LEMMA StepKeeps == IInv /\ [Next]_vars => IInv'
BY SourcesKeep, NotInterceptedKeeps, SignFailsKeeps, SignKeeps, SendKeeps, RestKeeps
   DEF Next, Done

(* The invariant that the theorems below rest on.                          *)
THEOREM Invariance == Spec => []IInv
<1> QED BY InitHolds, StepKeeps, PTL DEF Spec

-----------------------------------------------------------------------------
(* Every variable keeps its type.                                          *)
THEOREM TypeCorrectness == Spec => []TypeOK
<1>1. IInv => TypeOK
  BY DEF IInv
<1> QED BY <1>1, Invariance, PTL

(* What is out has been built and, where that was asked for, signed.       *)
LEMMA SentIsReady ==
    ASSUME IInv, sends > 0
    PROVE  at = "send" /\ \E t \in Nat : Ready(t)
<1>1. at = "send"
  BY DEF IInv, UnderWay
<1> QED BY <1>1 DEF IInv

(* The hash a server receives is that of what it receives, on every        *)
(* attempt, if the hash is not asked to cover itself and the application's *)
(* middleware leaves the signed headers alone.                             *)
THEOREM SignaturesVerify == Spec => []SignatureVerifies
<1>1. IInv => SignatureVerifies
  <2> SUFFICES ASSUME IInv, sends > 0, Signed, Verifiable
               PROVE  /\ received[Chosen.hash] = By("hash")
                      /\ Payload(Chosen, received) = signed
    BY DEF SignatureVerifies
  <2>1. PICK t \in Nat : Ready(t)
    BY SentIsReady
  <2>2. Chosen \in signing
    BY ChosenType DEF IInv
  <2> DEFINE h == StampedAt(t, AfterContext)
  <2>3. /\ received = Sent(t)
        /\ signed = Payload(Chosen, h)
    BY <2>1 DEF Ready
  <2>4. /\ Chosen.hash \in Names /\ Chosen.hash # Chosen.timestamp
        /\ Chosen.hash \notin given["client"]
        /\ Chosen.hash \notin Chosen.listed /\ Chosen.listed \subseteq Names
        /\ Chosen.timestamp \in Names \cup {NoName}
    BY <2>2 DEF Verifiable, signing
  <2>5. received[Chosen.hash] = By("hash")
    BY <2>3, <2>4 DEF Sent, Complete, StampedAt, Set
  <2>6. \A n \in Chosen.listed : received[n] = h[n]
    BY <2>3, <2>4 DEF Sent, Complete, StampedAt, Set, Verifiable
  <2>7. Chosen.timestamp # NoName => received[Chosen.timestamp] = h[Chosen.timestamp]
    BY <2>3, <2>4 DEF Sent, Complete, StampedAt, Set, Verifiable
  <2> HIDE DEF h
  <2>8. Payload(Chosen, received) = Payload(Chosen, h)
    BY <2>6, <2>7 DEF Payload
  <2> QED BY <2>3, <2>5, <2>8
<1> QED BY <1>1, Invariance, PTL

(* No request goes out unsigned where a configuration asks for a hash.     *)
THEOREM UnsignedStays == Spec => []NothingUnsigned
<1>1. IInv => NothingUnsigned
  <2> SUFFICES ASSUME IInv, sends > 0,
                      NEW cf \in {server} \cup (IF server.kind = "off" THEN {api} ELSE {}),
                      cf.kind = "hmac"
               PROVE  cf.key /\ signed # Nothing
    BY DEF NothingUnsigned
  <2>1. cf = Chosen
    BY DEF Chosen
  <2>2. PICK t \in Nat : Ready(t)
    BY SentIsReady
  <2>3. Chosen.key /\ signed = Payload(Chosen, StampedAt(t, AfterContext))
    BY <2>1, <2>2 DEF Ready, Signed
  <2>4. signed.body = TRUE /\ Nothing.body = FALSE
    BY <2>3 DEF Payload, Nothing
  <2> QED BY <2>1, <2>3, <2>4
<1> QED BY <1>1, Invariance, PTL

(* Each header comes from the source that goes first.                      *)
THEOREM FirstSourceWins == Spec => []HeaderPrecedence
<1>1. IInv => HeaderPrecedence
  <2> SUFFICES ASSUME IInv, sends > 0, NEW n \in Names
               PROVE  received[n].by = Winner(n)
    BY DEF HeaderPrecedence
  <2>1. PICK t \in Nat : Ready(t)
    BY SentIsReady
  <2>2. received = Sent(t)
    BY <2>1 DEF Ready
  <2>3. AfterContext[n].by =
          IF n \in given["context"] THEN "context"
          ELSE IF n \in given["request"] THEN "request"
          ELSE IF n = ContentType THEN "default"
          ELSE IF n \in given["api"] THEN "api"
          ELSE IF n \in given["server"] THEN "server"
          ELSE IF n \in given["mdc"] THEN "mdc"
          ELSE "absent"
    BY DEF AfterContext, AfterDefault, AfterRequest, AfterApi, AfterServer, AfterMdc,
           NoHeader, Absent, By, Set
  <2>4. Complete(t)[n].by =
          IF Signed /\ n = Chosen.timestamp THEN "clock"
          ELSE IF Signed /\ n = Chosen.hash THEN "hash"
          ELSE AfterContext[n].by
    BY DEF Complete, StampedAt, Set, By
  <2>5. Sent(t)[n].by = IF n \in given["client"] THEN "client" ELSE Complete(t)[n].by
    BY DEF Sent, Set, By
  <2> QED BY <2>2, <2>3, <2>4, <2>5 DEF Winner
<1> QED BY <1>1, Invariance, PTL

(* A retry is the request that was sent before, header by header.          *)
THEOREM RetriesAreTheSame == Spec => RetriesRepeat
<1> DEFINE Same == sends > 0 => received' = received
<1>1. ASSUME IInv, Next PROVE Same
  <2> SUFFICES ASSUME sends > 0 PROVE received' = received
    OBVIOUS
  <2>1. PICK t \in Nat : at = "send" /\ Ready(t)
    BY <1>1, SentIsReady
  <2>2. CASE Send
    BY <2>1, <2>2, SetTwice DEF Send, Ready, Sent
  <2>3. CASE ~Send
    BY <1>1, <2>1, <2>3
       DEF Next, SetMdc, SetServerHeaders, SetApiHeaders, SetRequestHeaders,
           SetDefaultContentType, SetContextHeaders, Apply, NotIntercepted, SignFails,
           Sign, Tick, Done, vars
  <2> QED BY <2>2, <2>3
<1>2. IInv /\ [Next]_vars => [Same]_vars
  BY <1>1
<1> QED BY <1>2, Invariance, PTL DEF Spec, RetriesRepeat
=============================================================================
