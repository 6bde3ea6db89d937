------------------------- MODULE HttpCommandProofs -------------------------
(***************************************************************************)
(* Proofs about HttpCommand, for any set of calls, any retry count (a      *)
(* negative one included), any codes and any number of reloads.            *)
(*                                                                         *)
(* The number of requests a call sends depends on the client's retry       *)
(* count, and that on who ran the block of the sync.Once and when; so IInv *)
(* first pins down the sync.Once (at most one call is inside, whoever is   *)
(* past it finds the whole policy), then relates each call's attempt       *)
(* number to the retry count and its sent requests to the attempt number.  *)
(***************************************************************************)
EXTENDS HttpCommand, TLAPS

Installing == {"install", "installCondition"}

(* The sync.Once.                                                          *)
OnceInv ==
    /\ retryCount # 0 => apiRetryCount >= 0
    /\ once = "done" /\ apiRetryCount >= 0 =>
          condition /\ retryCount = apiRetryCount
    /\ \A c, d \in Calls :
          pc[c] \in Installing /\ pc[d] \in Installing => c = d

OnceInvOf(c) ==
    /\ pc[c] \in Installing => once = "running"
    /\ pc[c] = "installCondition" =>
          apiRetryCount >= 0 /\ retryCount = apiRetryCount
    /\ pc[c] \in Running \cup {"ready"} => once = "done"

Retries == IF apiRetryCount > 0 THEN apiRetryCount ELSE 0

(* The attempts of one call and the requests it sent in them.              *)
SendInv(c) ==
    /\ attempt[c] <= Retries
    /\ sent[c] <= attempt[c] + 1
    /\ pc[c] \in {"idle", "build", "ready", "send"} \cup Installing =>
          sent[c] <= attempt[c]
    /\ pc[c] = "waiting" => attempt[c] < retryCount

(* What SetupDefaults has taken away it will append again.                 *)
CodesInv ==
    /\ codes \cup missing = AcceptableCodes
    /\ reloads = 0 => missing = {}

(* The outcome of one call's latest attempt and its answer.                *)
AnswerInv(c) ==
    /\ got[c].code # 0 => got[c].err = "none"
    /\ pc[c] \in {"idle", "build", "ready", "send", "inflight"} \cup Installing =>
          got[c].code = 0
    /\ pc[c] = "returned" /\ got[c].code # 0 /\ reloads = 0 =>
          (answer[c].err = "server_response_with_error"
              <=> IsError(got[c].code) /\ got[c].code \notin AcceptableCodes)

IInv ==
    /\ TypeOK
    /\ OnceInv
    /\ CodesInv
    /\ \A c \in Calls : OnceInvOf(c) /\ SendInv(c) /\ AnswerInv(c)

USE DEF Goto, policy, config, data

-----------------------------------------------------------------------------
LEMMA InitInv == Init => IInv
<1> SUFFICES ASSUME Init PROVE IInv
  OBVIOUS
<1>1. TypeOK
  <2>1. None \in [code : Codes \cup {0}, err : Errors \cup {"none"}]
    BY DEF None
  <2>2. NoAnswer \in [status : Codes \cup {0, 400, 408}, err : ErrorCodes]
    BY DEF NoAnswer, ErrorCodes
  <2>3. codes \subseteq AcceptableCodes /\ missing \subseteq AcceptableCodes
    BY DEF Init
  <2>4. reloads \in 0 .. MaxReloads
    BY HttpAssumption DEF Init
  <2>5. /\ got \in [Calls -> [code : Codes \cup {0}, err : Errors \cup {"none"}]]
        /\ answer \in [Calls -> [status : Codes \cup {0, 400, 408}, err : ErrorCodes]]
    BY <2>1, <2>2 DEF Init
  <2> QED
    BY <2>3, <2>4, <2>5 DEF Init, TypeOK
<1>2. OnceInv /\ CodesInv
  BY DEF Init, OnceInv, CodesInv, Installing
<1>3. \A c \in Calls : OnceInvOf(c) /\ SendInv(c) /\ AnswerInv(c)
  BY HttpAssumption DEF Init, OnceInvOf, SendInv, AnswerInv, Retries, None,
                        Installing, Running
<1> QED
  BY <1>1, <1>2, <1>3 DEF IInv

(* Every step keeps the types.                                             *)
LEMMA TypeStep ==
    ASSUME TypeOK, [Next]_vars
    PROVE  TypeOK'
<1>0. CASE UNCHANGED vars
  BY <1>0 DEF vars, TypeOK
<1>1. ASSUME NEW c \in Calls, Execute(c) PROVE TypeOK'
  BY <1>1 DEF Execute, TypeOK, Running
<1>2. ASSUME NEW c \in Calls, EnterOnce(c) PROVE TypeOK'
  BY <1>2 DEF EnterOnce, TypeOK, Running
<1>3. ASSUME NEW c \in Calls, InstallRetryCount(c) PROVE TypeOK'
  BY <1>3 DEF InstallRetryCount, TypeOK, Running
<1>4. ASSUME NEW c \in Calls, InstallCondition(c) PROVE TypeOK'
  BY <1>4 DEF InstallCondition, TypeOK, Running
<1>5. ASSUME NEW c \in Calls, InstallNothing(c) PROVE TypeOK'
  BY <1>5 DEF InstallNothing, TypeOK, Running
<1>6. ASSUME NEW c \in Calls, PassOnce(c) PROVE TypeOK'
  BY <1>6 DEF PassOnce, TypeOK, Running
<1>7. ASSUME NEW c \in Calls, BuildFails(c) PROVE TypeOK'
  BY <1>7 DEF BuildFails, TypeOK, Running, ErrorCodes
<1>8. ASSUME NEW c \in Calls, BuildSucceeds(c) PROVE TypeOK'
  BY <1>8 DEF BuildSucceeds, TypeOK, Running
<1>9. ASSUME NEW c \in Calls, Send(c) PROVE TypeOK'
  BY <1>9 DEF Send, TypeOK, Running
<1>10. ASSUME NEW c \in Calls, Reply(c) PROVE TypeOK'
  BY <1>10 DEF Reply, TypeOK, Running, Replied
<1>11. ASSUME NEW c \in Calls, AttemptFails(c) PROVE TypeOK'
  BY <1>11 DEF AttemptFails, TypeOK, Running, Failed, Errors
<1>12. ASSUME NEW c \in Calls, NotSent(c) PROVE TypeOK'
  BY <1>12 DEF NotSent, TypeOK, Running, Failed, Errors
<1>13. ASSUME NEW c \in Calls, Retry(c) PROVE TypeOK'
  BY <1>13 DEF Retry, TypeOK, Running
<1>14. ASSUME NEW c \in Calls, Settle(c) PROVE TypeOK'
  BY <1>14 DEF Settle, TypeOK, Running
<1>15. ASSUME NEW c \in Calls, WaitOver(c) PROVE TypeOK'
  BY <1>15 DEF WaitOver, TypeOK, Running, None
<1>16. ASSUME NEW c \in Calls, WaitCut(c) PROVE TypeOK'
  BY <1>16 DEF WaitCut, TypeOK, Running, Failed, Errors
<1>17. ASSUME NEW c \in Calls, Finish(c) PROVE TypeOK'
  BY <1>17 DEF Finish, TypeOK, Running, handleError, processResponse, ErrorCodes, Errors
<1>18. ASSUME NEW c \in Calls, ContextEnds(c) PROVE TypeOK'
  BY <1>18 DEF ContextEnds, TypeOK, Running
<1>19. ASSUME StartRewrite PROVE TypeOK'
  BY <1>19, HttpAssumption DEF StartRewrite, TypeOK
<1>20. ASSUME AppendCode PROVE TypeOK'
  BY <1>20 DEF AppendCode, TypeOK
<1> QED
  BY <1>0, <1>1, <1>2, <1>3, <1>4, <1>5, <1>6, <1>7, <1>8, <1>9, <1>10, <1>11, <1>12, <1>13, <1>14, <1>15, <1>16, <1>17, <1>18, <1>19, <1>20 DEF Next, Step, Quiescent

(* Every step keeps the sync.Once and the counts.                          *)
LEMMA InvStep ==
    ASSUME IInv, [Next]_vars
    PROVE  OnceInv' /\ \A d \in Calls : OnceInvOf(d)' /\ SendInv(d)'
<1> DEFINE Goal == OnceInv' /\ \A d \in Calls : OnceInvOf(d)' /\ SendInv(d)'
<1> USE HttpAssumption DEF IInv, TypeOK, OnceInv, OnceInvOf, SendInv, Installing, Running, Retries
<1>0. CASE UNCHANGED vars
  BY <1>0 DEF vars
<1>1. ASSUME NEW c \in Calls, Execute(c) PROVE Goal
  BY <1>1 DEF Execute
<1>2. ASSUME NEW c \in Calls, EnterOnce(c) PROVE Goal
  BY <1>2 DEF EnterOnce
<1>3. ASSUME NEW c \in Calls, InstallRetryCount(c) PROVE Goal
  BY <1>3 DEF InstallRetryCount
<1>4. ASSUME NEW c \in Calls, InstallCondition(c) PROVE Goal
  BY <1>4 DEF InstallCondition
<1>5. ASSUME NEW c \in Calls, InstallNothing(c) PROVE Goal
  BY <1>5 DEF InstallNothing
<1>6. ASSUME NEW c \in Calls, PassOnce(c) PROVE Goal
  BY <1>6 DEF PassOnce
<1>7. ASSUME NEW c \in Calls, BuildFails(c) PROVE Goal
  BY <1>7 DEF BuildFails
<1>8. ASSUME NEW c \in Calls, BuildSucceeds(c) PROVE Goal
  BY <1>8 DEF BuildSucceeds
<1>9. ASSUME NEW c \in Calls, Send(c) PROVE Goal
  BY <1>9 DEF Send
<1>10. ASSUME NEW c \in Calls, Reply(c) PROVE Goal
  BY <1>10 DEF Reply
<1>11. ASSUME NEW c \in Calls, AttemptFails(c) PROVE Goal
  BY <1>11 DEF AttemptFails
<1>12. ASSUME NEW c \in Calls, NotSent(c) PROVE Goal
  BY <1>12 DEF NotSent
<1>13. ASSUME NEW c \in Calls, Retry(c) PROVE Goal
  BY <1>13 DEF Retry, MayRetry
<1>14. ASSUME NEW c \in Calls, Settle(c) PROVE Goal
  BY <1>14 DEF Settle, MayRetry
<1>15. ASSUME NEW c \in Calls, WaitOver(c) PROVE Goal
  BY <1>15 DEF WaitOver
<1>16. ASSUME NEW c \in Calls, WaitCut(c) PROVE Goal
  BY <1>16 DEF WaitCut
<1>17. ASSUME NEW c \in Calls, Finish(c) PROVE Goal
  BY <1>17 DEF Finish
<1>18. ASSUME NEW c \in Calls, ContextEnds(c) PROVE Goal
  BY <1>18 DEF ContextEnds
<1>19. ASSUME StartRewrite \/ AppendCode PROVE Goal
  BY <1>19 DEF StartRewrite, AppendCode
<1> QED
  BY <1>0, <1>1, <1>2, <1>3, <1>4, <1>5, <1>6, <1>7, <1>8, <1>9, <1>10, <1>11, <1>12, <1>13, <1>14, <1>15, <1>16, <1>17, <1>18, <1>19 DEF Next, Step, Quiescent

(* processResponse calls a server error exactly the error codes that are   *)
(* not acceptable.                                                         *)
LEMMA ProcessResponseCodes ==
    ASSUME NEW code, NEW acceptable, NEW a \in processResponse(code, acceptable)
    PROVE  a.err = "server_response_with_error"
              <=> IsError(code) /\ code \notin acceptable
<1>1. CASE IsError(code) /\ code \notin acceptable
  BY <1>1 DEF processResponse
<1>2. CASE ~(IsError(code) /\ code \notin acceptable)
  <2>1. a \in [status : {code},
               err : {"none", "failed_to_build_response_using_response_builder"}]
    BY <1>2 DEF processResponse
  <2>2. a.err \in {"none", "failed_to_build_response_using_response_builder"}
    BY <2>1
  <2> QED
    BY <1>2, <2>2
<1> QED
  BY <1>1, <1>2

(* Every step keeps the codes and the answers.                             *)
LEMMA AnswerStep ==
    ASSUME IInv, [Next]_vars
    PROVE  CodesInv' /\ \A d \in Calls : AnswerInv(d)'
<1> DEFINE Goal == CodesInv' /\ \A d \in Calls : AnswerInv(d)'
<1> USE HttpAssumption DEF IInv, TypeOK, CodesInv, AnswerInv, Installing, Running
<1>0. CASE UNCHANGED vars
  BY <1>0 DEF vars
<1>1. ASSUME NEW c \in Calls, Execute(c) PROVE Goal
  BY <1>1 DEF Execute
<1>2. ASSUME NEW c \in Calls, EnterOnce(c) PROVE Goal
  BY <1>2 DEF EnterOnce
<1>3. ASSUME NEW c \in Calls, InstallRetryCount(c) PROVE Goal
  BY <1>3 DEF InstallRetryCount
<1>4. ASSUME NEW c \in Calls, InstallCondition(c) PROVE Goal
  BY <1>4 DEF InstallCondition
<1>5. ASSUME NEW c \in Calls, InstallNothing(c) PROVE Goal
  BY <1>5 DEF InstallNothing
<1>6. ASSUME NEW c \in Calls, PassOnce(c) PROVE Goal
  BY <1>6 DEF PassOnce
<1>7. ASSUME NEW c \in Calls, BuildFails(c) PROVE Goal
  BY <1>7 DEF BuildFails
<1>8. ASSUME NEW c \in Calls, BuildSucceeds(c) PROVE Goal
  BY <1>8 DEF BuildSucceeds
<1>9. ASSUME NEW c \in Calls, Send(c) PROVE Goal
  BY <1>9 DEF Send
<1>10. ASSUME NEW c \in Calls, Reply(c) PROVE Goal
  BY <1>10 DEF Reply, Replied
<1>11. ASSUME NEW c \in Calls, AttemptFails(c) PROVE Goal
  BY <1>11 DEF AttemptFails, Failed
<1>12. ASSUME NEW c \in Calls, NotSent(c) PROVE Goal
  BY <1>12 DEF NotSent, Failed
<1>13. ASSUME NEW c \in Calls, Retry(c) PROVE Goal
  BY <1>13 DEF Retry
<1>14. ASSUME NEW c \in Calls, Settle(c) PROVE Goal
  BY <1>14 DEF Settle
<1>15. ASSUME NEW c \in Calls, WaitOver(c) PROVE Goal
  BY <1>15 DEF WaitOver, None
<1>16. ASSUME NEW c \in Calls, WaitCut(c) PROVE Goal
  BY <1>16 DEF WaitCut, Failed
<1>17. ASSUME NEW c \in Calls, Finish(c) PROVE Goal
  <2>1. CodesInv' /\ got' = got /\ reloads' = reloads
    BY <1>17 DEF Finish
  <2>2. \A d \in Calls \ {c} : AnswerInv(d)'
    BY <1>17 DEF Finish
  <2>3. ASSUME got[c].code # 0, reloads = 0
        PROVE  answer'[c].err = "server_response_with_error"
                  <=> IsError(got[c].code) /\ got[c].code \notin AcceptableCodes
    <3>1. codes = AcceptableCodes /\ got[c].err = "none"
      BY <2>3
    <3>2. answer'[c] \in processResponse(got[c].code, AcceptableCodes)
      BY <1>17, <3>1 DEF Finish
    <3> QED
      BY <3>2, ProcessResponseCodes
  <2>4. AnswerInv(c)'
    BY <1>17, <2>1, <2>3 DEF Finish
  <2> QED
    BY <2>1, <2>2, <2>4
<1>18. ASSUME NEW c \in Calls, ContextEnds(c) PROVE Goal
  BY <1>18 DEF ContextEnds
<1>19. ASSUME StartRewrite \/ AppendCode PROVE Goal
  BY <1>19 DEF StartRewrite, AppendCode
<1> QED
  BY <1>0, <1>1, <1>2, <1>3, <1>4, <1>5, <1>6, <1>7, <1>8, <1>9, <1>10, <1>11, <1>12, <1>13, <1>14, <1>15, <1>16, <1>17, <1>18, <1>19 DEF Next, Step, Quiescent

-----------------------------------------------------------------------------
THEOREM Invariance == Spec => []IInv
<1>1. IInv /\ [Next]_vars => IInv'
  BY TypeStep, InvStep, AnswerStep DEF IInv
<1> QED
  BY <1>1, InitInv, PTL DEF Spec

(* The variables keep their types for every retry count and every set of   *)
(* codes.                                                                  *)
THEOREM TypeCorrectness == Spec => []TypeOK
<1>1. IInv => TypeOK
  BY DEF IInv
<1> QED
  BY <1>1, Invariance, PTL

(* No call sends more than 1 + max(api.RetryCount, 0) requests.            *)
THEOREM SendsAreBounded == Spec => []BoundedSends
<1>1. IInv => BoundedSends
  BY HttpAssumption DEF IInv, BoundedSends, SendInv, Retries, TypeOK
<1> QED
  BY <1>1, Invariance, PTL

(* Whoever sends has the whole retry policy installed.                     *)
THEOREM PolicyIsInstalled == Spec => []PolicyBeforeSend
<1>1. IInv => PolicyBeforeSend
  BY DEF IInv, PolicyBeforeSend, OnceInv, OnceInvOf
<1> QED
  BY <1>1, Invariance, PTL

(* Without a reload error answers and accepted replies agree with the      *)
(* configured codes.                                                       *)
THEOREM CodesDecide == Spec => []AnswerFollowsCodes
<1>1. IInv => AnswerFollowsCodes
  BY DEF IInv, AnswerFollowsCodes, AnswerInv
<1> QED
  BY <1>1, Invariance, PTL

(* An acceptable reply is sent again only while the codes are rewritten.   *)
THEOREM AcceptableEndsTheCall == Spec => AcceptableIsFinal
<1>1. ASSUME IInv, [Next]_vars, NEW c \in Calls,
             pc[c] = "judge", pc'[c] = "waiting", got[c].code \in AcceptableCodes
      PROVE  missing # {}
  <2>1. Retry(c)
    <3>1. ASSUME NEW d \in Calls,
             \/ Execute(d) \/ EnterOnce(d) \/ InstallRetryCount(d)
             \/ InstallCondition(d) \/ InstallNothing(d) \/ PassOnce(d)
             \/ BuildFails(d) \/ BuildSucceeds(d) \/ Send(d) \/ Reply(d)
             \/ AttemptFails(d) \/ NotSent(d) \/ Settle(d) \/ WaitOver(d)
             \/ WaitCut(d) \/ Finish(d)
          PROVE FALSE
      <4>1. \E from, to : Goto(d, from, to) /\ to # "waiting"
        BY <3>1 DEF Execute, EnterOnce, InstallRetryCount, InstallCondition,
           InstallNothing, PassOnce, BuildFails, BuildSucceeds, Send, Reply,
           AttemptFails, NotSent, Settle, WaitOver, WaitCut, Finish
      <4> QED
        BY <1>1, <4>1 DEF IInv, TypeOK
    <3>2. ASSUME NEW d \in Calls, ContextEnds(d) PROVE FALSE
      BY <1>1, <3>2 DEF ContextEnds
    <3>3. ASSUME StartRewrite \/ AppendCode \/ UNCHANGED vars PROVE FALSE
      BY <1>1, <3>3 DEF StartRewrite, AppendCode, vars
    <3>4. PICK d \in Calls : Retry(d)
      BY <1>1, <3>1, <3>2, <3>3 DEF Next, Step, Quiescent
    <3> QED
      BY <1>1, <3>4 DEF Retry, IInv, TypeOK
  <2>2. condition
    BY <1>1, <2>1 DEF Retry, MayRetry, IInv, OnceInv, OnceInvOf, Running
  <2>3. got[c].code \notin codes
    BY <2>1, <2>2 DEF Retry, MayRetry, WantsRetry
  <2> QED
    BY <1>1, <2>3 DEF IInv, CodesInv
<1>2. IInv /\ [Next]_vars =>
        [\A c \in Calls :
           pc[c] = "judge" /\ pc'[c] = "waiting" /\ got[c].code \in AcceptableCodes
              => missing # {}]_vars
  BY <1>1
<1> QED
  BY <1>2, Invariance, PTL DEF Spec, AcceptableIsFinal

-----------------------------------------------------------------------------
(* Liveness.  The provers cannot expand ENABLED, which WF_ contains.  In   *)
(* its place stands the guard of Step: a call that is on its way waits for *)
(* nothing but the sync.Once, while another call is inside.                *)
CanStep(c) ==
    /\ pc[c] \notin {"idle", "returned"}
    /\ pc[c] = "build" => once # "running"

FairCall(c) == []<>~CanStep(c) \/ []<><<Step(c)>>_vars

GuardedFairness == \A c \in Calls : FairCall(c)

(* Where a call may go within one attempt.                                 *)
After == [build |-> {"install", "ready"},
          install |-> {"installCondition", "ready"},
          installCondition |-> {"ready"},
          ready |-> {"send", "returned"},
          send |-> {"inflight", "judge"},
          inflight |-> {"judge"},
          judge |-> {"waiting", "finish"},
          waiting |-> {"finish"},
          finish |-> {"returned"}]

Stages == {"build", "install", "installCondition", "ready"} \cup Running

At(c, n, v) == pc[c] = v /\ attempt[c] = n
Going(c, n) == pc[c] \in Stages /\ attempt[c] = n
Returned(c) == pc[c] = "returned"

(* How the attempt n of a call ends.                                       *)
Over(c, n) == Returned(c) \/ Going(c, n + 1)

Inside(c) == pc[c] \in Installing
Run == once = "running"
Done == once = "done"

(* While the block of the sync.Once runs, a call is inside to end it.      *)
SomebodyInside == Run => \E c \in Calls : Inside(c)

LInv == IInv /\ SomebodyInside

(* One step of a call: on within its attempt, or to the next one.          *)
Ahead(c) ==
    \/ pc[c] \in Stages /\ pc'[c] \in After[pc[c]] /\ attempt'[c] = attempt[c]
    \/ pc[c] = "waiting" /\ pc'[c] = "send" /\ attempt'[c] = attempt[c] + 1

(* A step of a call leads ahead, out of the block or further in it.        *)
LEMMA StepLeads ==
    ASSUME TypeOK, NEW c \in Calls, Step(c) \/ Reply(c)
    PROVE  Ahead(c) /\ (Inside(c) => pc'[c] = "installCondition" \/ Done')
<1> USE DEF TypeOK, Ahead, After, Stages, Running, Inside, Installing, Done
<1> DEFINE Good == Ahead(c) /\ (Inside(c) => pc'[c] = "installCondition" \/ Done')
<1>1. CASE EnterOnce(c) \/ PassOnce(c)
  BY <1>1 DEF EnterOnce, PassOnce
<1>2. CASE InstallRetryCount(c) \/ InstallCondition(c) \/ InstallNothing(c)
  BY <1>2 DEF InstallRetryCount, InstallCondition, InstallNothing
<1>3. CASE BuildFails(c) \/ BuildSucceeds(c)
  BY <1>3 DEF BuildFails, BuildSucceeds
<1>4. CASE Send(c) \/ NotSent(c)
  BY <1>4 DEF Send, NotSent
<1>5. CASE Reply(c) \/ AttemptFails(c)
  BY <1>5 DEF Reply, AttemptFails
<1>6. CASE Retry(c) \/ Settle(c)
  BY <1>6 DEF Retry, Settle
<1>7. CASE WaitOver(c) \/ WaitCut(c)
  BY <1>7 DEF WaitOver, WaitCut
<1>8. CASE Finish(c)
  BY <1>8 DEF Finish
<1> QED BY <1>1, <1>2, <1>3, <1>4, <1>5, <1>6, <1>7, <1>8 DEF Step

(* Nobody else moves a call that is on its way.                            *)
LEMMA OthersLeave ==
    ASSUME TypeOK, [Next]_vars, NEW c \in Calls, pc[c] # "idle"
    PROVE  \/ pc'[c] = pc[c] /\ attempt'[c] = attempt[c]
           \/ Step(c) \/ Reply(c)
<1> DEFINE Same == pc'[c] = pc[c] /\ attempt'[c] = attempt[c]
<1> USE DEF TypeOK
<1>1. ASSUME NEW d \in Calls, d # c, Step(d) \/ Reply(d) PROVE Same
  BY <1>1 DEF Step, Reply, EnterOnce, PassOnce, InstallRetryCount, InstallCondition,
              InstallNothing, BuildFails, BuildSucceeds, Send, NotSent, AttemptFails,
              Retry, Settle, WaitOver, WaitCut, Finish
<1>2. ASSUME NEW d \in Calls, Execute(d) PROVE Same
  BY <1>2 DEF Execute
<1>3. ASSUME NEW d \in Calls, ContextEnds(d) PROVE Same
  BY <1>3 DEF ContextEnds
<1>4. StartRewrite \/ AppendCode \/ UNCHANGED vars => Same
  BY DEF StartRewrite, AppendCode, vars
<1> QED BY <1>1, <1>2, <1>3, <1>4 DEF Next, Quiescent

(* The sync.Once is done for good, and only run by a call that is inside.  *)
LEMMA OnceMoves ==
    ASSUME TypeOK, [Next]_vars
    PROVE  \/ once' = once
           \/ once' = "done"
           \/ once = "open" /\ once' = "running" /\ \E c \in Calls : Inside(c)'
<1> DEFINE Moved == \/ once' = once
                    \/ once' = "done"
                    \/ once = "open" /\ once' = "running" /\ \E c \in Calls : Inside(c)'
<1> USE DEF Inside, Installing
<1>1. ASSUME NEW d \in Calls, EnterOnce(d) PROVE Moved
  BY <1>1 DEF EnterOnce, TypeOK
<1>2. ASSUME NEW d \in Calls, InstallCondition(d) \/ InstallNothing(d) PROVE Moved
  BY <1>2 DEF InstallCondition, InstallNothing
<1>3. ASSUME NEW d \in Calls, Step(d) \/ Reply(d) \/ Execute(d) \/ ContextEnds(d),
             ~EnterOnce(d), ~InstallCondition(d), ~InstallNothing(d)
      PROVE  once' = once
  BY <1>3 DEF Step, Reply, Execute, ContextEnds, PassOnce, InstallRetryCount,
              BuildFails, BuildSucceeds, Send, NotSent, AttemptFails,
              Retry, Settle, WaitOver, WaitCut, Finish
<1>4. StartRewrite \/ AppendCode \/ UNCHANGED vars => once' = once
  BY DEF StartRewrite, AppendCode, vars
<1> QED BY <1>1, <1>2, <1>3, <1>4 DEF Next, Quiescent

(* What the API configures stays while the client lives.                   *)
LEMMA ApiStays ==
    ASSUME [Next]_vars
    PROVE  apiRetryCount' = apiRetryCount
BY DEF Next, Step, Reply, Execute, EnterOnce, PassOnce, InstallRetryCount, InstallCondition,
       InstallNothing, BuildFails, BuildSucceeds, Send, NotSent, AttemptFails, Retry, Settle,
       WaitOver, WaitCut, Finish, ContextEnds, StartRewrite, AppendCode, Quiescent, vars

(* The block is left by a call that is inside, and entered by one.         *)
LEMMA BlockHasSomebody ==
    ASSUME LInv, [Next]_vars
    PROVE  SomebodyInside'
<1> USE DEF SomebodyInside, Run, Done
<1> SUFFICES ASSUME Run' PROVE (\E c \in Calls : Inside(c))'
  OBVIOUS
<1>1. CASE once' = once
  <2>1. PICK c \in Calls : Inside(c)
    BY <1>1 DEF LInv
  <2>2. Inside(c)'
    BY <1>1, <2>1, OthersLeave, StepLeads DEF LInv, IInv, Inside, Installing, TypeOK
  <2> QED BY <2>2
<1> QED BY <1>1, OnceMoves DEF LInv, IInv

(* LInv holds whatever the fairness.                                       *)
LEMMA LivenessInvariance == Init /\ [][Next]_vars => []LInv
<1>1. Init => LInv
  BY InitInv DEF LInv, SomebodyInside, Run, Init
<1>2. LInv /\ [Next]_vars => LInv'
  BY BlockHasSomebody, TypeStep, InvStep, AnswerStep DEF LInv, IInv
<1> QED BY <1>1, <1>2, PTL

(* A call that is inside the block ends it.                                *)
LEMMA InstallationEnds ==
    ASSUME NEW c \in Calls
    PROVE  []LInv /\ [][Next]_vars /\ FairCall(c) => (Inside(c) ~> Done)
<1> DEFINE Half == pc[c] = "installCondition"
<1>1. LInv /\ [Next]_vars => (Inside(c) => Inside(c)' \/ Done') /\ (Half => Half' \/ Done')
  <2> SUFFICES ASSUME LInv, [Next]_vars, Inside(c)
               PROVE  (Inside(c)' \/ Done') /\ (Half => Half' \/ Done')
    BY DEF Inside, Installing
  <2> QED BY OthersLeave, StepLeads DEF LInv, IInv, Inside, Installing
<1>2. Inside(c) => CanStep(c)
  BY DEF Inside, Installing, CanStep
<1>3. LInv /\ Inside(c) /\ <<Step(c)>>_vars => Half' \/ Done'
  BY StepLeads DEF LInv, IInv
<1>4. LInv /\ Half /\ <<Step(c)>>_vars => Done'
  BY StepLeads DEF LInv, IInv, Inside, Installing, Ahead, After, Stages, Running
<1>5. Half => Inside(c)
  BY DEF Inside, Installing
<1> HIDE DEF Half
<1> QED BY <1>1, <1>2, <1>3, <1>4, <1>5, PTL DEF FairCall

(* Whoever runs the block of the sync.Once, it is over at last.            *)
LEMMA OnceIsDone ==
    []LInv /\ [][Next]_vars /\ GuardedFairness => [](Run => <>Done)
<1>1. ASSUME NEW c \in Calls
      PROVE  []LInv /\ [][Next]_vars /\ GuardedFairness => [](Inside(c) => <>Done)
  <2>1. GuardedFairness => FairCall(c)
    BY DEF GuardedFairness
  <2> QED BY <2>1, InstallationEnds, PTL
<1>2. []LInv /\ [][Next]_vars /\ GuardedFairness
        => \A c \in Calls : [](Inside(c) => <>Done)
  BY <1>1
<1>3. (\A c \in Calls : [](Inside(c) => <>Done)) => [](\A c \in Calls : (Inside(c) => <>Done))
  OBVIOUS
<1>4. LInv /\ Run => \E c \in Calls : Inside(c)
  BY DEF LInv, SomebodyInside
<1>5. (\A c \in Calls : (Inside(c) => <>Done)) => ((\E c \in Calls : Inside(c)) => <>Done)
  OBVIOUS
<1> QED BY <1>2, <1>3, <1>4, <1>5, PTL

(* What follows stage v of attempt n.                                      *)
Onward(c, n, v) ==
    \/ \E w \in After[v] : At(c, n, w)
    \/ v = "waiting" /\ Going(c, n + 1)

(* A step in a stage leads on, and nothing but such a step leaves it.      *)
LEMMA StageMoves ==
    ASSUME TypeOK, NEW c \in Calls, NEW n \in Nat, NEW v \in Stages, At(c, n, v)
    PROVE  /\ [Next]_vars => At(c, n, v)' \/ Onward(c, n, v)'
           /\ Step(c) => Onward(c, n, v)'
<1>1. pc[c] # "idle"
  BY DEF At, Stages, Running
<1>2. Step(c) \/ Reply(c) => Onward(c, n, v)'
  BY StepLeads DEF At, Ahead, Going, Stages, Running, Onward
<1> QED BY <1>1, <1>2, OthersLeave DEF At

(* Every stage is left: the first waits for the sync.Once, which is done   *)
(* at last, the others for nothing.                                        *)
LEMMA StageEnds ==
    ASSUME NEW c \in Calls, NEW n \in Nat, NEW v \in Stages
    PROVE  []LInv /\ [][Next]_vars /\ GuardedFairness
              => (At(c, n, v) ~> Onward(c, n, v))
<1>1. GuardedFairness => FairCall(c)
  BY DEF GuardedFairness
<1>2. LInv /\ [Next]_vars => (At(c, n, v) => At(c, n, v)' \/ Onward(c, n, v)')
  BY StageMoves DEF LInv, IInv
<1>3. LInv /\ At(c, n, v) /\ <<Step(c)>>_vars => Onward(c, n, v)'
  BY StageMoves DEF LInv, IInv
<1>4. At(c, n, v) /\ ~Run => CanStep(c)
  BY DEF At, Run, CanStep, Stages, Running
<1>5. LInv /\ [Next]_vars => (Done => Done')
  <2> SUFFICES ASSUME LInv, [Next]_vars, Done PROVE Done'
    OBVIOUS
  <2> QED BY OnceMoves DEF LInv, IInv, Done
<1>6. Done => ~Run
  BY DEF Done, Run
<1> QED BY <1>1, <1>2, <1>3, <1>4, <1>5, <1>6, OnceIsDone, PTL DEF FairCall

(* Every attempt ends: the call returns, or goes on with the next attempt. *)
LEMMA AttemptEnds ==
    ASSUME NEW c \in Calls, NEW n \in Nat
    PROVE  []LInv /\ [][Next]_vars /\ GuardedFairness => (Going(c, n) ~> Over(c, n))
<1> DEFINE Left(v) == []LInv /\ [][Next]_vars /\ GuardedFairness
                        => (At(c, n, v) ~> Onward(c, n, v))
<1>1. \A v \in Stages : Left(v)
  BY StageEnds
<1>2. /\ Left("build") /\ Left("install") /\ Left("installCondition")
      /\ Left("ready") /\ Left("send") /\ Left("inflight")
      /\ Left("judge") /\ Left("waiting") /\ Left("finish")
  <2> HIDE DEF Left
  <2> QED BY <1>1 DEF Stages, Running
<1>3. /\ Onward(c, n, "build") => At(c, n, "install") \/ At(c, n, "ready")
      /\ Onward(c, n, "install") => At(c, n, "installCondition") \/ At(c, n, "ready")
      /\ Onward(c, n, "installCondition") => At(c, n, "ready")
      /\ Onward(c, n, "ready") => At(c, n, "send") \/ Over(c, n)
      /\ Onward(c, n, "send") => At(c, n, "inflight") \/ At(c, n, "judge")
      /\ Onward(c, n, "inflight") => At(c, n, "judge")
      /\ Onward(c, n, "judge") => At(c, n, "waiting") \/ At(c, n, "finish")
      /\ Onward(c, n, "waiting") => At(c, n, "finish") \/ Over(c, n)
      /\ Onward(c, n, "finish") => Over(c, n)
  BY DEF Onward, After, At, Over, Returned
<1>4. Going(c, n) =>
         \/ At(c, n, "build") \/ At(c, n, "install") \/ At(c, n, "installCondition")
         \/ At(c, n, "ready") \/ At(c, n, "send") \/ At(c, n, "inflight")
         \/ At(c, n, "judge") \/ At(c, n, "waiting") \/ At(c, n, "finish")
  BY DEF Going, At, Stages, Running
<1> QED BY <1>2, <1>3, <1>4, PTL

(* Every attempt of every call ends, though the server never reply and     *)
(* whoever installs the policy: it is answered or followed by the next.    *)
THEOREM EveryAttemptEnds ==
    Init /\ [][Next]_vars /\ GuardedFairness =>
        \A c \in Calls, n \in Nat : Going(c, n) ~> Returned(c) \/ Going(c, n + 1)
<1> SUFFICES ASSUME NEW c \in Calls, NEW n \in Nat
             PROVE  Init /\ [][Next]_vars /\ GuardedFairness => (Going(c, n) ~> Over(c, n))
  BY DEF Over
<1> QED BY AttemptEnds, LivenessInvariance, PTL

(* The attempt of the last retry returns, and so does every call of an API *)
(* that has no retries.                                                    *)
THEOREM LastAttemptReturns ==
    Init /\ [][Next]_vars /\ GuardedFairness =>
        \A c \in Calls, n \in Nat : Going(c, n) /\ Retries = n ~> Returned(c)
<1> SUFFICES ASSUME NEW c \in Calls, NEW n \in Nat
             PROVE  Init /\ [][Next]_vars /\ GuardedFairness
                       => (Going(c, n) /\ Retries = n ~> Returned(c))
  OBVIOUS
<1>1. [Next]_vars => (Retries = n => (Retries = n)')
  BY ApiStays DEF Retries
<1>2. LInv /\ Retries = n => ~Going(c, n + 1)
  BY DEF LInv, IInv, SendInv, Going, TypeOK
<1> QED BY <1>1, <1>2, AttemptEnds, LivenessInvariance, PTL DEF Over
=============================================================================
