-------------------------- MODULE ChatProxyProofs --------------------------
(***************************************************************************)
(* Proofs about the handlers of the proxy, for every set of requests,      *)
(* every policy and every reply of the LLM: the LLM and the data connector *)
(* are invoked only for what the policy allows, each effect has its        *)
(* evidence and a rule of the deployed text behind it, calls are executed  *)
(* once and in turn, a reply that is not streamed is delivered without the *)
(* forbidden calls and with all others, and the counters add up.           *)
(***************************************************************************)
EXTENDS ProxyPipeline, FiniteSetTheorems, TLAPS

USE DEF inputs, filter, world

StepOf(r) == Arrive(r) \/ Handler(r) \/ Peer(r) \/ Disconnect(r)

-----------------------------------------------------------------------------
\* The building blocks of the actions keep the types of what they assign.
LEMMA MoveType ==
    ASSUME TypeOK, NEW r \in Requests, NEW l \in PCs, Move(r, l)
    PROVE  pc' \in [Requests -> PCs]
BY DEF TypeOK, Move

\* An answer ends the handler and is one of the outcomes.
LEMMA ReplyType ==
    ASSUME TypeOK, NEW r \in Requests, NEW o \in Outcomes, Reply(r, o)
    PROVE  pc' \in [Requests -> PCs] /\ reply' \in [Requests -> Outcomes \cup {"none"}]
BY DEF TypeOK, Reply, Move, PCs

\* A counter stays a counter.
LEMMA BumpType ==
    ASSUME TypeOK, NEW c \in Counters, Bump(c)
    PROVE  metrics' \in [Counters -> Nat]
BY DEF TypeOK, Bump

\* The filter's position stays a pair of numbers.
LEMMA AtType ==
    ASSUME TypeOK, NEW r \in Requests,
           NextCallOf(r) \/ NextChoiceOf(r) \/ at' = at \/ at' = [at EXCEPT ![r] = <<1, 1>>]
    PROVE  at' \in [Requests -> Nat \X Nat]
<1>1. at \in [Requests -> Nat \X Nat] /\ at[r] \in Nat \X Nat
  BY DEF TypeOK
<1>2. at[r][1] \in Nat /\ at[r][2] \in Nat
  BY <1>1
<1>3. <<at[r][1], at[r][2] + 1>> \in Nat \X Nat /\ <<at[r][1] + 1, 1>> \in Nat \X Nat
  BY <1>2
<1>4. CASE NextCallOf(r)
  BY <1>1, <1>3, <1>4 DEF NextCallOf
<1>5. CASE NextChoiceOf(r)
  BY <1>1, <1>3, <1>5 DEF NextChoiceOf
<1>6. CASE at' = [at EXCEPT ![r] = <<1, 1>>]
  BY <1>1, <1>6
<1> QED
  BY <1>1, <1>4, <1>5, <1>6

\* Keeping a call, and moving on, keeps the types.
LEMMA KeepType ==
    ASSUME TypeOK, NEW r \in Requests, ask[r] \in Tools, Keep(r)
    PROVE  /\ kept' \in [Requests -> Seq(Tools)]
           /\ at' \in [Requests -> Nat \X Nat]
           /\ pc' \in [Requests -> PCs]
<1>1. kept' \in [Requests -> Seq(Tools)]
  BY DEF Keep, TypeOK
<1>2. at' \in [Requests -> Nat \X Nat]
  BY AtType DEF Keep
<1>3. pc' \in [Requests -> PCs]
  BY MoveType DEF Keep, PCs
<1> QED
  BY <1>1, <1>2, <1>3

\* What the LLM answers is a sequence of choices.
LEMMA AnswerType ==
    ASSUME TypeOK, NEW r \in Requests, NEW a \in Answers, answer' = [answer EXCEPT ![r] = a]
    PROVE  answer' \in [Requests -> Seq(Seq(Tools) \cup {NoCalls})]
BY ConstantsOK DEF TypeOK

\* A choice the filter stands at is a choice of the reply, and a call of it a
\* tool call.
LEMMA ChoiceType ==
    ASSUME TypeOK, HandlerInv, NEW r \in Requests, AtChoice(r), Choice(r) # NoCalls
    PROVE  /\ Choice(r) \in Seq(Tools)
           /\ at[r][2] <= Len(Choice(r)) => Choice(r)[at[r][2]] \in Tools
<1>1. at[r] \in Nat \X Nat /\ at[r][1] >= 1 /\ at[r][2] >= 1
  BY DEF TypeOK, HandlerInv, AskInv, AtChoice
<1>2. answer[r] \in Seq(Seq(Tools) \cup {NoCalls}) /\ at[r][1] \in 1..Len(answer[r])
  BY <1>1 DEF TypeOK, AtChoice
<1>3. answer[r][at[r][1]] \in Seq(Tools) \cup {NoCalls}
  BY <1>2
<1> QED
  BY <1>1, <1>3 DEF Choice

-----------------------------------------------------------------------------
\* Every step of a handler keeps the type invariant; a query under check is a
\* query and a kept call a tool call because of HandlerInv.
LEMMA TypePreserved ==
    ASSUME TypeOK, HandlerInv, NEW r \in Requests, StepOf(r)
    PROVE  TypeOK'
<1>h. FreshInv(r) /\ AskInv(r) /\ VerdictInv(r)
  BY DEF HandlerInv
<1>v. ASSUME NEW p \in Principals, NEW q \in Queries
      PROVE  Policy[p][q] \in {"ALLOW", "DENY", "ERROR"}
  BY ConstantsOK DEF Effects
<1>1. CASE Arrive(r)
  <2>1. PICK k \in Routes, p \in Principals, s \in StreamFlags : \E q \in Asks(k) :
          /\ kind' = [kind EXCEPT ![r] = k]
          /\ who' = [who EXCEPT ![r] = p]
          /\ prompt' = [prompt EXCEPT ![r] = q]
          /\ ask' = [ask EXCEPT ![r] = q]
          /\ streaming' = [streaming EXCEPT ![r] = s]
          /\ Move(r, IF k = "check" THEN "count" ELSE "auth")
    BY <1>1 DEF Arrive
  <2>q. PICK q \in Asks(k) :
          /\ kind' = [kind EXCEPT ![r] = k]
          /\ who' = [who EXCEPT ![r] = p]
          /\ prompt' = [prompt EXCEPT ![r] = q]
          /\ ask' = [ask EXCEPT ![r] = q]
          /\ streaming' = [streaming EXCEPT ![r] = s]
    BY <2>1
  <2>2. k \in Kinds /\ s \in BOOLEAN /\ q \in Queries \cup {NoIntent}
    BY ConstantsOK DEF Asks, Queries, Intents, Kinds
  <2>3. pc' \in [Requests -> PCs]
    BY <2>1, MoveType DEF PCs
  <2>4. UNCHANGED <<executes, listening, effect, filter, reply, world, audit, metrics>>
    BY <1>1 DEF Arrive
  <2> QED
    BY <2>q, <2>2, <2>3, <2>4 DEF TypeOK
<1>2. CASE Authenticate(r)
  <2>1. pc' \in [Requests -> PCs] /\ reply' \in [Requests -> Outcomes \cup {"none"}]
    BY <1>2, MoveType, ReplyType DEF Authenticate, PCs, Outcomes, TypeOK
  <2> QED
    BY <1>2, <2>1 DEF Authenticate, TypeOK
<1>3. CASE RefuseToBind(r)
  BY <1>3, ReplyType DEF RefuseToBind, TypeOK, Outcomes
<1>4. CASE CountCheck(r)
  <2>1. pc' \in [Requests -> PCs] /\ metrics' \in [Counters -> Nat]
    BY <1>4, MoveType, BumpType DEF CountCheck, PCs, Counters
  <2> QED
    BY <1>4, <2>1 DEF CountCheck, TypeOK
<1>5. CASE EngineCheck(r)
  <2> DEFINE v == Verdict(who[r], ask[r])
  <2>1. ask[r] \in Queries /\ who[r] \in Principals
    BY <1>5, <1>h DEF EngineCheck, AskInv, FreshInv
  <2>2. v \in {"ALLOW", "DENY", "ERROR", "NOT_READY"}
    BY <2>1, <1>v DEF Verdict
  <2>3. effect' \in [Requests -> Effects \cup {"ERROR", "NOT_READY", "none"}]
    BY <1>5, <2>2 DEF EngineCheck, TypeOK, Effects
  <2>4. pc' \in [Requests -> PCs] /\ reply' \in [Requests -> Outcomes \cup {"none"}]
    <3>1. "tally" \in PCs
      BY DEF PCs
    <3>2. Refusal(v) \in Outcomes /\ "ok" \in Outcomes /\ "forbidden" \in Outcomes
      BY DEF Refusal, Outcomes
    <3>3. \/ Reply(r, Refusal(v)) \/ Reply(r, "ok") \/ Reply(r, "forbidden")
          \/ Move(r, "tally") /\ UNCHANGED reply
      BY <1>5 DEF EngineCheck, AllowOrForbid
    <3> QED
      BY <3>1, <3>2, <3>3, MoveType, ReplyType DEF TypeOK
  <2>5. audit' \subseteq AuditEntry
    <3>1. ASSUME v \in Effects
          PROVE  [req |-> r, at |-> at[r], ask |-> ask[r], effect |-> v] \in AuditEntry
      BY <2>1, <3>1 DEF AuditEntry, TypeOK
    <3> QED
      BY <1>5, <3>1 DEF EngineCheck, Enqueue, TypeOK
  <2> QED
    BY <1>5, <2>3, <2>4, <2>5 DEF EngineCheck, TypeOK
<1>6. CASE DirectCheck(r)
  <2> DEFINE v == Policy[who[r]][ask[r]]
  <2>1. ask[r] \in Queries /\ who[r] \in Principals
    BY <1>6, <1>h DEF DirectCheck, AskInv, FreshInv
  <2>2. v \in {"ALLOW", "DENY", "ERROR"}
    BY <2>1, <1>v
  <2>3. effect' \in [Requests -> Effects \cup {"ERROR", "NOT_READY", "none"}]
    BY <1>6, <2>2 DEF DirectCheck, TypeOK, Effects
  <2>4. pc' \in [Requests -> PCs] /\ reply' \in [Requests -> Outcomes \cup {"none"}]
    <3>1. "dispatch" \in PCs /\ {"ok", "forbidden", "bad_request"} \subseteq Outcomes
      BY DEF PCs, Outcomes
    <3>2. \/ Reply(r, "bad_request") \/ Reply(r, "ok") \/ Reply(r, "forbidden")
          \/ Move(r, "dispatch") /\ UNCHANGED reply
      BY <1>6 DEF DirectCheck, McpDecided, A2aDecided
    <3> QED
      BY <3>1, <3>2, MoveType, ReplyType DEF TypeOK
  <2> QED
    BY <1>6, <2>3, <2>4 DEF DirectCheck, TypeOK
<1>7. CASE TallyAllow(r)
  <2>1. metrics' \in [Counters -> Nat]
    BY <1>7, BumpType DEF TallyAllow, Counters
  <2>2. pc' \in [Requests -> PCs] /\ reply' \in [Requests -> Outcomes \cup {"none"}]
        /\ kept' \in [Requests -> Seq(Tools)] /\ at' \in [Requests -> Nat \X Nat]
    <3>1. "forward" \in PCs /\ "dispatch" \in PCs /\ "ok" \in Outcomes
      BY DEF PCs, Outcomes
    <3>2. \/ Reply(r, "ok") /\ UNCHANGED <<at, kept>>
          \/ Move(r, "forward") /\ UNCHANGED <<at, kept, reply>>
          \/ Move(r, "dispatch") /\ UNCHANGED <<at, kept, reply>>
          \/ InFilter(r) /\ Keep(r) /\ UNCHANGED reply
      BY <1>7 DEF TallyAllow
    <3>3. InFilter(r) => ask[r] \in Tools
      BY <1>7, <1>h DEF TallyAllow, AskInv
    <3> QED
      BY <3>1, <3>2, <3>3, MoveType, ReplyType, KeepType DEF TypeOK
  <2> QED
    BY <1>7, <2>1, <2>2 DEF TallyAllow, TypeOK
<1>8. CASE TallyDeny(r)
  <2>1. metrics' \in [Counters -> Nat]
    BY <1>8, BumpType DEF TallyDeny, Counters
  <2>2. at' \in [Requests -> Nat \X Nat]
    BY <1>8, AtType DEF TallyDeny
  <2>3. pc' \in [Requests -> PCs] /\ reply' \in [Requests -> Outcomes \cup {"none"}]
    <3>1. "filter" \in PCs /\ {"ok", "forbidden"} \subseteq Outcomes
      BY DEF PCs, Outcomes
    <3>2. \/ Reply(r, "ok") \/ Reply(r, "forbidden")
          \/ Move(r, "filter") /\ UNCHANGED reply
      BY <1>8 DEF TallyDeny
    <3> QED
      BY <3>1, <3>2, MoveType, ReplyType DEF TypeOK
  <2> QED
    BY <1>8, <2>1, <2>2, <2>3 DEF TallyDeny, TypeOK
<1>9. CASE Forward(r)
  <2>1. pc' \in [Requests -> PCs] /\ metrics' \in [Counters -> Nat]
    BY <1>9, MoveType, BumpType DEF Forward, PCs, Counters
  <2> QED
    BY <1>9, <2>1 DEF Forward, TypeOK
<1>10. CASE Send(r)
  <2>1. pc' \in [Requests -> PCs]
    BY <1>10, MoveType DEF Send, PCs
  <2> QED
    BY <1>10, <2>1 DEF Send, TypeOK
<1>11. CASE UpstreamFails(r)
  BY <1>11, ReplyType DEF UpstreamFails, TypeOK, Outcomes
<1>12. CASE UpstreamStreams(r)
  <2>1. pc' \in [Requests -> PCs] /\ reply' \in [Requests -> Outcomes \cup {"none"}]
    BY <1>12, ReplyType DEF UpstreamStreams, Outcomes
  <2>2. answer' \in [Requests -> Seq(Seq(Tools) \cup {NoCalls})]
    BY <1>12, AnswerType DEF UpstreamStreams
  <2> QED
    BY <1>12, <2>1, <2>2 DEF UpstreamStreams, TypeOK
<1>13. CASE UpstreamAnswers(r)
  <2>1. pc' \in [Requests -> PCs] /\ at' \in [Requests -> Nat \X Nat]
    BY <1>13, MoveType, AtType DEF UpstreamAnswers, PCs
  <2>2. answer' \in [Requests -> Seq(Seq(Tools) \cup {NoCalls})]
    BY <1>13, AnswerType DEF UpstreamAnswers
  <2> QED
    BY <1>13, <2>1, <2>2 DEF UpstreamAnswers, TypeOK
<1>14. CASE NextCall(r)
  <2>1. pc' \in [Requests -> PCs] /\ metrics' \in [Counters -> Nat]
    BY <1>14, MoveType, BumpType DEF NextCall, PCs, Counters
  <2>2. ask' \in [Requests -> Queries \cup {NoIntent}]
    <3>1. Choice(r)[at[r][2]] \in Tools
      BY <1>14, ChoiceType DEF NextCall
    <3> QED
      BY <1>14, <3>1 DEF NextCall, TypeOK, Queries
  <2> QED
    BY <1>14, <2>1, <2>2 DEF NextCall, TypeOK
<1>15. CASE EndOfCalls(r)
  <2>1. at' \in [Requests -> Nat \X Nat]
    BY <1>15, AtType DEF EndOfCalls
  <2>2. kept' \in [Requests -> Seq(Tools)]
    BY <1>15 DEF EndOfCalls, TypeOK
  <2>3. Rewrite(kept[r]) \in NonEmptySeq(Tools) \cup {NoCalls, Blocked}
    BY DEF Rewrite, NonEmptySeq, TypeOK
  <2>4. out' \in [Requests -> Seq(NonEmptySeq(Tools) \cup {NoCalls, Blocked})]
    BY <1>15, <2>3, SMTT(20) DEF EndOfCalls, TypeOK
  <2> QED
    BY <1>15, <2>1, <2>2, <2>4 DEF EndOfCalls, TypeOK
<1>16. CASE SkipChoice(r)
  <2>1. at' \in [Requests -> Nat \X Nat]
    BY <1>16, AtType DEF SkipChoice
  <2>2. out' \in [Requests -> Seq(NonEmptySeq(Tools) \cup {NoCalls, Blocked})]
    BY <1>16, SMTT(20) DEF SkipChoice, TypeOK
  <2> QED
    BY <1>16, <2>1, <2>2 DEF SkipChoice, TypeOK
<1>17. CASE Finish(r)
  BY <1>17, ReplyType DEF Finish, TypeOK, Outcomes
<1>18. CASE Dispatch(r)
  <2>1. pc' \in [Requests -> PCs]
    BY <1>18, MoveType DEF Dispatch, PCs
  <2>2. ask[r] \in Queries /\ at[r] \in Nat \X Nat
    BY <1>18, <1>h DEF Dispatch, AskInv, OnTool, TypeOK
  <2>3. executed' \in [Requests -> Seq([at : Nat \X Nat, call : Queries])]
    <3> DEFINE e == [at |-> at[r], call |-> ask[r]]
               C == [at : Nat \X Nat, call : Queries]
    <3>1. e \in C
      BY <2>2
    <3>2. executed \in [Requests -> Seq(C)] /\ executed[r] \in Seq(C)
      BY DEF TypeOK
    <3>3. executed' = [executed EXCEPT ![r] = Append(executed[r], e)]
      BY <1>18 DEF Dispatch
    <3> HIDE DEF e, C
    <3>4. Append(executed[r], e) \in Seq(C)
      BY <3>1, <3>2
    <3> QED
      BY <3>2, <3>3, <3>4 DEF C
  <2> QED
    BY <1>18, <2>1, <2>3 DEF Dispatch, TypeOK
<1>19. CASE ConnectorReturns(r)
  <2>1. pc' \in [Requests -> PCs] /\ reply' \in [Requests -> Outcomes \cup {"none"}]
        /\ kept' \in [Requests -> Seq(Tools)] /\ at' \in [Requests -> Nat \X Nat]
    <3>1. {"ok", "internal"} \subseteq Outcomes
      BY DEF Outcomes
    <3>2. \/ kind[r] = "chat" /\ Keep(r) /\ UNCHANGED reply
          \/ Reply(r, "ok") /\ UNCHANGED <<at, kept>>
          \/ Reply(r, "internal") /\ UNCHANGED <<at, kept>>
      BY <1>19 DEF ConnectorReturns
    <3>3. kind[r] = "chat" => ask[r] \in Tools
      BY <1>19, <1>h DEF ConnectorReturns, AskInv, VerdictInv, OnTool
    <3> QED
      BY <3>1, <3>2, <3>3, ReplyType, KeepType DEF TypeOK
  <2> QED
    BY <1>19, <2>1 DEF ConnectorReturns, TypeOK
<1>20. CASE Disconnect(r)
  BY <1>20, ReplyType DEF Disconnect, TypeOK, Outcomes
<1> QED
  BY <1>1, <1>2, <1>3, <1>4, <1>5, <1>6, <1>7, <1>8, <1>9, <1>10, <1>11, <1>12,
     <1>13, <1>14, <1>15, <1>16, <1>17, <1>18, <1>19, <1>20
  DEF StepOf, Handler, Peer

-----------------------------------------------------------------------------
\* A handler only touches what belongs to its own request; handlers meet in the
\* counters and in the audit channel alone.
Local(s) == <<executes, pc[s], kind[s], who[s], prompt[s], streaming[s], ask[s], effect[s],
              answer[s], at[s], kept[s], out[s], reply[s], executed[s]>>

\* No other request, its calls or its LLM call change.
LEMMA Frame ==
    ASSUME TypeOK, NEW r \in Requests, StepOf(r), NEW s \in Requests, s # r
    PROVE  Local(s)' = Local(s) /\ (s \in upstream' <=> s \in upstream)
<1> USE DEF TypeOK, Local, Move, Reply
<1>1. CASE Arrive(r)
  BY <1>1 DEF Arrive
<1>2. CASE Authenticate(r)
  BY <1>2 DEF Authenticate
<1>3. CASE RefuseToBind(r)
  BY <1>3 DEF RefuseToBind
<1>4. CASE CountCheck(r)
  BY <1>4 DEF CountCheck
<1>5. CASE EngineCheck(r)
  BY <1>5 DEF EngineCheck, Enqueue, AllowOrForbid
<1>6. CASE DirectCheck(r)
  BY <1>6 DEF DirectCheck, McpDecided, A2aDecided
<1>7. CASE TallyAllow(r)
  BY <1>7 DEF TallyAllow, Keep, NextCallOf
<1>8. CASE TallyDeny(r)
  BY <1>8 DEF TallyDeny, NextCallOf
<1>9. CASE Forward(r)
  BY <1>9 DEF Forward
<1>10. CASE Send(r)
  BY <1>10 DEF Send
<1>11. CASE UpstreamFails(r)
  BY <1>11 DEF UpstreamFails
<1>12. CASE UpstreamStreams(r)
  BY <1>12 DEF UpstreamStreams
<1>13. CASE UpstreamAnswers(r)
  BY <1>13 DEF UpstreamAnswers
<1>14. CASE NextCall(r)
  BY <1>14 DEF NextCall
<1>15. CASE EndOfCalls(r)
  BY <1>15 DEF EndOfCalls, NextChoiceOf
<1>16. CASE SkipChoice(r)
  BY <1>16 DEF SkipChoice, NextChoiceOf
<1>17. CASE Finish(r)
  BY <1>17 DEF Finish
<1>18. CASE Dispatch(r)
  BY <1>18 DEF Dispatch
<1>19. CASE ConnectorReturns(r)
  BY <1>19 DEF ConnectorReturns, Keep, NextCallOf
<1>20. CASE Disconnect(r)
  BY <1>20 DEF Disconnect
<1> QED
  BY <1>1, <1>2, <1>3, <1>4, <1>5, <1>6, <1>7, <1>8, <1>9, <1>10, <1>11, <1>12,
     <1>13, <1>14, <1>15, <1>16, <1>17, <1>18, <1>19, <1>20
  DEF StepOf, Handler, Peer

\* The handler that steps knows again where it stands.
LEMMA OwnInv ==
    ASSUME TypeOK, HandlerInv, NEW r \in Requests, StepOf(r)
    PROVE  (FreshInv(r) /\ AskInv(r) /\ VerdictInv(r))'
<1>h. FreshInv(r) /\ AskInv(r) /\ VerdictInv(r)
  BY DEF HandlerInv
<1> USE ConstantsOK, <1>h DEF TypeOK, Move, Reply, FreshInv, AskInv, VerdictInv, InFilter,
        AwaitsLLM, OnTool, Allowed
<1>1. CASE Arrive(r)
  BY <1>1 DEF Arrive, Asks, Kinds, Queries, Intents
<1>2. CASE Authenticate(r)
  BY <1>2 DEF Authenticate
<1>3. CASE RefuseToBind(r)
  BY <1>3 DEF RefuseToBind
<1>4. CASE CountCheck(r)
  BY <1>4 DEF CountCheck
<1>5. CASE EngineCheck(r)
  BY <1>5 DEF EngineCheck, Enqueue, AllowOrForbid, Verdict, Permits, Effects
<1>6. CASE DirectCheck(r)
  BY <1>6 DEF DirectCheck, McpDecided, A2aDecided, Permits, Effects
<1>7. CASE TallyAllow(r)
  BY <1>7 DEF TallyAllow, Keep, NextCallOf, Permits
<1>8. CASE TallyDeny(r)
  BY <1>8 DEF TallyDeny, NextCallOf, Permits
<1>9. CASE Forward(r)
  BY <1>9 DEF Forward
<1>10. CASE Send(r)
  BY <1>10 DEF Send
<1>11. CASE UpstreamFails(r)
  BY <1>11 DEF UpstreamFails
<1>12. CASE UpstreamStreams(r)
  BY <1>12 DEF UpstreamStreams
<1>13. CASE UpstreamAnswers(r)
  BY <1>13 DEF UpstreamAnswers
<1>14. CASE NextCall(r)
  <2>1. Choice(r)[at[r][2]] \in Tools
    BY <1>14, ChoiceType DEF NextCall
  <2>2. ask'[r] \in Tools /\ pc'[r] = "check"
    BY <1>14, <2>1 DEF NextCall
  <2>3. UNCHANGED <<inputs, at, upstream, executed>>
    BY <1>14 DEF NextCall
  <2>4. pc[r] = "filter"
    BY <1>14 DEF NextCall, AtChoice
  <2> QED
    BY <2>2, <2>3, <2>4 DEF Queries
<1>15. CASE EndOfCalls(r)
  BY <1>15 DEF EndOfCalls, NextChoiceOf, AtChoice
<1>16. CASE SkipChoice(r)
  BY <1>16 DEF SkipChoice, NextChoiceOf, AtChoice
<1>17. CASE Finish(r)
  BY <1>17 DEF Finish
<1>18. CASE Dispatch(r)
  BY <1>18 DEF Dispatch
<1>19. CASE ConnectorReturns(r)
  BY <1>19 DEF ConnectorReturns, Keep, NextCallOf
<1>20. CASE Disconnect(r)
  BY <1>20 DEF Disconnect, Awaiting
<1> QED
  BY <1>1, <1>2, <1>3, <1>4, <1>5, <1>6, <1>7, <1>8, <1>9, <1>10, <1>11, <1>12,
     <1>13, <1>14, <1>15, <1>16, <1>17, <1>18, <1>19, <1>20
  DEF StepOf, Handler, Peer

\* A step of one handler keeps what every handler knows.
LEMMA HandlerPreserved ==
    ASSUME TypeOK, HandlerInv, NEW r \in Requests, StepOf(r)
    PROVE  HandlerInv'
<1> SUFFICES ASSUME NEW s \in Requests
             PROVE  (FreshInv(s) /\ AskInv(s) /\ VerdictInv(s))'
  BY DEF HandlerInv
<1>1. CASE s = r
  BY <1>1, OwnInv
<1>2. CASE s # r
  <2>1. Local(s)' = Local(s) /\ (s \in upstream' <=> s \in upstream)
    BY <1>2, Frame
  <2>2. FreshInv(s) /\ AskInv(s) /\ VerdictInv(s)
    BY DEF HandlerInv
  <2> QED
    BY <2>1, <2>2 DEF Local, FreshInv, AskInv, VerdictInv, InFilter, Allowed
<1> QED
  BY <1>1, <1>2

\* What a request is and what was done for it change in three actions only.
LEMMA WorldSteps ==
    ASSUME TypeOK, NEW r \in Requests, StepOf(r)
    PROVE  /\ pc[r] = "idle" \/ UNCHANGED inputs
           /\ upstream' = upstream \/ (pc[r] = "send" /\ upstream' = upstream \cup {r})
           /\ \/ executed' = executed
              \/ /\ pc[r] = "dispatch"
                 /\ executed' = [executed EXCEPT ![r] =
                                    Append(@, [at |-> at[r], call |-> ask[r]])]
<1>1. CASE Arrive(r)
  BY <1>1 DEF Arrive
<1>2. CASE Authenticate(r)
  BY <1>2 DEF Authenticate
<1>3. CASE RefuseToBind(r)
  BY <1>3 DEF RefuseToBind
<1>4. CASE CountCheck(r)
  BY <1>4 DEF CountCheck
<1>5. CASE EngineCheck(r)
  BY <1>5 DEF EngineCheck
<1>6. CASE DirectCheck(r)
  BY <1>6 DEF DirectCheck, McpDecided, A2aDecided
<1>7. CASE TallyAllow(r)
  BY <1>7 DEF TallyAllow
<1>8. CASE TallyDeny(r)
  BY <1>8 DEF TallyDeny
<1>9. CASE Forward(r)
  BY <1>9 DEF Forward
<1>10. CASE Send(r)
  BY <1>10 DEF Send
<1>11. CASE UpstreamFails(r)
  BY <1>11 DEF UpstreamFails
<1>12. CASE UpstreamStreams(r)
  BY <1>12 DEF UpstreamStreams
<1>13. CASE UpstreamAnswers(r)
  BY <1>13 DEF UpstreamAnswers
<1>14. CASE NextCall(r)
  BY <1>14 DEF NextCall
<1>15. CASE EndOfCalls(r)
  BY <1>15 DEF EndOfCalls
<1>16. CASE SkipChoice(r)
  BY <1>16 DEF SkipChoice
<1>17. CASE Finish(r)
  BY <1>17 DEF Finish
<1>18. CASE Dispatch(r)
  BY <1>18 DEF Dispatch
<1>19. CASE ConnectorReturns(r)
  BY <1>19 DEF ConnectorReturns
<1>20. CASE Disconnect(r)
  BY <1>20 DEF Disconnect
<1> QED
  BY <1>1, <1>2, <1>3, <1>4, <1>5, <1>6, <1>7, <1>8, <1>9, <1>10, <1>11, <1>12,
     <1>13, <1>14, <1>15, <1>16, <1>17, <1>18, <1>19, <1>20
  DEF StepOf, Handler, Peer

\* Only a handler at "send" reaches the LLM and only one at "dispatch" the
\* connector, and both only come there with an ALLOW for what they ask.
LEMMA GatedPreserved ==
    ASSUME TypeOK, HandlerInv, GatedEffects, NEW r \in Requests, StepOf(r)
    PROVE  GatedEffects'
<1>h. FreshInv(r) /\ AskInv(r) /\ VerdictInv(r)
  BY DEF HandlerInv
<1>1. ASSUME NEW s \in upstream'
      PROVE  (/\ kind[s] = "chat"
              /\ prompt[s] = NoIntent \/ Allowed(s, prompt[s]))'
  <2>1. s \in Requests
    <3>1. upstream \subseteq Requests
      BY DEF TypeOK
    <3>2. upstream' = upstream \/ upstream' = upstream \cup {r}
      BY WorldSteps
    <3> QED
      BY <1>1, <3>1, <3>2
  <2>2. CASE s # r
    BY <1>1, <2>1, <2>2, Frame DEF Local, GatedEffects, Allowed
  <2>3. CASE s = r /\ s \in upstream
    <3>1. UNCHANGED inputs
      BY <2>3, <1>h, WorldSteps DEF FreshInv
    <3> QED
      BY <2>3, <3>1 DEF GatedEffects, Allowed
  <2>4. CASE s = r /\ s \notin upstream
    <3>1. pc[r] = "send" /\ UNCHANGED inputs
      BY <1>1, <2>4, WorldSteps
    <3> QED
      BY <2>4, <3>1, <1>h DEF VerdictInv, AwaitsLLM, Allowed
  <2> QED
    BY <2>2, <2>3, <2>4
<1>2. ASSUME NEW s \in Requests, NEW i \in DOMAIN executed'[s]
      PROVE  (/\ Allowed(s, executed[s][i].call)
              /\ kind[s] = "mcp" \/ (kind[s] = "chat" /\ executes))'
  <2>1. CASE s # r
    BY <1>2, <2>1, Frame DEF Local, GatedEffects, Allowed
  <2>2. CASE s = r /\ executed' = executed
    <3>1. UNCHANGED inputs
      BY <1>2, <2>2, <1>h, WorldSteps DEF FreshInv
    <3> QED
      BY <1>2, <2>2, <3>1 DEF GatedEffects, Allowed
  <2>3. CASE s = r /\ executed' # executed
    <3> DEFINE e == [at |-> at[r], call |-> ask[r]]
    <3>0. pc[r] = "dispatch" /\ executed' = [executed EXCEPT ![r] = Append(executed[r], e)]
      BY <2>3, WorldSteps
    <3>1. pc[r] = "dispatch" /\ UNCHANGED inputs /\ executed'[r] = Append(executed[r], e)
      BY <3>0, WorldSteps DEF TypeOK
    <3>2. /\ Allowed(r, e.call)
          /\ kind[r] = "mcp" \/ (kind[r] = "chat" /\ executes)
      BY <3>1, <1>h DEF VerdictInv, OnTool
    <3>3. executed[r] \in Seq([at : Nat \X Nat, call : Queries])
      BY DEF TypeOK
    <3>4. \/ i \in DOMAIN executed[r] /\ executed'[r][i] = executed[r][i]
          \/ executed'[r][i] = e
      BY <1>2, <2>3, <3>1, <3>3
    <3> QED
      BY <2>3, <3>1, <3>2, <3>4 DEF GatedEffects, Allowed
  <2> QED
    BY <2>1, <2>2, <2>3
<1> QED
  BY <1>1, <1>2 DEF GatedEffects

-----------------------------------------------------------------------------
(***************************************************************************)
(* What a handler has done so far: the inductive invariants behind the     *)
(* filter, the order of execution, the audit entries and the counters.     *)
(***************************************************************************)
AtMost(a, b) == Before(a, b) \/ a = b

\* The policy has a verdict, and no error, for the first n calls of a choice.
Heard(r, c, n) == \A k \in 1..n : Policy[who[r]][c[k]] \in Effects

\* A choice that was rewritten: all of its calls were heard, and the forbidden
\* ones taken out.
ChoiceDone(r, i) ==
    /\ answer[r][i] # NoCalls => Heard(r, answer[r][i], Len(answer[r][i]))
    /\ Stripped(Permitted(r), answer[r][i], out[r][i])

\* The choices delivered so far are rewritten; there are none before the filter.
Rewritten(r) ==
    /\ ~InFilter(r) => kept[r] = <<>> /\ out[r] = <<>>
    /\ Len(out[r]) <= Len(answer[r])
    /\ \A i \in 1..Len(out[r]) : ChoiceDone(r, i)

\* Of the choice the filter is at, the calls before the current one were heard,
\* and the permitted ones kept.
Underway(r) ==
    /\ ~streaming[r]
    /\ at[r][1] = Len(out[r]) + 1
    /\ (at[r][1] <= Len(answer[r]) /\ Choice(r) # NoCalls) =>
          /\ at[r][2] <= Len(Choice(r)) + 1
          /\ Heard(r, Choice(r), at[r][2] - 1)
          /\ Sieved(Permitted(r), Choice(r), at[r][2] - 1, kept[r])
    /\ (at[r][1] <= Len(answer[r]) /\ Choice(r) = NoCalls) => kept[r] = <<>>

\* The query under check is the call the filter is at.
OnCall(r) ==
    /\ at[r][1] <= Len(answer[r]) /\ Choice(r) # NoCalls
    /\ at[r][2] <= Len(Choice(r))
    /\ ask[r] = Choice(r)[at[r][2]]

FilterInv(r) ==
    /\ Rewritten(r)
    /\ pc[r] # "done" /\ InFilter(r) => Underway(r)
    /\ pc[r] \notin {"done", "filter"} /\ InFilter(r) => OnCall(r)
    /\ pc[r] # "done" => reply[r] = "none"
    /\ kind[r] = "chat" /\ reply[r] = "ok" /\ ~streaming[r] => Len(out[r]) = Len(answer[r])

\* What was executed came before the call the filter is at, or is that call.
ExecInv(r) ==
    /\ pc[r] \notin {"exec", "done"} =>
          \A i \in DOMAIN executed[r] : Before(executed[r][i].at, at[r])
    /\ pc[r] = "exec" => \A i \in DOMAIN executed[r] : AtMost(executed[r][i].at, at[r])

\* While the store listens, a verdict or an effect about to be acted on was audited for
\* what it is about.
Evidenced(r) ==
    /\ pc[r] = "tally" =>
          [req |-> r, at |-> at[r], ask |-> ask[r], effect |-> effect[r]] \in audit
    /\ pc[r] \in AwaitsLLM /\ prompt[r] # NoIntent => Recorded(r, <<0, 0>>, prompt[r])
    /\ pc[r] \in OnTool /\ kind[r] = "chat" => Recorded(r, at[r], ask[r])
    /\ r \in upstream /\ prompt[r] # NoIntent => Recorded(r, <<0, 0>>, prompt[r])
    /\ kind[r] = "chat" => \A i \in DOMAIN executed[r] :
          Recorded(r, executed[r][i].at, executed[r][i].call)

\* What was audited came before, too.
AuditInv(r) ==
    /\ pc[r] \in {"idle", "auth", "count", "check", "filter"} =>
          \A e \in audit : e.req = r => Before(e.at, at[r])
    /\ pc[r] # "done" => \A e \in audit : e.req = r => AtMost(e.at, at[r])
    /\ listening => Evidenced(r)

\* A check that failed ended its handler, and only counted routes count.
CountInv(r) ==
    /\ effect[r] \in {"ERROR", "NOT_READY"} => pc[r] = "done"
    /\ pc[r] = "count" => kind[r] \in {"chat", "check"}
    /\ pc[r] = "auth" => kind[r] # "check"

DeedsInv == \A r \in Requests : FilterInv(r) /\ ExecInv(r) /\ AuditInv(r) /\ CountInv(r)

\* The counters and the audit channel agree; a chat is counted before it is sent.
Tallying == {r \in Requests : pc[r] = "tally"}
Sent     == upstream \cup {r \in Requests : pc[r] = "send"}

LedgerInv ==
    /\ metrics["checks"] = metrics["allows"] + metrics["denies"] + Cardinality(Unsettled)
    /\ Cardinality(Sent) <= metrics["upstream"]
    /\ IsFiniteSet(audit)
    /\ listening => Cardinality(AuditedVerdicts) = metrics["allows"] + metrics["denies"]
                                                     + Cardinality(Tallying)

-----------------------------------------------------------------------------
\* Counting the calls that pass: the count grows by one at each of them.
LEMMA RankGrows ==
    ASSUME NEW S, NEW c, NEW n \in Nat
    PROVE  /\ Rank(S, c, n) \in Nat
           /\ Rank(S, c, 0) = 0
           /\ c[n+1] \in S => Rank(S, c, n+1) = Rank(S, c, n) + 1
           /\ c[n+1] \notin S => Rank(S, c, n+1) = Rank(S, c, n)
<1> DEFINE R(k) == {i \in 1..k : c[i] \in S}
<1>1. IsFiniteSet(R(n)) /\ Cardinality(R(n)) \in Nat
  <2>1. IsFiniteSet(1..n) /\ R(n) \subseteq 1..n
    BY FS_Interval
  <2> QED
    BY <2>1, FS_Subset, FS_CardinalityType
<1>2. R(0) = {} /\ Cardinality({}) = 0
  BY FS_EmptySet
<1>3. n + 1 \notin R(n)
  OBVIOUS
<1>4. c[n+1] \in S => R(n+1) = R(n) \cup {n+1}
  OBVIOUS
<1>5. c[n+1] \notin S => R(n+1) = R(n)
  OBVIOUS
<1>6. Cardinality(R(n) \cup {n+1}) = Cardinality(R(n)) + 1
  BY <1>1, <1>3, FS_AddElement
<1> HIDE DEF R
<1>7. \A k : Rank(S, c, k) = Cardinality(R(k))
  BY DEF Rank, R
<1> QED
  BY <1>1, <1>2, <1>4, <1>5, <1>6, <1>7

\* A call that passes has a place, and no later place than a later call.
LEMMA RankPlaces ==
    ASSUME NEW S, NEW c, NEW n \in Nat, NEW k \in 1..n
    PROVE  /\ Rank(S, c, k) \in Nat
           /\ Rank(S, c, k) <= Rank(S, c, n)
           /\ c[k] \in S => 1 <= Rank(S, c, k)
<1>1. Rank(S, c, k) \in Nat
  BY RankGrows
<1>2. Rank(S, c, k) <= Rank(S, c, n)
  <2>1. {i \in 1..k : c[i] \in S} \subseteq {i \in 1..n : c[i] \in S}
    OBVIOUS
  <2>2. IsFiniteSet({i \in 1..n : c[i] \in S})
    <3>1. IsFiniteSet(1..n) /\ {i \in 1..n : c[i] \in S} \subseteq 1..n
      BY FS_Interval
    <3> QED
      BY <3>1, FS_Subset
  <2> QED
    BY <2>1, <2>2, FS_Subset DEF Rank
<1>3. c[k] \in S => 1 <= Rank(S, c, k)
  <2>1. k - 1 \in Nat /\ (k - 1) + 1 = k
    OBVIOUS
  <2>2. Rank(S, c, k-1) \in Nat
    BY <2>1, RankGrows
  <2>3. c[k] \in S => Rank(S, c, k) = Rank(S, c, k-1) + 1
    BY <2>1, RankGrows
  <2> QED
    BY <2>2, <2>3
<1> QED
  BY <1>1, <1>2, <1>3

\* One more call that passes is one more call kept.
LEMMA SieveKeeps ==
    ASSUME NEW S, NEW c, NEW n \in Nat, NEW s \in Seq(Tools), Sieved(S, c, n, s),
           c[n+1] \in S, c[n+1] \in Tools
    PROVE  Sieved(S, c, n+1, Append(s, c[n+1]))
<1> DEFINE t == Append(s, c[n+1])
<1>1. Len(t) = Len(s) + 1 /\ t[Len(s) + 1] = c[n+1]
      /\ \A i \in 1..Len(s) : t[i] = s[i]
  OBVIOUS
<1>2. Len(s) = Rank(S, c, n) /\ Rank(S, c, n+1) = Rank(S, c, n) + 1
  BY RankGrows DEF Sieved
<1>3. ASSUME NEW k \in 1..n, c[k] \in S PROVE t[Rank(S, c, k)] = c[k]
  <2>1. Rank(S, c, k) \in 1..Len(s)
    BY <1>2, <1>3, RankPlaces
  <2> QED
    BY <1>1, <1>3, <2>1 DEF Sieved
<1> HIDE DEF t
<1>4. \A k \in 1..n+1 : k \in 1..n \/ k = n+1
  OBVIOUS
<1> QED
  BY <1>1, <1>2, <1>3, <1>4 DEF Sieved, t

\* A forbidden call leaves no trace.
LEMMA SieveDrops ==
    ASSUME NEW S, NEW c, NEW n \in Nat, NEW s, Sieved(S, c, n, s), c[n+1] \notin S
    PROVE  Sieved(S, c, n+1, s)
<1>1. Rank(S, c, n+1) = Rank(S, c, n)
  BY RankGrows
<1>2. \A k \in 1..n+1 : k \in 1..n \/ k = n+1
  OBVIOUS
<1> QED
  BY <1>1, <1>2 DEF Sieved

\* What is kept of a whole choice, rewritten when it is empty, is the choice
\* without the forbidden calls.
LEMMA SieveStrips ==
    ASSUME NEW S, NEW c, c # NoCalls, Len(c) \in Nat, NEW s \in Seq(Tools),
           Sieved(S, c, Len(c), s)
    PROVE  Stripped(S, c, Rewrite(s))
<1>1. Len(s) = Rank(S, c, Len(c))
  BY DEF Sieved
<1>2. s = <<>> <=> Len(s) = 0
  OBVIOUS
<1>3. s \notin {NoCalls, Blocked}
  BY ConstantsOK
<1> QED
  BY <1>1, <1>2, <1>3 DEF Stripped, Rewrite

\* Nothing is kept before the first call.
LEMMA SieveStarts ==
    ASSUME NEW S, NEW c, NEW s \in Seq(Tools)
    PROVE  Sieved(S, c, 0, s) <=> s = <<>>
<1>1. Rank(S, c, 0) = 0
  BY RankGrows
<1> QED
  BY <1>1 DEF Sieved

\* A step that leaves the filter where it is leaves its invariant.
LEMMA FilterRests ==
    ASSUME TypeOK, HandlerInv, NEW r \in Requests, FilterInv(r),
           who'[r] = who[r], streaming'[r] = streaming[r],
           answer'[r] = answer[r], at'[r] = at[r], kept'[r] = kept[r], out'[r] = out[r]
    PROVE  /\ Rewritten(r)'
           /\ Underway(r) => Underway(r)'
           /\ OnCall(r) /\ ask'[r] = ask[r] => OnCall(r)'
<1>1. Permitted(r)' = Permitted(r)
  BY DEF Permitted, Allowed
<1>2. Choice(r)' = Choice(r)
  BY DEF Choice
<1> QED
  BY <1>1, <1>2 DEF FilterInv, Rewritten, ChoiceDone, Heard, Underway, OnCall, InFilter, Choice

\* The current choice is a sequence of tool calls, at a place in the reply.
LEMMA AtPlace ==
    ASSUME TypeOK, HandlerInv, NEW r \in Requests, InFilter(r)
    PROVE  /\ at[r][1] \in Nat \ {0} /\ at[r][2] \in Nat \ {0}
           /\ at[r] = <<at[r][1], at[r][2]>>
           /\ at[r][1] <= Len(answer[r]) /\ Choice(r) # NoCalls =>
                /\ Choice(r) \in Seq(Tools)
                /\ at[r][2] <= Len(Choice(r)) => Choice(r)[at[r][2]] \in Tools
<1>1. at[r] \in Nat \X Nat /\ at[r][1] >= 1 /\ at[r][2] >= 1
  BY DEF TypeOK, HandlerInv, AskInv
<1>2. answer[r] \in Seq(Seq(Tools) \cup {NoCalls})
  BY DEF TypeOK
<1>3. at[r][1] <= Len(answer[r]) => answer[r][at[r][1]] \in Seq(Tools) \cup {NoCalls}
  BY <1>1, <1>2
<1> QED
  BY <1>1, <1>3 DEF Choice

\* Moving on to the next call of the choice keeps the invariant, provided the
\* policy heard this one and it was kept exactly when it is allowed.
LEMMA NextCallKeeps ==
    ASSUME TypeOK, HandlerInv, NEW r \in Requests, FilterInv(r), InFilter(r),
           Underway(r), OnCall(r), Policy[who[r]][ask[r]] \in Effects, NextCallOf(r),
           UNCHANGED <<inputs, answer, out, reply>>, pc'[r] = "filter", pc[r] # "done",
           \/ Allowed(r, ask[r]) /\ kept' = [kept EXCEPT ![r] = Append(@, ask[r])]
           \/ ~Allowed(r, ask[r]) /\ kept' = kept
    PROVE  FilterInv(r)'
<1> DEFINE n == at[r][2] - 1
           c == Choice(r)
           S == Permitted(r)
<1>1. n \in Nat /\ n + 1 = at[r][2] /\ c \in Seq(Tools) /\ ask[r] \in Tools /\ ask[r] = c[n+1]
  BY AtPlace DEF OnCall
<1>2. at'[r] = <<at[r][1], n + 2>> /\ at'[r][1] = at[r][1] /\ at'[r][2] = n + 2
  BY <1>1 DEF NextCallOf, TypeOK
<1>3. kept[r] \in Seq(Tools) /\ Sieved(S, c, n, kept[r]) /\ Heard(r, c, n)
  BY DEF TypeOK, Underway, OnCall
<1>4. Sieved(S, c, n+1, kept'[r])
  <2>1. c[n+1] \in S <=> Allowed(r, ask[r])
    BY <1>1 DEF Permitted
  <2>2. CASE Allowed(r, ask[r])
    <3>1. kept'[r] = Append(kept[r], c[n+1])
      BY <1>1, <2>2 DEF TypeOK
    <3>2. c[n+1] \in S /\ c[n+1] \in Tools
      BY <1>1, <2>1, <2>2
    <3> HIDE DEF n, c, S
    <3> QED
      BY <1>1, <1>3, <3>1, <3>2, SieveKeeps
  <2>3. CASE ~Allowed(r, ask[r])
    <3>1. kept'[r] = kept[r] /\ c[n+1] \notin S
      BY <2>1, <2>3
    <3> HIDE DEF n, c, S
    <3> QED
      BY <1>1, <1>3, <3>1, SieveDrops
  <2> QED
    BY <2>2, <2>3
<1>5. Heard(r, c, n+1)
  <2>1. \A k \in 1..n+1 : k \in 1..n \/ k = n+1
    BY <1>1
  <2> HIDE DEF n, c
  <2> QED
    BY <1>1, <1>3, <2>1 DEF Heard
<1>6. Permitted(r)' = Permitted(r) /\ Choice(r)' = Choice(r) /\ who' = who
  BY <1>2 DEF Permitted, Allowed, Choice
<1>7. InFilter(r)'
  BY <1>1, <1>2 DEF InFilter
<1>8. Rewritten(r)'
  BY <1>6, <1>7 DEF FilterInv, Rewritten, ChoiceDone, Heard
<1>9. Underway(r)'
  <2>1. at'[r][2] <= Len(c) + 1 /\ at'[r][2] - 1 = n + 1
    BY <1>1, <1>2 DEF OnCall
  <2>2. ~streaming'[r] /\ at'[r][1] = Len(out'[r]) + 1 /\ c # NoCalls
    BY <1>2 DEF Underway, OnCall
  <2>3. Choice(r)' = c /\ Permitted(r)' = S /\ who' = who
    BY <1>6
  <2>4. Sieved(S, c, at'[r][2] - 1, kept'[r])
    BY <1>4, <2>1
  <2>5. \A k \in 1..at'[r][2] - 1 : Policy[who[r]][c[k]] \in Effects
    BY <1>5, <2>1 DEF Heard
  <2> HIDE DEF n, c, S
  <2> QED
    BY <2>1, <2>2, <2>3, <2>4, <2>5 DEF Underway, Heard
<1> QED
  BY <1>8, <1>9 DEF FilterInv

\* Moving on to the next choice keeps the invariant, provided this one was
\* rewritten.
LEMMA NextChoiceKeeps ==
    ASSUME TypeOK, HandlerInv, NEW r \in Requests, FilterInv(r), InFilter(r), Underway(r),
           at[r][1] <= Len(answer[r]), NextChoiceOf(r),
           UNCHANGED <<pc, inputs, answer, reply>>, pc[r] = "filter",
           kept'[r] = <<>>,
           NEW d \in NonEmptySeq(Tools) \cup {NoCalls, Blocked},
           out' = [out EXCEPT ![r] = Append(@, d)],
           Choice(r) # NoCalls => Heard(r, Choice(r), Len(Choice(r))),
           Stripped(Permitted(r), Choice(r), d)
    PROVE  FilterInv(r)'
<1>1. PICK m \in Nat : m = Len(out[r]) /\ at[r][1] = m + 1 /\ m + 1 <= Len(answer[r])
                         /\ Len(answer[r]) \in Nat
  <2>1. out[r] \in Seq(NonEmptySeq(Tools) \cup {NoCalls, Blocked})
        /\ answer[r] \in Seq(Seq(Tools) \cup {NoCalls})
    BY DEF TypeOK
  <2>2. at[r][1] = Len(out[r]) + 1
    BY DEF Underway
  <2> HIDE DEF NonEmptySeq
  <2> QED
    BY <2>1, <2>2
<1>2. at'[r] = <<m + 2, 1>> /\ at'[r][1] = m + 2 /\ at'[r][2] = 1
  BY <1>1 DEF NextChoiceOf, TypeOK
<1>3. Len(out'[r]) = m + 1 /\ out'[r][m + 1] = d /\ \A i \in 1..m : out'[r][i] = out[r][i]
  <2>1. out[r] \in Seq(NonEmptySeq(Tools) \cup {NoCalls, Blocked}) /\ out'[r] = Append(out[r], d)
    BY DEF TypeOK
  <2> HIDE DEF NonEmptySeq
  <2> QED
    BY <1>1, <2>1
<1>4. Permitted(r)' = Permitted(r) /\ who' = who /\ answer' = answer
  BY DEF Permitted, Allowed
<1>5. Choice(r) = answer[r][m + 1]
  BY <1>1 DEF Choice
<1>6. InFilter(r)'
  BY <1>1, <1>2 DEF InFilter
<1>7. Rewritten(r)'
  <2>1. \A i \in 1..m : ChoiceDone(r, i)'
    BY <1>3, <1>4 DEF FilterInv, Rewritten, ChoiceDone, Heard
  <2>2. ChoiceDone(r, m + 1)'
    <3>1. answer'[r][m + 1] = Choice(r) /\ out'[r][m + 1] = d
      BY <1>3, <1>4, <1>5
    <3>2. Choice(r) # NoCalls => \A k \in 1..Len(Choice(r)) : Policy[who'[r]][Choice(r)[k]] \in Effects
      BY <1>4 DEF Heard
    <3> QED
      BY <1>4, <3>1, <3>2 DEF ChoiceDone, Heard
  <2>3. \A i \in 1..m+1 : i \in 1..m \/ i = m + 1
    BY <1>1
  <2>4. \A i \in 1..Len(out'[r]) : ChoiceDone(r, i)'
    BY <1>1, <1>3, <2>1, <2>2, <2>3
  <2>5. Len(out'[r]) <= Len(answer'[r])
    BY <1>1, <1>3, <1>4
  <2> QED
    BY <1>6, <2>4, <2>5 DEF Rewritten
<1>8. Underway(r)'
  <2>1. Sieved(Permitted(r)', Choice(r)', 0, kept'[r])
    <3>1. <<>> \in Seq(Tools)
      OBVIOUS
    <3>2. \A S, c : Sieved(S, c, 0, <<>>)
      BY <3>1, SieveStarts
    <3> QED
      BY <3>2
  <2>2. at'[r][2] - 1 = 0 /\ Heard(r, Choice(r), 0)'
    BY <1>2 DEF Heard
  <2>3. Choice(r)' # NoCalls /\ at'[r][1] <= Len(answer'[r]) => at'[r][2] <= Len(Choice(r)') + 1
    <3>1. Choice(r)' = answer[r][m + 2]
      BY <1>2, <1>4 DEF Choice
    <3>2. m + 2 <= Len(answer[r]) => answer[r][m + 2] \in Seq(Tools) \cup {NoCalls}
      BY <1>1 DEF TypeOK
    <3> QED
      BY <1>2, <1>4, <3>1, <3>2
  <2>4. ~streaming'[r] /\ at'[r][1] = Len(out'[r]) + 1
    BY <1>1, <1>2, <1>3 DEF Underway
  <2> QED
    BY <2>1, <2>2, <2>3, <2>4 DEF Underway
<1>9. reply'[r] = "none"
  BY DEF FilterInv
<1> QED
  BY <1>7, <1>8, <1>9 DEF FilterInv

\* The handler that steps keeps the invariant of the filter.
LEMMA OwnFilter ==
    ASSUME TypeOK, HandlerInv, NEW r \in Requests, FilterInv(r), CountInv(r), StepOf(r)
    PROVE  FilterInv(r)'
<1>h. FreshInv(r) /\ AskInv(r) /\ VerdictInv(r)
  BY DEF HandlerInv
<1>0. /\ at[r] \in Nat \X Nat /\ pc[r] \in PCs
      /\ pc[r] # "done" => reply[r] = "none"
      /\ pc[r] # "done" /\ InFilter(r) => Underway(r)
      /\ pc[r] \notin {"done", "filter"} /\ InFilter(r) => OnCall(r)
  BY DEF TypeOK, FilterInv
<1>1. CASE Arrive(r)
  <2>1. ~InFilter(r) /\ ~InFilter(r)' /\ pc[r] = "idle" /\ UNCHANGED <<filter, reply>>
    BY <1>1, <1>h DEF Arrive, AskInv, InFilter
  <2>2. out[r] = <<>> /\ kept[r] = <<>>
    BY <2>1 DEF FilterInv, Rewritten
  <2>3. Len(<<>>) = 0 /\ Len(answer[r]) \in Nat
    BY DEF TypeOK
  <2> QED
    BY <1>0, <2>1, <2>2, <2>3 DEF FilterInv, Rewritten
<1>2. ASSUME UNCHANGED <<inputs, filter, reply>>, pc[r] # "done",
             \/ ~InFilter(r)
             \/ ask' = ask /\ pc[r] # "filter"
             \/ pc'[r] = "done"
      PROVE  FilterInv(r)'
  <2>1. Rewritten(r)' /\ (Underway(r) => Underway(r)') /\ (OnCall(r) /\ ask' = ask => OnCall(r)')
    BY <1>2, FilterRests
  <2>2. InFilter(r)' = InFilter(r)
    BY <1>2 DEF InFilter
  <2> QED
    BY <1>0, <1>2, <2>1, <2>2 DEF FilterInv
<1>3. ASSUME NEW o \in Outcomes, Reply(r, o), UNCHANGED <<inputs, filter>>, pc[r] # "done",
             o = "ok" /\ kind[r] = "chat" /\ ~streaming[r] => Len(out[r]) = Len(answer[r])
      PROVE  FilterInv(r)'
  <2>1. Rewritten(r)'
    BY <1>3, FilterRests
  <2>2. pc'[r] = "done" /\ reply'[r] = o
    BY <1>3 DEF Reply, Move, TypeOK
  <2> QED
    BY <1>3, <2>1, <2>2 DEF FilterInv
<1>4. CASE Authenticate(r)
  <2>1. ~InFilter(r) /\ pc[r] # "done"
    BY <1>4, <1>h DEF Authenticate, AskInv
  <2>2. CASE UNCHANGED reply
    BY <1>2, <1>4, <2>1, <2>2 DEF Authenticate
  <2>3. CASE Reply(r, "unauthorized")
    BY <1>3, <1>4, <2>1, <2>3 DEF Authenticate, Outcomes
  <2> QED
    BY <1>4, <2>2, <2>3 DEF Authenticate
<1>5. CASE RefuseToBind(r)
  BY <1>3, <1>5 DEF RefuseToBind, Outcomes
<1>6. CASE CountCheck(r)
  <2>1. ~InFilter(r) /\ pc[r] # "done"
    BY <1>6, <1>h DEF CountCheck, AskInv
  <2> QED
    BY <1>2, <1>6, <2>1 DEF CountCheck
<1>7. CASE EngineCheck(r)
  <2> DEFINE v == Verdict(who[r], ask[r])
  <2>1. pc[r] = "check" /\ UNCHANGED <<inputs, ask, filter>>
    BY <1>7 DEF EngineCheck
  <2>2. CASE Move(r, "tally") /\ UNCHANGED reply
    BY <1>2, <2>1, <2>2
  <2>3. CASE Reply(r, Refusal(v))
    BY <1>3, <2>1, <2>3 DEF Refusal, Outcomes
  <2>4. CASE kind[r] = "retrieve" /\ AllowOrForbid(r, v)
    <3>1. \E o \in {"ok", "forbidden"} : Reply(r, o)
      BY <2>4 DEF AllowOrForbid
    <3>2. {"ok", "forbidden"} \subseteq Outcomes
      BY DEF Outcomes
    <3> QED
      BY <1>3, <2>1, <2>4, <3>1, <3>2
  <2> QED
    BY <1>7, <2>2, <2>3, <2>4 DEF EngineCheck
<1>8. CASE DirectCheck(r)
  <2>1. pc[r] = "check" /\ UNCHANGED <<inputs, ask, filter>> /\ kind[r] # "chat"
    BY <1>8 DEF DirectCheck
  <2>2. CASE UNCHANGED reply
    BY <1>2, <2>1, <2>2
  <2>3. CASE \E o \in {"ok", "forbidden", "bad_request"} : Reply(r, o)
    <3>1. {"ok", "forbidden", "bad_request"} \subseteq Outcomes
      BY DEF Outcomes
    <3> QED
      BY <1>3, <2>1, <2>3, <3>1
  <2> QED
    BY <1>8, <2>2, <2>3 DEF DirectCheck, McpDecided, A2aDecided
<1>9. ASSUME Keep(r), InFilter(r), pc[r] \notin {"done", "filter"}, Allowed(r, ask[r]),
             UNCHANGED <<inputs, answer, out, reply>>
      PROVE  FilterInv(r)'
  <2>1. Underway(r) /\ OnCall(r)
    BY <1>0, <1>9
  <2>2. /\ NextCallOf(r) /\ pc'[r] = "filter"
        /\ kept' = [kept EXCEPT ![r] = Append(@, ask[r])]
    BY <1>9 DEF Keep, Move, TypeOK
  <2>3. Policy[who[r]][ask[r]] \in Effects
    BY <1>9 DEF Allowed, Effects
  <2> QED
    BY <1>9, <2>1, <2>2, <2>3, NextCallKeeps
<1>10. CASE TallyAllow(r)
  <2>1. pc[r] = "tally" /\ UNCHANGED <<inputs, ask, answer, out>> /\ Allowed(r, ask[r])
    BY <1>10, <1>h DEF TallyAllow, VerdictInv, Permits, Allowed
  <2>2. CASE Reply(r, "ok") /\ kind[r] = "check" /\ UNCHANGED <<at, kept>>
    BY <1>3, <2>1, <2>2 DEF Outcomes
  <2>3. CASE UNCHANGED <<at, kept, reply>>
    BY <1>2, <2>1, <2>3
  <2>4. CASE InFilter(r) /\ Keep(r) /\ UNCHANGED reply
    BY <1>9, <2>1, <2>4
  <2> QED
    BY <1>10, <2>2, <2>3, <2>4 DEF TallyAllow
<1>11. CASE TallyDeny(r)
  <2>1. /\ pc[r] = "tally" /\ UNCHANGED <<inputs, ask, answer, kept, out>>
        /\ Policy[who[r]][ask[r]] \in Effects /\ ~Allowed(r, ask[r])
    BY <1>11, <1>h DEF TallyDeny, VerdictInv, Permits, Allowed
  <2>2. CASE UNCHANGED at /\ \/ Reply(r, "ok") /\ kind[r] = "check"
                             \/ Reply(r, "forbidden")
    <3>1. {"ok", "forbidden"} \subseteq Outcomes
      BY DEF Outcomes
    <3> QED
      BY <1>3, <2>1, <2>2, <3>1
  <2>3. CASE InFilter(r) /\ NextCallOf(r) /\ Move(r, "filter") /\ UNCHANGED reply
    <3>1. pc'[r] = "filter" /\ Underway(r) /\ OnCall(r)
      BY <1>0, <2>1, <2>3 DEF Move, TypeOK
    <3> QED
      BY <2>1, <2>3, <3>1, NextCallKeeps
  <2> QED
    BY <1>11, <2>2, <2>3 DEF TallyDeny
<1>12. CASE Forward(r)
  <2>1. ~InFilter(r) /\ pc[r] # "done"
    BY <1>12, <1>h DEF Forward, AskInv, AwaitsLLM
  <2> QED
    BY <1>2, <1>12, <2>1 DEF Forward
<1>13. CASE Send(r)
  <2>1. ~InFilter(r) /\ pc[r] # "done"
    BY <1>13, <1>h DEF Send, AskInv, AwaitsLLM
  <2> QED
    BY <1>2, <1>13, <2>1 DEF Send
<1>14. CASE UpstreamFails(r)
  BY <1>3, <1>14 DEF UpstreamFails, Outcomes
<1>15. ASSUME pc[r] = "await", \E a \in Answers : answer' = [answer EXCEPT ![r] = a]
       PROVE  /\ ~InFilter(r) /\ out[r] = <<>> /\ kept[r] = <<>>
              /\ answer'[r] \in Seq(Seq(Tools) \cup {NoCalls})
  BY <1>15, <1>h, ConstantsOK DEF AskInv, AwaitsLLM, FilterInv, Rewritten, TypeOK
<1>16. CASE UpstreamStreams(r)
  <2>1. pc'[r] = "done" /\ streaming'[r] /\ UNCHANGED <<at, kept, out>>
    BY <1>16 DEF UpstreamStreams, Reply, Move, TypeOK
  <2>2. /\ ~InFilter(r) /\ out[r] = <<>> /\ kept[r] = <<>>
        /\ answer'[r] \in Seq(Seq(Tools) \cup {NoCalls})
    BY <1>15, <1>16 DEF UpstreamStreams
  <2>3. Len(<<>>) = 0 /\ Len(answer'[r]) \in Nat
    BY <2>2
  <2> QED
    BY <2>1, <2>2, <2>3 DEF FilterInv, Rewritten, InFilter
<1>17. CASE UpstreamAnswers(r)
  <2>1. /\ pc'[r] = "filter" /\ ~streaming'[r] /\ UNCHANGED <<kept, out, reply>>
        /\ at'[r] = <<1, 1>> /\ at'[r][1] = 1 /\ at'[r][2] = 1
    BY <1>17 DEF UpstreamAnswers, Move, TypeOK
  <2>2. /\ ~InFilter(r) /\ out[r] = <<>> /\ kept[r] = <<>>
        /\ answer'[r] \in Seq(Seq(Tools) \cup {NoCalls})
    BY <1>15, <1>17 DEF UpstreamAnswers
  <2>3. Len(<<>>) = 0 /\ Len(answer'[r]) \in Nat
    BY <2>2
  <2>4. Rewritten(r)' /\ reply'[r] = "none"
    BY <1>0, <1>17, <2>1, <2>2, <2>3 DEF Rewritten, InFilter, UpstreamAnswers
  <2>5. Underway(r)'
    <3>1. Sieved(Permitted(r)', Choice(r)', 0, <<>>)
      <4>1. \A S, c : Sieved(S, c, 0, <<>>)
        <5>1. <<>> \in Seq(Tools)
          OBVIOUS
        <5> QED
          BY <5>1, SieveStarts
      <4> QED
        BY <4>1
    <3>2. Choice(r)' # NoCalls /\ 1 <= Len(answer'[r]) => 1 <= Len(Choice(r)') + 1
      BY <2>1, <2>2, <2>3 DEF Choice
    <3>3. Heard(r, Choice(r), 0)'
      BY DEF Heard
    <3> QED
      BY <2>1, <2>2, <2>3, <3>1, <3>2, <3>3 DEF Underway
  <2> QED
    BY <2>1, <2>4, <2>5 DEF FilterInv
<1>18. ASSUME pc[r] = "filter"
       PROVE  InFilter(r) /\ Underway(r) /\ kind[r] = "chat"
  BY <1>0, <1>18, <1>h DEF AskInv
<1>19. CASE NextCall(r)
  <2>1. /\ pc[r] = "filter" /\ pc'[r] = "check" /\ UNCHANGED <<inputs, filter, reply>>
        /\ at[r][1] <= Len(answer[r]) /\ Choice(r) # NoCalls
        /\ at[r][2] <= Len(Choice(r)) /\ ask'[r] = Choice(r)[at[r][2]]
    BY <1>19 DEF NextCall, AtChoice, Move, TypeOK
  <2>2. Rewritten(r)' /\ Underway(r)'
    BY <1>18, <2>1, FilterRests
  <2>3. OnCall(r)'
    BY <2>1 DEF OnCall, Choice
  <2> QED
    BY <1>0, <2>1, <2>2, <2>3 DEF FilterInv
<1>20. CASE EndOfCalls(r)
  <2>1. /\ pc[r] = "filter" /\ at[r][1] <= Len(answer[r]) /\ Choice(r) # NoCalls
        /\ at[r][2] > Len(Choice(r))
    BY <1>20 DEF EndOfCalls, AtChoice
  <2>2. InFilter(r) /\ Underway(r)
    BY <1>18, <2>1
  <2>3. Choice(r) \in Seq(Tools) /\ at[r][2] \in Nat
    BY <2>1, <2>2, AtPlace
  <2>4. at[r][2] - 1 = Len(Choice(r)) /\ Len(Choice(r)) \in Nat
    BY <2>1, <2>2, <2>3 DEF Underway
  <2>5. Sieved(Permitted(r), Choice(r), Len(Choice(r)), kept[r]) /\ Heard(r, Choice(r), Len(Choice(r)))
    BY <2>1, <2>2, <2>4 DEF Underway
  <2>6. kept[r] \in Seq(Tools) /\ kept'[r] = <<>>
    BY <1>20 DEF EndOfCalls, TypeOK
  <2>7. Stripped(Permitted(r), Choice(r), Rewrite(kept[r]))
    BY <2>1, <2>4, <2>5, <2>6, SieveStrips
  <2>8. /\ NextChoiceOf(r) /\ UNCHANGED <<pc, inputs, answer, reply>>
        /\ out' = [out EXCEPT ![r] = Append(@, Rewrite(kept[r]))]
    BY <1>20 DEF EndOfCalls
  <2>9. Rewrite(kept[r]) \in NonEmptySeq(Tools) \cup {NoCalls, Blocked}
    BY <2>6 DEF Rewrite, NonEmptySeq
  <2> QED
    BY <2>1, <2>2, <2>5, <2>6, <2>7, <2>8, <2>9, NextChoiceKeeps
<1>21. CASE SkipChoice(r)
  <2>1. /\ pc[r] = "filter" /\ at[r][1] <= Len(answer[r]) /\ Choice(r) = NoCalls
        /\ NextChoiceOf(r) /\ UNCHANGED <<pc, inputs, answer, kept, reply>>
        /\ out' = [out EXCEPT ![r] = Append(@, NoCalls)]
    BY <1>21 DEF SkipChoice, AtChoice
  <2>2. InFilter(r) /\ Underway(r)
    BY <1>18, <2>1
  <2>3. kept'[r] = <<>>
    BY <2>1, <2>2 DEF Underway
  <2>4. Stripped(Permitted(r), Choice(r), NoCalls)
    BY <2>1 DEF Stripped
  <2> QED
    BY <2>1, <2>2, <2>3, <2>4, NextChoiceKeeps
<1>22. CASE Finish(r)
  <2>1. pc[r] = "filter" /\ at[r][1] > Len(answer[r]) /\ UNCHANGED <<inputs, filter>> /\ Reply(r, "ok")
    BY <1>22 DEF Finish
  <2>2. at[r][1] = Len(out[r]) + 1 /\ Len(out[r]) <= Len(answer[r])
    BY <1>18, <2>1 DEF Underway, FilterInv, Rewritten
  <2>3. Len(out[r]) \in Nat /\ Len(answer[r]) \in Nat
    <3>1. out[r] \in Seq(NonEmptySeq(Tools) \cup {NoCalls, Blocked})
          /\ answer[r] \in Seq(Seq(Tools) \cup {NoCalls})
      BY DEF TypeOK
    <3> HIDE DEF NonEmptySeq
    <3> QED
      BY <3>1
  <2>4. Len(out[r]) = Len(answer[r])
    BY <2>1, <2>2, <2>3
  <2> QED
    BY <1>3, <2>1, <2>4 DEF Outcomes
<1>23. CASE Dispatch(r)
  BY <1>2, <1>23 DEF Dispatch
<1>24. CASE ConnectorReturns(r)
  <2>1. pc[r] \in OnTool /\ UNCHANGED <<inputs, ask, answer, out>>
    BY <1>24 DEF ConnectorReturns, OnTool
  <2>2. CASE kind[r] = "chat" /\ Keep(r) /\ UNCHANGED reply
    <3>1. InFilter(r) /\ Allowed(r, ask[r])
      BY <1>h, <2>1, <2>2 DEF VerdictInv
    <3> QED
      BY <1>9, <2>1, <2>2, <3>1 DEF OnTool
  <2>3. CASE kind[r] = "mcp" /\ UNCHANGED <<at, kept>> /\ \/ Reply(r, "ok") \/ Reply(r, "internal")
    <3>1. {"ok", "internal"} \subseteq Outcomes
      BY DEF Outcomes
    <3> QED
      BY <1>3, <2>1, <2>3, <3>1 DEF OnTool
  <2> QED
    BY <1>24, <2>2, <2>3 DEF ConnectorReturns
<1>25. CASE Disconnect(r)
  BY <1>3, <1>25 DEF Disconnect, Awaiting, Outcomes
<1> QED
  BY <1>1, <1>4, <1>5, <1>6, <1>7, <1>8, <1>10, <1>11, <1>12, <1>13, <1>14, <1>16,
     <1>17, <1>19, <1>20, <1>21, <1>22, <1>23, <1>24, <1>25
  DEF StepOf, Handler, Peer

-----------------------------------------------------------------------------
\* Positions of the filter are ordered, and every move of it goes forward.
LEMMA Positions ==
    ASSUME NEW a \in Nat \X Nat, NEW b \in Nat \X Nat
    PROVE  /\ ~Before(a, <<0, 0>>)
           /\ Before(b, <<b[1], b[2] + 1>>) /\ Before(b, <<b[1] + 1, 1>>)
           /\ Before(<<0, 0>>, <<1, 1>>)
           /\ \A c \in Nat \X Nat : AtMost(a, b) /\ Before(b, c) => Before(a, c)
BY DEF Before, AtMost

\* Before a verdict is heard, nothing is recorded for the filter's position.
Early == {"idle", "auth", "count", "check", "filter"}

\* A handler ends where it stands, goes on without moving the filter, or moves
\* the filter forward.
LEMMA Strides ==
    ASSUME TypeOK, HandlerInv, NEW r \in Requests, StepOf(r)
    PROVE  /\ pc[r] # "done"
           /\ \/ pc'[r] = "done" /\ at'[r] = at[r]
              \/ /\ at'[r] = at[r] /\ pc'[r] # "done" /\ pc[r] # "exec"
                 /\ pc'[r] = "exec" <=> pc[r] = "dispatch"
                 /\ pc'[r] \in Early => pc[r] \in Early
              \/ pc'[r] = "filter" /\ Before(at[r], at'[r])
<1>h. AskInv(r) /\ VerdictInv(r)
  BY DEF HandlerInv
<1>0. at \in [Requests -> Nat \X Nat] /\ pc \in [Requests -> PCs]
  BY DEF TypeOK
<1>b. /\ Before(at[r], <<at[r][1], at[r][2] + 1>>) /\ Before(at[r], <<at[r][1] + 1, 1>>)
      /\ Before(<<0, 0>>, <<1, 1>>)
  BY <1>0, Positions
<1> USE <1>0, <1>b DEF Move, Reply, Early
<1>1. CASE Arrive(r)
  BY <1>1 DEF Arrive
<1>2. CASE Authenticate(r)
  BY <1>2 DEF Authenticate
<1>3. CASE RefuseToBind(r)
  BY <1>3 DEF RefuseToBind
<1>4. CASE CountCheck(r)
  BY <1>4 DEF CountCheck
<1>5. CASE EngineCheck(r)
  BY <1>5 DEF EngineCheck, AllowOrForbid
<1>6. CASE DirectCheck(r)
  BY <1>6 DEF DirectCheck, McpDecided, A2aDecided
<1>7. CASE TallyAllow(r)
  BY <1>7 DEF TallyAllow, Keep, NextCallOf
<1>8. CASE TallyDeny(r)
  BY <1>8 DEF TallyDeny, NextCallOf
<1>9. CASE Forward(r)
  BY <1>9 DEF Forward
<1>10. CASE Send(r)
  BY <1>10 DEF Send
<1>11. CASE UpstreamFails(r)
  BY <1>11 DEF UpstreamFails
<1>12. CASE UpstreamStreams(r)
  BY <1>12 DEF UpstreamStreams
<1>13. CASE UpstreamAnswers(r)
  <2>1. at[r] = <<0, 0>>
    BY <1>13, <1>h DEF UpstreamAnswers, AskInv, AwaitsLLM, InFilter
  <2> QED
    BY <1>13, <2>1 DEF UpstreamAnswers
<1>14. CASE NextCall(r)
  BY <1>14 DEF NextCall, AtChoice
<1>15. CASE EndOfCalls(r)
  BY <1>15 DEF EndOfCalls, AtChoice, NextChoiceOf
<1>16. CASE SkipChoice(r)
  BY <1>16 DEF SkipChoice, AtChoice, NextChoiceOf
<1>17. CASE Finish(r)
  BY <1>17 DEF Finish
<1>18. CASE Dispatch(r)
  BY <1>18 DEF Dispatch
<1>19. CASE ConnectorReturns(r)
  BY <1>19 DEF ConnectorReturns, Keep, NextCallOf
<1>20. CASE Disconnect(r)
  BY <1>20 DEF Disconnect, Awaiting
<1> QED
  BY <1>1, <1>2, <1>3, <1>4, <1>5, <1>6, <1>7, <1>8, <1>9, <1>10, <1>11, <1>12,
     <1>13, <1>14, <1>15, <1>16, <1>17, <1>18, <1>19, <1>20
  DEF StepOf, Handler, Peer

\* Only the engine's check records, if the store listens, and what it records is its
\* verdict on the query under check, at the filter's position.
LEMMA AuditSteps ==
    ASSUME TypeOK, NEW r \in Requests, StepOf(r)
    PROVE  /\ listening' = listening
           /\ ~listening => audit' = audit
           /\ \/ audit' = audit /\ pc'[r] # "tally"
              \/ /\ pc[r] = "check" /\ kind[r] \in {"chat", "retrieve", "check"}
                 /\ effect'[r] \in Effects
                 /\ listening => audit' = audit \cup {[req |-> r, at |-> at[r], ask |-> ask[r],
                                                       effect |-> effect'[r]]}
                 /\ pc'[r] = IF kind[r] = "retrieve" THEN "done" ELSE "tally"
                 /\ UNCHANGED <<inputs, ask, filter, world>>
<1> USE DEF TypeOK, Move, Reply
<1>1. CASE Arrive(r)
  BY <1>1 DEF Arrive
<1>2. CASE Authenticate(r)
  BY <1>2 DEF Authenticate
<1>3. CASE RefuseToBind(r)
  BY <1>3 DEF RefuseToBind
<1>4. CASE CountCheck(r)
  BY <1>4 DEF CountCheck
<1>5. CASE EngineCheck(r)
  <2> DEFINE v == Verdict(who[r], ask[r])
  <2>1. effect'[r] = v /\ pc[r] = "check" /\ kind[r] \in {"chat", "retrieve", "check"}
        /\ UNCHANGED <<inputs, ask, filter, world>>
    BY <1>5 DEF EngineCheck
  <2>2. \/ audit' = audit /\ pc'[r] = "done" /\ listening' = listening
        \/ /\ v \in Effects /\ Enqueue(r, v) /\ listening' = listening
           /\ pc'[r] = IF kind[r] = "retrieve" THEN "done" ELSE "tally"
    BY <1>5 DEF EngineCheck, AllowOrForbid
  <2> QED
    BY <2>1, <2>2 DEF Enqueue
<1>6. CASE DirectCheck(r)
  BY <1>6 DEF DirectCheck, McpDecided, A2aDecided
<1>7. CASE TallyAllow(r)
  BY <1>7 DEF TallyAllow, Keep, NextCallOf
<1>8. CASE TallyDeny(r)
  BY <1>8 DEF TallyDeny, NextCallOf
<1>9. CASE Forward(r)
  BY <1>9 DEF Forward
<1>10. CASE Send(r)
  BY <1>10 DEF Send
<1>11. CASE UpstreamFails(r)
  BY <1>11 DEF UpstreamFails
<1>12. CASE UpstreamStreams(r)
  BY <1>12 DEF UpstreamStreams
<1>13. CASE UpstreamAnswers(r)
  BY <1>13 DEF UpstreamAnswers
<1>14. CASE NextCall(r)
  BY <1>14 DEF NextCall
<1>15. CASE EndOfCalls(r)
  BY <1>15 DEF EndOfCalls, AtChoice
<1>16. CASE SkipChoice(r)
  BY <1>16 DEF SkipChoice, AtChoice
<1>17. CASE Finish(r)
  BY <1>17 DEF Finish
<1>18. CASE Dispatch(r)
  BY <1>18 DEF Dispatch
<1>19. CASE ConnectorReturns(r)
  BY <1>19 DEF ConnectorReturns, Keep
<1>20. CASE Disconnect(r)
  BY <1>20 DEF Disconnect
<1> QED
  BY <1>1, <1>2, <1>3, <1>4, <1>5, <1>6, <1>7, <1>8, <1>9, <1>10, <1>11, <1>12,
     <1>13, <1>14, <1>15, <1>16, <1>17, <1>18, <1>19, <1>20
  DEF StepOf, Handler, Peer

\* What the handler executed stays in the order of the reply.
LEMMA OwnExec ==
    ASSUME TypeOK, HandlerInv, NEW r \in Requests, ExecInv(r), StepOf(r)
    PROVE  ExecInv(r)'
<1> DEFINE C == [at : Nat \X Nat, call : Queries]
           e == [at |-> at[r], call |-> ask[r]]
<1>0. executed[r] \in Seq(C) /\ at[r] \in Nat \X Nat /\ at'[r] \in Nat \X Nat
  BY TypePreserved DEF TypeOK
<1>1. \A i \in DOMAIN executed[r] : executed[r][i].at \in Nat \X Nat
  <2>1. \A i \in DOMAIN executed[r] : executed[r][i] \in C
    <3> HIDE DEF C
    <3> QED
      BY <1>0
  <2> QED
    BY <2>1
<1>2. \/ executed'[r] = executed[r] /\ pc'[r] # "exec"
      \/ pc[r] = "dispatch" /\ pc'[r] = "exec" /\ executed'[r] = Append(executed[r], e)
      \/ pc'[r] = "done"
      \/ executed'[r] = executed[r] /\ pc'[r] = "filter"
  <2>1. CASE Dispatch(r)
    BY <2>1 DEF Dispatch, Move, TypeOK
  <2>2. CASE executed' = executed /\ pc[r] # "dispatch"
    BY <2>2, Strides
  <2>3. CASE pc[r] = "dispatch" /\ ~Dispatch(r)
    <3>1. ConnectorReturns(r) \/ Disconnect(r)
      BY <2>3 DEF StepOf, Handler, Peer, Arrive, Authenticate, RefuseToBind, CountCheck,
           EngineCheck, DirectCheck, TallyAllow, TallyDeny, Forward, Send, UpstreamFails,
           UpstreamStreams, UpstreamAnswers, NextCall, EndOfCalls, SkipChoice, AtChoice, Finish
    <3> QED
      BY <3>1 DEF ConnectorReturns, Disconnect, Keep, Move, Reply, TypeOK
  <2> QED
    BY <2>1, <2>2, <2>3, WorldSteps
<1>3. CASE pc'[r] = "done"
  BY <1>3 DEF ExecInv
<1>4. CASE pc[r] = "dispatch" /\ pc'[r] = "exec" /\ executed'[r] = Append(executed[r], e)
  <2>1. at'[r] = at[r]
    BY <1>4, Strides
  <2>2. \A i \in DOMAIN executed[r] : Before(executed[r][i].at, at[r])
    BY <1>4 DEF ExecInv
  <2>3. ASSUME NEW i \in DOMAIN executed'[r]
        PROVE  \/ i \in DOMAIN executed[r] /\ executed'[r][i] = executed[r][i]
               \/ executed'[r][i] = e
    BY <1>0, <1>4, <2>3
  <2>4. \A i \in DOMAIN executed'[r] : AtMost(executed'[r][i].at, at'[r])
    BY <2>1, <2>2, <2>3 DEF AtMost
  <2> QED
    BY <1>4, <2>4 DEF ExecInv
<1>5. CASE executed'[r] = executed[r] /\ pc'[r] # "exec" /\ pc'[r] # "done"
  <2>1. CASE at'[r] = at[r] /\ pc[r] \notin {"exec", "done"}
    BY <1>5, <2>1 DEF ExecInv
  <2>2. CASE Before(at[r], at'[r]) /\ pc[r] # "done"
    <3>1. \A i \in DOMAIN executed[r] : AtMost(executed[r][i].at, at[r])
      BY <2>2 DEF ExecInv, AtMost
    <3>2. \A i \in DOMAIN executed[r] : Before(executed[r][i].at, at'[r])
      BY <1>0, <1>1, <2>2, <3>1, Positions
    <3> QED
      BY <1>5, <3>2 DEF ExecInv
  <2> QED
    BY <1>5, <2>1, <2>2, Strides
<1> QED
  BY <1>2, <1>3, <1>4, <1>5

\* What the handler recorded came before what it is at.
LEMMA OwnPositions ==
    ASSUME TypeOK, HandlerInv, NEW r \in Requests, AuditInv(r), StepOf(r),
           NEW e \in audit', e.req = r, pc'[r] # "done"
    PROVE  AtMost(e.at, at'[r]) /\ (pc'[r] \in Early => Before(e.at, at'[r]))
<1>0. /\ at[r] \in Nat \X Nat /\ at'[r] \in Nat \X Nat
      /\ \A d \in audit : d.at \in Nat \X Nat
  BY TypePreserved DEF TypeOK, AuditEntry
<1>1. CASE e \in audit
  <2>1. AtMost(e.at, at[r]) /\ (pc[r] \in Early => Before(e.at, at[r]))
    BY <1>1, Strides DEF AuditInv, Early
  <2>2. CASE at'[r] = at[r] /\ (pc'[r] \in Early => pc[r] \in Early)
    BY <2>1, <2>2
  <2>3. CASE Before(at[r], at'[r])
    <3>1. Before(e.at, at'[r])
      BY <1>0, <1>1, <2>1, <2>3, Positions
    <3> QED
      BY <3>1 DEF AtMost
  <2> QED
    BY <2>2, <2>3, Strides
<1>2. CASE e \notin audit
  <2>1. e.at = at[r] /\ UNCHANGED at /\ pc'[r] = "tally"
    BY <1>2, AuditSteps
  <2> QED
    BY <2>1 DEF AtMost, Early
<1> QED
  BY <1>1, <1>2

\* What the handler is about to act on, and what it did, is in the audit channel.
LEMMA OwnEvidence ==
    ASSUME TypeOK, HandlerInv, NEW r \in Requests, listening, Evidenced(r), StepOf(r)
    PROVE  Evidenced(r)'
<1>h. FreshInv(r) /\ AskInv(r) /\ VerdictInv(r)
  BY DEF HandlerInv
<1>1. audit \subseteq audit'
  BY AuditSteps
<1>4. ASSUME pc'[r] = "tally"
      PROVE  ([req |-> r, at |-> at[r], ask |-> ask[r], effect |-> effect[r]] \in audit)'
  BY <1>4, AuditSteps
<1>5. /\ (pc[r] \in AwaitsLLM /\ prompt[r] # NoIntent => Recorded(r, <<0, 0>>, prompt[r]))'
      /\ (pc[r] \in OnTool /\ kind[r] = "chat" => Recorded(r, at[r], ask[r]))'
  <2> USE DEF TypeOK, Move, Reply, AwaitsLLM, OnTool
  <2>1. CASE TallyAllow(r)
    <3>1. Recorded(r, at[r], ask[r]) /\ pc[r] = "tally"
      BY <2>1 DEF TallyAllow, Permits, Evidenced, Recorded
    <3>2. pc'[r] \in AwaitsLLM => at[r] = <<0, 0>> /\ ask[r] = prompt[r]
      BY <2>1, <1>h DEF TallyAllow, Keep, AskInv, InFilter
    <3>3. UNCHANGED <<inputs, ask>> /\ (pc'[r] \in OnTool => at' = at)
      BY <2>1 DEF TallyAllow, Keep
    <3>4. Recorded(r, at[r], ask[r])'  \/ at'[r] # at[r]
      BY <3>1, <3>3, <1>1 DEF Recorded
    <3>5. Recorded(r, at[r], ask[r]) => [req |-> r, at |-> at[r], ask |-> ask[r], effect |-> "ALLOW"] \in audit'
      BY <1>1 DEF Recorded
    <3> QED
      BY <3>1, <3>2, <3>3, <3>5 DEF Recorded
  <2>2. CASE Authenticate(r)
    BY <2>2 DEF Authenticate
  <2>3. CASE Forward(r) \/ Send(r) \/ Dispatch(r)
    <3>1. UNCHANGED <<inputs, ask, at, audit>>
      BY <2>3 DEF Forward, Send, Dispatch
    <3>2. (pc'[r] \in AwaitsLLM => pc[r] \in AwaitsLLM) /\ (pc'[r] \in OnTool => pc[r] \in OnTool)
      BY <2>3 DEF Forward, Send, Dispatch
    <3> QED
      BY <3>1, <3>2 DEF Evidenced, Recorded
  <2>4. CASE DirectCheck(r)
    <3>1. UNCHANGED inputs /\ kind[r] # "chat" /\ pc'[r] \notin AwaitsLLM
      BY <2>4 DEF DirectCheck, McpDecided, A2aDecided
    <3> QED
      BY <3>1
  <2>5. CASE ~(TallyAllow(r) \/ Authenticate(r) \/ Forward(r) \/ Send(r) \/ Dispatch(r)
                 \/ DirectCheck(r))
    <3>1. pc'[r] \in {"done", "auth", "count", "check", "tally", "filter"}
      BY <2>5 DEF StepOf, Handler, Peer, Arrive, RefuseToBind, CountCheck, EngineCheck,
           AllowOrForbid, TallyDeny, UpstreamFails, UpstreamStreams, UpstreamAnswers, NextCall,
           EndOfCalls, SkipChoice, AtChoice, Finish, ConnectorReturns, Keep, Disconnect
    <3> QED
      BY <3>1
  <2> QED
    BY <2>1, <2>2, <2>3, <2>4, <2>5
<1>6. (r \in upstream /\ prompt[r] # NoIntent => Recorded(r, <<0, 0>>, prompt[r]))'
  <2> SUFFICES ASSUME r \in upstream', prompt'[r] # NoIntent
               PROVE  Recorded(r, <<0, 0>>, prompt[r])'
    OBVIOUS
  <2>1. UNCHANGED inputs /\ (r \in upstream \/ pc[r] = "send")
    BY <1>h, WorldSteps DEF FreshInv
  <2>2. Recorded(r, <<0, 0>>, prompt[r])
    BY <2>1 DEF Evidenced, AwaitsLLM
  <2> QED
    BY <1>1, <2>1, <2>2 DEF Recorded
<1>7. (kind[r] = "chat" => \A i \in DOMAIN executed[r] :
          Recorded(r, executed[r][i].at, executed[r][i].call))'
  <2> SUFFICES ASSUME kind'[r] = "chat", NEW i \in DOMAIN executed'[r]
               PROVE  [req |-> r, at |-> executed'[r][i].at, ask |-> executed'[r][i].call,
                       effect |-> "ALLOW"] \in audit'
    BY DEF Recorded
  <2>1. UNCHANGED inputs
    <3>1. pc[r] = "idle" => executed'[r] = <<>>
      BY <1>h, WorldSteps DEF FreshInv
    <3>2. executed'[r] # <<>>
      OBVIOUS
    <3> QED
      BY <3>1, <3>2, WorldSteps
  <2>2. CASE executed' = executed
    BY <1>1, <2>1, <2>2 DEF Evidenced, Recorded
  <2>3. CASE executed' # executed
    <3> DEFINE e == [at |-> at[r], call |-> ask[r]]
               C == [at : Nat \X Nat, call : Queries]
    <3>1. pc[r] = "dispatch" /\ executed'[r] = Append(executed[r], e)
      <4>1. /\ pc[r] = "dispatch"
            /\ executed' = [executed EXCEPT ![r] = Append(@, e)]
        BY <2>3, WorldSteps
      <4>2. executed \in [Requests -> Seq(C)]
        BY DEF TypeOK
      <4> HIDE DEF e, C
      <4> QED
        BY <4>1, <4>2
    <3>2. executed[r] \in Seq(C)
      BY DEF TypeOK
    <3>3. \/ i \in DOMAIN executed[r] /\ executed'[r][i] = executed[r][i]
          \/ executed'[r][i] = e
      BY <3>1, <3>2
    <3>4. Recorded(r, e.at, e.call)
      BY <2>1, <3>1 DEF Evidenced, OnTool
    <3>5. Recorded(r, executed'[r][i].at, executed'[r][i].call)
      BY <2>1, <3>3, <3>4 DEF Evidenced
    <3> QED
      BY <1>1, <3>5 DEF Recorded
  <2> QED
    BY <2>2, <2>3
<1> QED
  BY <1>4, <1>5, <1>6, <1>7 DEF Evidenced

\* Both as the handler steps.
LEMMA OwnAudit ==
    ASSUME TypeOK, HandlerInv, NEW r \in Requests, AuditInv(r), StepOf(r)
    PROVE  AuditInv(r)'
<1>1. listening' = listening
  BY AuditSteps
<1>2. (listening => Evidenced(r))'
  BY <1>1, OwnEvidence DEF AuditInv
<1>3. ASSUME NEW e \in audit', e.req = r, pc'[r] # "done"
      PROVE  AtMost(e.at, at'[r]) /\ (pc'[r] \in Early => Before(e.at, at'[r]))
  BY <1>3, OwnPositions
<1> QED
  BY <1>2, <1>3 DEF AuditInv, Early

\* What a step does to the counters: a check is counted before it is made and
\* its verdict after it, and an error is never followed by a verdict.
LEMMA CounterSteps ==
    ASSUME TypeOK, HandlerInv, NEW r \in Requests, CountInv(r), StepOf(r)
    PROVE  /\ CountInv(r)'
           /\ \/ /\ metrics' = [metrics EXCEPT !["checks"] = @ + 1]
                 /\ r \notin Unsettled /\ r \in Unsettled'
                 /\ r \notin Tallying /\ (r \in Sent' => r \in Sent)
              \/ /\ \/ metrics' = [metrics EXCEPT !["allows"] = @ + 1]
                    \/ metrics' = [metrics EXCEPT !["denies"] = @ + 1]
                 /\ r \in Unsettled /\ r \notin Unsettled'
                 /\ r \in Tallying /\ (r \in Sent' => r \in Sent)
              \/ /\ metrics' = [metrics EXCEPT !["upstream"] = @ + 1]
                 /\ r \in Unsettled' <=> r \in Unsettled
                 /\ r \notin Tallying
              \/ /\ metrics' = metrics
                 /\ r \in Unsettled' <=> r \in Unsettled
                 /\ r \notin Tallying /\ (r \in Sent' => r \in Sent)
<1>h. FreshInv(r) /\ AskInv(r) /\ VerdictInv(r)
  BY DEF HandlerInv
<1> USE <1>h, ConstantsOK
    DEF TypeOK, Move, Reply, Bump, Unsettled, Counted, Tallying, Sent, CountInv, Effects
<1>1. CASE Arrive(r)
  BY <1>1 DEF Arrive
<1>2. CASE Authenticate(r)
  BY <1>2 DEF Authenticate
<1>3. CASE RefuseToBind(r)
  BY <1>3 DEF RefuseToBind
<1>4. CASE CountCheck(r)
  BY <1>4 DEF CountCheck
<1>5. CASE EngineCheck(r)
  <2> DEFINE v == Verdict(who[r], ask[r])
  <2>1. v \in {"ALLOW", "DENY", "ERROR", "NOT_READY"}
    BY <1>5 DEF EngineCheck, Verdict, FreshInv, AskInv
  <2>2. effect'[r] = v /\ pc[r] = "check" /\ UNCHANGED <<kind, upstream, metrics>>
    BY <1>5 DEF EngineCheck
  <2>3. \/ v \in {"ERROR", "NOT_READY"} /\ pc'[r] = "done"
        \/ v \in {"ALLOW", "DENY"} /\ kind[r] = "retrieve" /\ pc'[r] = "done"
        \/ v \in {"ALLOW", "DENY"} /\ kind[r] # "retrieve" /\ pc'[r] = "tally"
    BY <1>5, <2>1 DEF EngineCheck, AllowOrForbid
  <2> HIDE DEF v
  <2> QED
    BY <1>5, <2>1, <2>2, <2>3 DEF EngineCheck
<1>6. CASE DirectCheck(r)
  BY <1>6 DEF DirectCheck, McpDecided, A2aDecided
<1>7. CASE TallyAllow(r)
  BY <1>7 DEF TallyAllow, Keep, VerdictInv
<1>8. CASE TallyDeny(r)
  BY <1>8 DEF TallyDeny, VerdictInv
<1>9. CASE Forward(r)
  BY <1>9 DEF Forward
<1>10. CASE Send(r)
  BY <1>10 DEF Send
<1>11. CASE UpstreamFails(r)
  BY <1>11 DEF UpstreamFails
<1>12. CASE UpstreamStreams(r)
  BY <1>12 DEF UpstreamStreams
<1>13. CASE UpstreamAnswers(r)
  BY <1>13 DEF UpstreamAnswers
<1>14. CASE NextCall(r)
  BY <1>14 DEF NextCall, AtChoice, AskInv
<1>15. CASE EndOfCalls(r)
  BY <1>15 DEF EndOfCalls, AtChoice
<1>16. CASE SkipChoice(r)
  BY <1>16 DEF SkipChoice, AtChoice
<1>17. CASE Finish(r)
  BY <1>17 DEF Finish
<1>18. CASE Dispatch(r)
  BY <1>18 DEF Dispatch
<1>19. CASE ConnectorReturns(r)
  BY <1>19 DEF ConnectorReturns, Keep
<1>20. CASE Disconnect(r)
  BY <1>20 DEF Disconnect, Awaiting
<1> QED
  BY <1>1, <1>2, <1>3, <1>4, <1>5, <1>6, <1>7, <1>8, <1>9, <1>10, <1>11, <1>12,
     <1>13, <1>14, <1>15, <1>16, <1>17, <1>18, <1>19, <1>20
  DEF StepOf, Handler, Peer

\* A set of which one element may come or go.
LEMMA OneComesOrGoes ==
    ASSUME NEW A, NEW B, NEW x, IsFiniteSet(A), \A y : y # x => (y \in A <=> y \in B)
    PROVE  /\ IsFiniteSet(B) /\ Cardinality(A) \in Nat /\ Cardinality(B) \in Nat
           /\ (x \in A <=> x \in B) => A = B
           /\ x \notin A /\ x \in B => Cardinality(B) = Cardinality(A) + 1
           /\ x \in A /\ x \notin B => Cardinality(A) = Cardinality(B) + 1
           /\ (x \in B => x \in A) => Cardinality(B) <= Cardinality(A)
           /\ Cardinality(B) <= Cardinality(A) + 1
<1>1. CASE x \in A <=> x \in B
  <2>1. A = B
    BY <1>1
  <2> QED
    BY <1>1, <2>1, FS_CardinalityType
<1>2. CASE x \notin A /\ x \in B
  <2>1. B = A \cup {x}
    BY <1>2
  <2> QED
    BY <1>2, <2>1, FS_AddElement, FS_CardinalityType
<1>3. CASE x \in A /\ x \notin B
  <2>1. B = A \ {x} /\ A = B \cup {x}
    BY <1>3
  <2>2. IsFiniteSet(B)
    BY <2>1, FS_RemoveElement
  <2> QED
    BY <1>3, <2>1, <2>2, FS_AddElement, FS_CardinalityType
<1> QED
  BY <1>1, <1>2, <1>3

\* The request that steps is the only one whose standing may change.
LEMMA OthersStay ==
    ASSUME TypeOK, NEW r \in Requests, StepOf(r)
    PROVE  /\ \A s : s # r => (s \in Unsettled <=> s \in Unsettled')
           /\ \A s : s # r => (s \in Tallying <=> s \in Tallying')
           /\ \A s : s # r => (s \in Sent <=> s \in Sent')
<1>1. \A s \in Requests : s # r =>
          /\ kind'[s] = kind[s] /\ pc'[s] = pc[s] /\ effect'[s] = effect[s]
          /\ s \in upstream' <=> s \in upstream
  BY Frame DEF Local
<1>2. upstream \subseteq Requests /\ upstream' \subseteq Requests
  <2>1. upstream \subseteq Requests
    BY DEF TypeOK
  <2>2. upstream' = upstream \/ upstream' = upstream \cup {r}
    BY WorldSteps
  <2> QED
    BY <2>1, <2>2
<1> QED
  BY <1>1, <1>2 DEF Unsettled, Counted, Tallying, Sent

\* Sets of requests are finite.
LEMMA FiniteRequests ==
    TypeOK => IsFiniteSet(Unsettled) /\ IsFiniteSet(Tallying) /\ IsFiniteSet(Sent)
<1> SUFFICES ASSUME TypeOK PROVE IsFiniteSet(Unsettled) /\ IsFiniteSet(Tallying) /\ IsFiniteSet(Sent)
  OBVIOUS
<1>1. Unsettled \subseteq Requests /\ Tallying \subseteq Requests /\ Sent \subseteq Requests
  BY DEF Unsettled, Counted, Tallying, Sent, TypeOK
<1> QED
  BY <1>1, ConstantsOK, FS_Subset

\* While the store listens, the audit channel gains one decision of a counted route
\* exactly when its handler goes on to count it.
LEMMA VerdictsRecorded ==
    ASSUME TypeOK, HandlerInv, NEW r \in Requests, AuditInv(r), StepOf(r), IsFiniteSet(audit),
           listening
    PROVE  /\ IsFiniteSet(audit')
           /\ r \notin Tallying' => AuditedVerdicts' = AuditedVerdicts
           /\ r \in Tallying' =>
                /\ r \notin Tallying
                /\ Cardinality(AuditedVerdicts') = Cardinality(AuditedVerdicts) + 1
<1>1. \A e \in audit : e.req \in Requests
  BY DEF TypeOK, AuditEntry
<1>2. \A e \in audit : kind'[e.req] = kind[e.req]
  <2>1. CASE pc[r] = "idle"
    <3>1. \A e \in audit : e.req # r
      <4>1. at[r] = <<0, 0>>
        BY <2>1 DEF HandlerInv, AskInv, InFilter
      <4>2. \A e \in audit : e.at \in Nat \X Nat
        BY DEF TypeOK, AuditEntry
      <4>3. \A e \in audit : ~Before(e.at, <<0, 0>>)
        BY <4>2 DEF Before
      <4> QED
        BY <2>1, <4>1, <4>3 DEF AuditInv
    <3> QED
      BY <1>1, <3>1, Frame DEF Local
  <2>2. CASE pc[r] # "idle"
    BY <2>2, WorldSteps
  <2> QED
    BY <2>1, <2>2
<1>3. CASE audit' = audit /\ pc'[r] # "tally"
  <2>1. AuditedVerdicts' = AuditedVerdicts
    BY <1>2, <1>3 DEF AuditedVerdicts
  <2> QED
    BY <1>3, <2>1 DEF Tallying
<1>4. CASE ~(audit' = audit /\ pc'[r] # "tally")
  <2> DEFINE e == [req |-> r, at |-> at[r], ask |-> ask[r], effect |-> effect'[r]]
  <2>1. /\ pc[r] = "check" /\ UNCHANGED inputs
        /\ audit' = audit \cup {e}
        /\ pc'[r] = IF kind[r] = "retrieve" THEN "done" ELSE "tally"
    BY <1>4, AuditSteps
  <2>2. e.req = r /\ e.at = at[r]
    OBVIOUS
  <2>3. IsFiniteSet(audit')
    BY <2>1, FS_AddElement
  <2>4. e \notin audit
    <3>1. \A d \in audit : d.req = r => Before(d.at, at[r])
      BY <2>1 DEF AuditInv
    <3>2. ~Before(at[r], at[r])
      BY DEF Before, TypeOK
    <3> QED
      BY <2>2, <3>1, <3>2
  <2> HIDE DEF e
  <2>5. CASE kind[r] = "retrieve"
    <3>1. AuditedVerdicts' = AuditedVerdicts
      BY <2>1, <2>2, <2>5 DEF AuditedVerdicts
    <3> QED
      BY <2>1, <2>3, <2>5, <3>1 DEF Tallying
  <2>6. CASE kind[r] # "retrieve"
    <3>1. AuditedVerdicts' = AuditedVerdicts \cup {e} /\ e \notin AuditedVerdicts
      BY <2>1, <2>2, <2>4, <2>6 DEF AuditedVerdicts
    <3>2. IsFiniteSet(AuditedVerdicts)
      <4>1. AuditedVerdicts \subseteq audit
        BY DEF AuditedVerdicts
      <4> QED
        BY <4>1, FS_Subset
    <3>3. Cardinality(AuditedVerdicts') = Cardinality(AuditedVerdicts) + 1
      BY <3>1, <3>2, FS_AddElement
    <3> QED
      BY <2>1, <2>3, <2>6, <3>3 DEF Tallying
  <2> QED
    BY <2>5, <2>6
<1> QED
  BY <1>3, <1>4

\* A call that is executed comes after all that were executed before it.
LEMMA OrderPreserved ==
    ASSUME TypeOK, HandlerInv, DeedsInv, ExecutedOnceInOrder, NEW r \in Requests, StepOf(r)
    PROVE  ExecutedOnceInOrder'
<1> SUFFICES ASSUME NEW s \in Requests,
                    NEW i \in DOMAIN executed'[s], NEW j \in DOMAIN executed'[s], i < j
             PROVE  Before(executed'[s][i].at, executed'[s][j].at)
  BY DEF ExecutedOnceInOrder, Before
<1>1. CASE executed'[s] = executed[s]
  BY <1>1 DEF ExecutedOnceInOrder
<1>2. CASE executed'[s] # executed[s]
  <2> DEFINE e == [at |-> at[r], call |-> ask[r]]
             C == [at : Nat \X Nat, call : Queries]
  <2>1. s = r /\ pc[r] = "dispatch" /\ executed'[r] = Append(executed[r], e)
    <3>1. pc[r] = "dispatch" /\ executed' = [executed EXCEPT ![r] = Append(executed[r], e)]
      BY <1>2, WorldSteps
    <3> HIDE DEF e
    <3> QED
      BY <1>2, <3>1 DEF TypeOK
  <2>2. executed[r] \in Seq(C) /\ e.at = at[r]
    BY DEF TypeOK
  <2>3. \A k \in DOMAIN executed[r] : Before(executed[r][k].at, at[r])
    BY <2>1 DEF DeedsInv, ExecInv
  <2> HIDE DEF e, C
  <2>4. /\ i \in DOMAIN executed[r] /\ executed'[r][i] = executed[r][i]
        /\ \/ j \in DOMAIN executed[r] /\ executed'[r][j] = executed[r][j]
           \/ executed'[r][j] = e
    BY <2>1, <2>2
  <2> QED
    BY <2>1, <2>2, <2>3, <2>4 DEF ExecutedOnceInOrder
<1> QED
  BY <1>1, <1>2

\* Every step keeps the counters and the audit channel in agreement.
LEMMA LedgerPreserved ==
    ASSUME TypeOK, HandlerInv, DeedsInv, LedgerInv, NEW r \in Requests, StepOf(r)
    PROVE  LedgerInv'
<1>0. /\ CountInv(r) /\ AuditInv(r) /\ IsFiniteSet(audit)
      /\ \A c \in Counters : metrics[c] \in Nat
      /\ IsFiniteSet(Unsettled) /\ IsFiniteSet(Tallying) /\ IsFiniteSet(Sent)
  BY FiniteRequests DEF DeedsInv, LedgerInv, TypeOK
<1>1. /\ Cardinality(Unsettled) \in Nat /\ Cardinality(Unsettled') \in Nat
      /\ (r \in Unsettled <=> r \in Unsettled') => Unsettled = Unsettled'
      /\ r \notin Unsettled /\ r \in Unsettled' =>
            Cardinality(Unsettled') = Cardinality(Unsettled) + 1
      /\ r \in Unsettled /\ r \notin Unsettled' =>
            Cardinality(Unsettled) = Cardinality(Unsettled') + 1
  BY <1>0, OthersStay, OneComesOrGoes
<1>2. /\ Cardinality(Tallying) \in Nat /\ Cardinality(Tallying') \in Nat
      /\ (r \in Tallying <=> r \in Tallying') => Tallying = Tallying'
      /\ r \notin Tallying /\ r \in Tallying' =>
            Cardinality(Tallying') = Cardinality(Tallying) + 1
      /\ r \in Tallying /\ r \notin Tallying' =>
            Cardinality(Tallying) = Cardinality(Tallying') + 1
  BY <1>0, OthersStay, OneComesOrGoes
<1>3. /\ Cardinality(Sent) \in Nat /\ Cardinality(Sent') \in Nat
      /\ (r \in Sent' => r \in Sent) => Cardinality(Sent') <= Cardinality(Sent)
      /\ Cardinality(Sent') <= Cardinality(Sent) + 1
  BY <1>0, OthersStay, OneComesOrGoes
<1>4. ASSUME listening
      PROVE  /\ IsFiniteSet(audit')
             /\ r \notin Tallying' => AuditedVerdicts' = AuditedVerdicts
             /\ r \in Tallying' =>
                  /\ r \notin Tallying
                  /\ Cardinality(AuditedVerdicts') = Cardinality(AuditedVerdicts) + 1
  BY <1>0, <1>4, VerdictsRecorded
<1>a. listening' = listening /\ (~listening => IsFiniteSet(audit'))
  BY <1>0, AuditSteps
<1>5. /\ metrics \in [Counters -> Nat]
      /\ {"checks", "allows", "denies", "upstream"} \subseteq Counters
      /\ Cardinality(AuditedVerdicts) \in Nat
  <2>1. AuditedVerdicts \subseteq audit
    BY DEF AuditedVerdicts
  <2>2. Cardinality(AuditedVerdicts) \in Nat
    BY <1>0, <2>1, FS_Subset, FS_CardinalityType
  <2> QED
    BY <2>2 DEF TypeOK, Counters
<1>6. CASE /\ metrics' = [metrics EXCEPT !["checks"] = @ + 1]
           /\ r \notin Unsettled /\ r \in Unsettled'
           /\ r \notin Tallying /\ (r \in Sent' => r \in Sent)
  BY <1>1, <1>2, <1>3, <1>4, <1>a, <1>5, <1>6 DEF LedgerInv
<1>7. CASE /\ \/ metrics' = [metrics EXCEPT !["allows"] = @ + 1]
              \/ metrics' = [metrics EXCEPT !["denies"] = @ + 1]
           /\ r \in Unsettled /\ r \notin Unsettled'
           /\ r \in Tallying /\ (r \in Sent' => r \in Sent)
  BY <1>1, <1>2, <1>3, <1>4, <1>a, <1>5, <1>7 DEF LedgerInv
<1>8. CASE /\ metrics' = [metrics EXCEPT !["upstream"] = @ + 1]
           /\ r \in Unsettled' <=> r \in Unsettled
           /\ r \notin Tallying
  BY <1>1, <1>2, <1>3, <1>4, <1>a, <1>5, <1>8 DEF LedgerInv
<1>9. CASE /\ metrics' = metrics
           /\ r \in Unsettled' <=> r \in Unsettled
           /\ r \notin Tallying /\ (r \in Sent' => r \in Sent)
  BY <1>1, <1>2, <1>3, <1>4, <1>a, <1>5, <1>9 DEF LedgerInv
<1> QED
  BY <1>0, <1>6, <1>7, <1>8, <1>9, CounterSteps


-----------------------------------------------------------------------------
\* A step of one handler keeps what every handler has done so far.
LEMMA DeedsPreserved ==
    ASSUME TypeOK, HandlerInv, DeedsInv, NEW r \in Requests, StepOf(r)
    PROVE  DeedsInv'
<1> SUFFICES ASSUME NEW s \in Requests
             PROVE  (FilterInv(s) /\ ExecInv(s) /\ AuditInv(s) /\ CountInv(s))'
  BY DEF DeedsInv
<1>0. /\ FilterInv(s) /\ ExecInv(s) /\ AuditInv(s) /\ CountInv(s)
      /\ FilterInv(r) /\ ExecInv(r) /\ AuditInv(r) /\ CountInv(r)
  BY DEF DeedsInv
<1>1. CASE s = r
  BY <1>0, <1>1, OwnFilter, OwnExec, OwnAudit, CounterSteps
<1>2. CASE s # r
  <2>1. Local(s)' = Local(s) /\ (s \in upstream' <=> s \in upstream)
    BY <1>2, Frame
  <2>2. /\ executes' = executes /\ pc'[s] = pc[s] /\ kind'[s] = kind[s] /\ who'[s] = who[s]
        /\ prompt'[s] = prompt[s] /\ streaming'[s] = streaming[s] /\ ask'[s] = ask[s]
        /\ effect'[s] = effect[s] /\ answer'[s] = answer[s] /\ at'[s] = at[s]
        /\ kept'[s] = kept[s] /\ out'[s] = out[s] /\ reply'[s] = reply[s]
        /\ executed'[s] = executed[s]
    BY <2>1 DEF Local
  <2>3. FilterInv(s)'
    <3>1. /\ Rewritten(s)' /\ (Underway(s) => Underway(s)')
          /\ (OnCall(s) => OnCall(s)')
      BY <1>0, <2>2, FilterRests
    <3> QED
      BY <1>0, <2>2, <3>1 DEF FilterInv, InFilter
  <2>4. /\ listening' = listening
        /\ audit \subseteq audit' /\ (\A e \in audit' : e.req = s => e \in audit)
    BY <1>2, AuditSteps
  <2>5. AuditInv(s)'
    BY <1>0, <2>1, <2>2, <2>4 DEF AuditInv, Evidenced, Recorded
  <2> QED
    BY <1>0, <2>2, <2>3, <2>5 DEF ExecInv, CountInv
<1> QED
  BY <1>1, <1>2

\* The inductive invariant of the proxy.
IInv == TypeOK /\ HandlerInv /\ GatedEffects /\ DeedsInv /\ LedgerInv /\ ExecutedOnceInOrder

\* Before any request the invariant holds.
LEMMA Initially == Init => IInv
<1> SUFFICES ASSUME Init PROVE IInv
  OBVIOUS
<1>1. TypeOK
  BY DEF Init, TypeOK, PCs, Effects, Outcomes, Counters, AuditEntry, Queries
<1>2. HandlerInv
  BY DEF Init, HandlerInv, FreshInv, AskInv, VerdictInv, InFilter, AwaitsLLM, OnTool
<1>3. GatedEffects
  BY DEF Init, GatedEffects
<1>4. DeedsInv
  <2> SUFFICES ASSUME NEW r \in Requests
               PROVE  FilterInv(r) /\ ExecInv(r) /\ AuditInv(r) /\ CountInv(r)
    BY DEF DeedsInv
  <2>1. FilterInv(r)
    <3>1. Len(<<>>) = 0 /\ ~InFilter(r) /\ pc[r] = "idle"
      BY DEF Init, InFilter
    <3> QED
      BY <3>1 DEF Init, FilterInv, Rewritten
  <2> QED
    BY <2>1 DEF Init, ExecInv, AuditInv, Evidenced, CountInv, AwaitsLLM, OnTool
<1>5. LedgerInv
  <2>1. Unsettled = {} /\ Sent = {} /\ Tallying = {} /\ AuditedVerdicts = {}
    BY DEF Init, Unsettled, Counted, Sent, Tallying, AuditedVerdicts
  <2>2. /\ metrics["checks"] = 0 /\ metrics["allows"] = 0 /\ metrics["denies"] = 0
        /\ metrics["upstream"] = 0 /\ audit = {}
    BY DEF Init, Counters
  <2> QED
    BY <2>1, <2>2, FS_EmptySet DEF LedgerInv
<1>6. ExecutedOnceInOrder
  BY DEF Init, ExecutedOnceInOrder
<1> QED
  BY <1>1, <1>2, <1>3, <1>4, <1>5, <1>6 DEF IInv

\* All that the handlers and their peers change; what is left is whether the store
\* still listens.
Rest == <<pc, executes, kind, who, prompt, streaming, ask, effect, filter, reply, world,
          audit, metrics>>

\* Every step of the proxy keeps it.
LEMMA Stepwise == IInv /\ [Next]_vars => IInv'
<1> SUFFICES ASSUME IInv, [Next]_vars PROVE IInv'
  OBVIOUS
<1> USE DEF IInv
<1>1. CASE \E r \in Requests : StepOf(r)
  BY <1>1, TypePreserved, HandlerPreserved, GatedPreserved, DeedsPreserved, LedgerPreserved,
     OrderPreserved
<1>2. CASE UNCHANGED Rest /\ listening' \in BOOLEAN /\ (listening' => listening)
  <2>1. TypeOK'
    BY <1>2 DEF TypeOK, Rest
  <2>2. HandlerInv'
    BY <1>2 DEF HandlerInv, FreshInv, AskInv, VerdictInv, InFilter, Allowed, Rest
  <2>3. GatedEffects'
    BY <1>2 DEF GatedEffects, Allowed, Rest
  <2>4. DeedsInv'
    <3> SUFFICES ASSUME NEW r \in Requests
                 PROVE  (FilterInv(r) /\ ExecInv(r) /\ AuditInv(r) /\ CountInv(r))'
      BY DEF DeedsInv
    <3>1. FilterInv(r) /\ ExecInv(r) /\ AuditInv(r) /\ CountInv(r)
      BY DEF DeedsInv
    <3>2. /\ Rewritten(r)' /\ (Underway(r) => Underway(r)') /\ (OnCall(r) => OnCall(r)')
      BY <1>2, <3>1, FilterRests DEF Rest
    <3>3. FilterInv(r)'
      BY <1>2, <3>1, <3>2 DEF FilterInv, InFilter, Rest
    <3> QED
      BY <1>2, <3>1, <3>3 DEF ExecInv, AuditInv, Evidenced, Recorded, CountInv, Rest
  <2>5. LedgerInv'
    <3>1. Unsettled' = Unsettled /\ Sent' = Sent /\ Tallying' = Tallying
          /\ AuditedVerdicts' = AuditedVerdicts
      BY <1>2 DEF Unsettled, Counted, Sent, Tallying, AuditedVerdicts, Rest
    <3> QED
      BY <1>2, <3>1 DEF LedgerInv, Rest
  <2>6. ExecutedOnceInOrder'
    BY <1>2 DEF ExecutedOnceInOrder, Before, Rest
  <2> QED
    BY <2>1, <2>2, <2>3, <2>4, <2>5, <2>6
<1>3. CASE WriterEnds
  BY <1>2, <1>3 DEF WriterEnds, Rest
<1>4. CASE UNCHANGED vars
  BY <1>2, <1>4 DEF vars, Rest, TypeOK
<1> QED
  BY <1>1, <1>3, <1>4 DEF Next, AllServed, StepOf

\* The invariants hold in every state of every behaviour of the proxy.
THEOREM Invariance == Spec => []IInv
BY Initially, Stepwise, PTL DEF Spec

\* Types, for any number of requests, any policy and any replies of the LLM.
THEOREM TypeCorrect == Spec => []TypeOK
<1>1. IInv => TypeOK
  BY DEF IInv
<1> QED
  BY Invariance, <1>1, PTL

\* docs/ARCHITECTURE.md:68: upstream LLMs and data connectors are never invoked
\* for denied requests, whatever handlers, peers and clients do.
THEOREM OnlyAllowedEffects == Spec => []GatedEffects
<1>1. IInv => GatedEffects
  BY DEF IInv
<1> QED
  BY Invariance, <1>1, PTL

\* routes.rs:187-194: no call of the LLM reaches the connector twice or out of
\* turn, for replies of any length and any failure or disconnection on the way.
THEOREM ExecutedInTurn == Spec => []ExecutedOnceInOrder
<1>1. IInv => ExecutedOnceInOrder
  BY DEF IInv
<1> QED
  BY Invariance, <1>1, PTL

\* routes.rs:132-151 and 169-200: what the call-by-call filter delivers is the
\* reply without the forbidden calls, for replies of any length.
THEOREM FilterIsExact == Spec => []UnstreamedRepliesFiltered
<1>1. ASSUME IInv PROVE UnstreamedRepliesFiltered
  <2> SUFFICES ASSUME NEW r \in Requests, ~streaming[r], kind[r] = "chat", reply[r] = "ok"
               PROVE  /\ Len(out[r]) = Len(answer[r])
                      /\ \A i \in DOMAIN answer[r] : Stripped(Permitted(r), answer[r][i], out[r][i])
    BY DEF UnstreamedRepliesFiltered, Filtered, Delivered
  <2>1. FilterInv(r) /\ answer[r] \in Seq(Seq(Tools) \cup {NoCalls})
    BY <1>1 DEF IInv, DeedsInv, TypeOK
  <2>2. Len(out[r]) = Len(answer[r])
    BY <2>1 DEF FilterInv
  <2>3. DOMAIN answer[r] = 1..Len(answer[r])
    BY <2>1
  <2> QED
    BY <2>1, <2>2, <2>3 DEF FilterInv, Rewritten, ChoiceDone
<1> QED
  BY Invariance, <1>1, PTL

\* routes.rs:75-91, 183-197 and 227-232: counters under locks of their own add up
\* in every state, whatever handlers are in between and whoever disconnects.
THEOREM CountersAddUp == Spec => []MetricsConserved
<1>1. ASSUME IInv PROVE MetricsConserved
  <2>1. upstream \subseteq Sent /\ IsFiniteSet(Sent)
    BY <1>1, FiniteRequests DEF Sent, IInv
  <2>2. Cardinality(upstream) <= Cardinality(Sent) /\ IsFiniteSet(upstream)
    BY <2>1, FS_Subset
  <2>3. Cardinality(upstream) \in Nat /\ Cardinality(Sent) \in Nat /\ metrics["upstream"] \in Nat
    BY <1>1, <2>1, <2>2, FS_CardinalityType DEF IInv, TypeOK, Counters
  <2> QED
    BY <1>1, <2>2, <2>3 DEF IInv, LedgerInv, MetricsConserved
<1> QED
  BY Invariance, <1>1, PTL

\* engine.rs:133-135 comes before routes.rs:80-96 and 185-193: as long as there is a
\* store and its writer has not ended, a verdict that is counted, a chat that is sent
\* and a call that is executed are in the audit channel by then.
THEOREM EvidenceComesFirst == Spec => []AuditCoversEffects
<1>1. ASSUME IInv PROVE AuditCoversEffects
  <2>1. \A r \in Requests : AuditInv(r)
    BY <1>1 DEF IInv, DeedsInv
  <2>2. upstream \subseteq Requests
    BY <1>1 DEF IInv, TypeOK
  <2> QED
    BY <1>1, <2>1, <2>2 DEF IInv, LedgerInv, Tallying, AuditCoversEffects, AuditInv,
       Evidenced
<1> QED
  BY Invariance, <1>1, PTL

\* docs/PRODUCT_OVERVIEW.md:34, "every decision": of the routes that ask the engine,
\* while it has a store that listens.
EngineRoutesAudited == listening =>
    \A r \in Requests : kind[r] \notin {"mcp", "a2a"} /\ effect[r] \in Effects =>
        \E e \in audit : e.req = r /\ e.effect = effect[r]

EvidenceInv == EngineRoutesAudited /\ \A r \in Requests : pc[r] = "idle" => effect[r] = "none"

\* Verdicts come from the engine, or from the two handlers beside it.
LEMMA VerdictSteps ==
    ASSUME TypeOK, NEW r \in Requests, StepOf(r)
    PROVE  pc'[r] # "idle" /\ (effect' = effect \/ EngineCheck(r) \/ DirectCheck(r))
<1> USE DEF TypeOK, Move, Reply
<1>1. CASE Arrive(r) \/ Authenticate(r) \/ RefuseToBind(r) \/ CountCheck(r)
  BY <1>1 DEF Arrive, Authenticate, RefuseToBind, CountCheck
<1>2. CASE EngineCheck(r)
  BY <1>2 DEF EngineCheck, AllowOrForbid
<1>3. CASE DirectCheck(r)
  BY <1>3 DEF DirectCheck, McpDecided, A2aDecided
<1>4. CASE TallyAllow(r) \/ TallyDeny(r) \/ Forward(r) \/ Send(r)
  BY <1>4 DEF TallyAllow, TallyDeny, Forward, Send, Keep
<1>5. CASE UpstreamFails(r) \/ UpstreamStreams(r) \/ UpstreamAnswers(r)
  BY <1>5 DEF UpstreamFails, UpstreamStreams, UpstreamAnswers
<1>6. CASE NextCall(r) \/ Finish(r)
  BY <1>6 DEF NextCall, Finish
<1>7. CASE EndOfCalls(r) \/ SkipChoice(r)
  BY <1>7 DEF EndOfCalls, SkipChoice, AtChoice
<1>8. CASE Dispatch(r) \/ ConnectorReturns(r) \/ Disconnect(r)
  BY <1>8 DEF Dispatch, ConnectorReturns, Disconnect, Keep
<1> QED
  BY <1>1, <1>2, <1>3, <1>4, <1>5, <1>6, <1>7, <1>8 DEF StepOf, Handler, Peer

\* Who has a verdict of the engine has its evidence.
LEMMA EvidenceKept == IInv /\ EvidenceInv /\ [Next]_vars => EvidenceInv'
<1> SUFFICES ASSUME IInv, EvidenceInv, [Next]_vars PROVE EvidenceInv'
  OBVIOUS
<1> USE DEF EvidenceInv, EngineRoutesAudited
<1>1. CASE UNCHANGED vars
  BY <1>1 DEF vars
<1>3. CASE WriterEnds
  BY <1>3 DEF WriterEnds
<1>2. ASSUME NEW r \in Requests, StepOf(r)
      PROVE  EvidenceInv'
  <2>0. TypeOK
    BY DEF IInv
  <2>1. ASSUME NEW s \in Requests, s # r
        PROVE  pc'[s] = pc[s] /\ kind'[s] = kind[s] /\ effect'[s] = effect[s]
    BY <1>2, <2>0, <2>1, Frame DEF Local
  <2>2. audit \subseteq audit' /\ listening' = listening
    BY <1>2, <2>0, AuditSteps
  <2>3. pc'[r] # "idle"
    BY <1>2, <2>0, VerdictSteps
  <2>4. ASSUME listening, kind'[r] \notin {"mcp", "a2a"}, effect'[r] \in Effects
        PROVE  \E e \in audit' : e.req = r /\ e.effect = effect'[r]
    <3>1. CASE effect' = effect
      <4>1. pc[r] # "idle"
        BY <2>4, <3>1 DEF Effects
      <4>2. kind'[r] = kind[r]
        BY <1>2, <2>0, <4>1, WorldSteps
      <4> QED
        BY <2>2, <2>4, <3>1, <4>2
    <3>2. CASE EngineCheck(r)
      <4> DEFINE e == [req |-> r, at |-> at[r], ask |-> ask[r], effect |-> effect'[r]]
      <4>1. e \in audit'
        BY <2>0, <2>4, <3>2 DEF EngineCheck, Enqueue, TypeOK
      <4>2. e.req = r /\ e.effect = effect'[r]
        OBVIOUS
      <4> HIDE DEF e
      <4> QED
        BY <4>1, <4>2
    <3>3. CASE DirectCheck(r)
      BY <2>4, <3>3 DEF DirectCheck
    <3> QED
      BY <1>2, <2>0, <3>1, <3>2, <3>3, VerdictSteps
  <2> QED
    BY <2>1, <2>2, <2>3, <2>4
<1> QED
  BY <1>1, <1>2, <1>3 DEF Next, AllServed, StepOf

\* engine.rs:133-135: as long as the store listens, a chat, a retrieval or a check that
\* has a verdict has its evidence in the audit channel; beside a store that does not
\* (engine.rs:59, db.rs:51), the two routes that decide beside the engine
\* (routes.rs:285, 315) are all that is unaudited.
THEOREM OnlyDirectRoutesUnaudited == Spec => []EngineRoutesAudited
<1>1. Init => EvidenceInv
  BY DEF Init, EvidenceInv, EngineRoutesAudited, Effects
<1>2. EvidenceInv => EngineRoutesAudited
  BY DEF EvidenceInv
<1> QED
  BY Initially, Stepwise, EvidenceKept, <1>1, <1>2, PTL DEF Spec

-----------------------------------------------------------------------------
\* A garbled call has no verdict under the deployed text, whatever the text.
LEMMA GarbledIsAnError ==
    ASSUME PipelineConstantsOK, NEW p \in Principals, NEW q \in Tools, CallOf[q].garbled
    PROVE  Policy[p][q] = "ERROR"
<1>1. q \in Queries /\ q \in DOMAIN CallOf
  BY DEF Queries, PipelineConstantsOK
<1>2. q \notin DOMAIN PromptOf /\ q \notin DOMAIN CollectionOf /\ q \notin DOMAIN AgentOf
  BY ConstantsOK DEF PipelineConstantsOK, Intents
<1>3. RequestOf(p, q) = Q!CallRequest(PersonOf[p], CallOf[q])
  BY <1>1, <1>2 DEF RequestOf
<1>4. Q!CallRequest(PersonOf[p], CallOf[q]).garbled = CallOf[q].garbled
  BY DEF Q!CallRequest, Q!MappedRequest, Q!Request, Q!RequestAbout
<1>5. Q!Decide(Deployed, RequestOf(p, q)) = "ERROR"
  BY <1>3, <1>4 DEF Q!Decide
<1> QED
  BY <1>1, <1>5 DEF PipelineConstantsOK, DeployedPolicy

\* evaluate.rs:149-151 and routes.rs:184: no reply that holds a call without a
\* context is ever delivered, wherever in the reply the call stands.
THEOREM GarbledCallsAreFatal == Spec => []GarbledCallsEndTheReply
<1>1. ASSUME IInv PROVE GarbledCallsEndTheReply
  <2> SUFFICES ASSUME NEW r \in Requests, kind[r] = "chat", ~streaming[r], reply[r] = "ok",
                      NEW i \in DOMAIN answer[r], answer[r][i] # NoCalls,
                      NEW j \in DOMAIN answer[r][i], CallOf[answer[r][i][j]].garbled
               PROVE  FALSE
    BY DEF GarbledCallsEndTheReply
  <2>1. FilterInv(r) /\ FreshInv(r) /\ answer[r] \in Seq(Seq(Tools) \cup {NoCalls})
    BY <1>1 DEF IInv, DeedsInv, HandlerInv, TypeOK
  <2>2. i \in 1..Len(out[r]) /\ answer[r][i] \in Seq(Tools)
    BY <2>1 DEF FilterInv
  <2>3. Policy[who[r]][answer[r][i][j]] \in Effects
    BY <2>1, <2>2 DEF FilterInv, Rewritten, ChoiceDone, Heard
  <2>4. who[r] \in Principals
    BY <2>1 DEF FilterInv, FreshInv
  <2>5. Policy[who[r]][answer[r][i][j]] = "ERROR"
    BY <2>2, <2>4, PipelineConstantsOK, GarbledIsAnError
  <2> QED
    BY <2>3, <2>5 DEF Effects
<1> QED
  BY Invariance, <1>1, PTL

-----------------------------------------------------------------------------
(***************************************************************************)
(* From the handlers to the rules of the deployed text.                    *)
(***************************************************************************)
\* Some rule of the text is about the request, permits it and names an action of the
\* schema, and no rule that forbids is satisfied by it. The rule also names the kind of
\* resource, unless an argument of a call is mapped to the kind.
RuleFor(q) ==
    /\ \E k \in DOMAIN Deployed :
          /\ Q!Effect(Deployed[k]) = "permit" /\ Q!Satisfied(Deployed[k], q)
          /\ Deployed[k].action = q.action /\ q.action \in SchemaActions
          /\ q.context["resource_kind"] = NoText => Deployed[k].resource = q.resource
    /\ \A k \in DOMAIN Deployed : Q!Effect(Deployed[k]) = "forbid" => ~Q!Satisfied(Deployed[k], q)

EffectsHaveRules ==
    /\ \A r \in upstream : prompt[r] # NoIntent => RuleFor(RequestOf(who[r], prompt[r]))
    /\ \A r \in Requests : \A i \in DOMAIN executed[r] :
          RuleFor(RequestOf(who[r], executed[r][i].call))

\* What the deployed text allows has a rule of its own.
LEMMA AllowedByARule ==
    ASSUME PipelineConstantsOK, NEW q, Q!Decide(Deployed, q) = "ALLOW"
    PROVE  RuleFor(q)
<1>1. Q!Matching(Deployed, q, "forbid") = {} /\ Q!Matching(Deployed, q, "permit") # {}
  BY DEF Q!Decide
<1>2. PICK k \in DOMAIN Deployed :
         Q!Effect(Deployed[k]) = "permit" /\ Q!Satisfied(Deployed[k], q)
  BY <1>1 DEF Q!Matching
<1>3. Deployed[k].action = q.action /\ q.action \in SchemaActions
  BY <1>2 DEF Q!Satisfied, PipelineConstantsOK, Q!Valid
<1>4. ASSUME q.context["resource_kind"] = NoText
      PROVE  Deployed[k].resource = q.resource
  <2> DEFINE t == Q!Equals("resource_kind", Deployed[k].resource)
  <2>1. Q!AnyOf({t}) \in Q!Clauses(Deployed[k])
    BY DEF Q!Clauses
  <2>2. Q!Holds(Q!AnyOf({t}), q)
    BY <1>2, <2>1 DEF Q!Satisfied
  <2>3. t.attr = "resource_kind" /\ t.test = "equals" /\ t.value = Deployed[k].resource
    BY DEF Q!Equals
  <2> HIDE DEF t
  <2>4. Q!Passes(t, q)
    BY <2>2 DEF Q!Holds, Q!AnyOf
  <2>5. "resource_kind" \in Q!Attributes /\ "resource_kind" \notin Q!Supplies(q)
    BY <1>4 DEF Q!Attributes, Q!Supplies, Q!Brings
  <2>6. Q!Context(q)["resource_kind"] = q.resource
    BY <2>5 DEF Q!Context, Q!Computed
  <2> QED
    BY <2>3, <2>4, <2>6 DEF Q!Passes
<1>5. \A j \in DOMAIN Deployed : Q!Effect(Deployed[j]) = "forbid" => ~Q!Satisfied(Deployed[j], q)
  BY <1>1 DEF Q!Matching
<1> QED
  BY <1>2, <1>3, <1>4, <1>5 DEF RuleFor

\* Through catalog, translation, evaluation and handlers (routes.rs:73-200, 285-302,
\* catalog.rs:96-128, translate.rs:10-119, evaluate.rs:90-172): whatever reaches the LLM
\* or the connector is permitted by a rule of the deployed text that names its action
\* and its kind of resource, and is forbidden by none; where the catalog maps an
\* argument of a call to the kind, the rule may be one about another kind.
THEOREM EveryEffectHasItsRule == Spec => []EffectsHaveRules
<1>1. ASSUME IInv PROVE EffectsHaveRules
  <2>1. ASSUME NEW p \in Principals, NEW q \in Queries, Policy[p][q] = "ALLOW"
        PROVE  RuleFor(RequestOf(p, q))
    <3>1. Q!Decide(Deployed, RequestOf(p, q)) = "ALLOW"
      BY <2>1, PipelineConstantsOK DEF PipelineConstantsOK, DeployedPolicy
    <3> QED
      BY <3>1, PipelineConstantsOK, AllowedByARule
  <2>2. ASSUME NEW r \in Requests
        PROVE  FreshInv(r) /\ prompt[r] \in Queries \cup {NoIntent}
               /\ \A i \in DOMAIN executed[r] : executed[r][i].call \in Queries
    <3>1. FreshInv(r)
      BY <1>1 DEF IInv, HandlerInv
    <3>2. /\ prompt[r] \in Queries \cup {NoIntent}
          /\ executed[r] \in Seq([at : Nat \X Nat, call : Queries])
      BY <1>1 DEF IInv, TypeOK
    <3>3. \A S : \A s \in Seq(S) : \A i \in DOMAIN s : s[i] \in S
      OBVIOUS
    <3>4. \A i \in DOMAIN executed[r] : executed[r][i] \in [at : Nat \X Nat, call : Queries]
      BY <3>2, <3>3
    <3>5. \A i \in DOMAIN executed[r] : executed[r][i].call \in Queries
      BY <3>4
    <3> QED
      BY <3>1, <3>2, <3>5
  <2>3. ASSUME NEW r \in upstream, prompt[r] # NoIntent
        PROVE  RuleFor(RequestOf(who[r], prompt[r]))
    <3>1. r \in Requests /\ Policy[who[r]][prompt[r]] = "ALLOW"
      BY <1>1, <2>3 DEF IInv, TypeOK, GatedEffects, Allowed
    <3>2. who[r] \in Principals /\ prompt[r] \in Queries
      BY <2>2, <2>3, <3>1 DEF FreshInv
    <3> QED
      BY <2>1, <3>1, <3>2
  <2>4. ASSUME NEW r \in Requests, NEW i \in DOMAIN executed[r]
        PROVE  RuleFor(RequestOf(who[r], executed[r][i].call))
    <3>1. Policy[who[r]][executed[r][i].call] = "ALLOW"
      BY <1>1 DEF IInv, GatedEffects, Allowed
    <3>2. who[r] \in Principals /\ executed[r][i].call \in Queries
      BY <2>2 DEF FreshInv
    <3> QED
      BY <2>1, <3>1, <3>2
  <2> QED
    BY <2>3, <2>4 DEF EffectsHaveRules
<1> QED
  BY Invariance, <1>1, PTL

=============================================================================
