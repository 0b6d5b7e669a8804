----------------------------- MODULE ChatProxy -----------------------------
(***************************************************************************)
(* The request handlers of crates/authz-llm-proxy: chat completions with   *)
(* the tool-call filter, retrieve, check, MCP tools/call and A2A authorize,*)
(* run concurrently by the tokio scheduler over one AppState.  A handler   *)
(* gives way at every metrics lock and at every await; each action below   *)
(* is the code between two such points.                                    *)
(*                                                                         *)
(* A query stands for the (action, resource, subject, arguments) that the  *)
(* bridge or the catalog makes of an utterance or of a tool call.  Policy  *)
(* is what authz_core::evaluate answers for it under the bundle loaded at  *)
(* start-up, which the proxy never replaces: ALLOW, DENY, or ERROR for a   *)
(* request that validation or the Cedar context refuses.                   *)
(***************************************************************************)
EXTENDS Naturals, Sequences, FiniteSets

CONSTANTS
    Requests,       \* HTTP requests; each is served by one handler task
    Principals,     \* identities a request may carry
    Nameless,       \* those with an empty id, which the request builder refuses
    Utterances,     \* queries the bridge makes of a non-empty utterance
    Retrievals,     \* queries the catalog makes of a retrieval
    Messages,       \* queries about messages to an agent
    NoIntent,       \* the last user message is empty or absent
    Tools,          \* tool calls, as queries of the catalog
    Policy,         \* [Principals -> [Queries -> verdict of evaluate]]
    Routes,         \* the routes clients use, a subset of Kinds
    StreamFlags,    \* values of "stream" in chat requests
    Answers,        \* upstream replies: a sequence of choices
    NoCalls,        \* a choice whose message has no tool_calls field
    Blocked,        \* a choice whose content says that all calls were blocked
    RequireSigned,  \* engine.require_signed
    Signed          \* the loaded bundle carries a signature

Intents  == Utterances \cup Retrievals \cup Messages
Queries  == Intents \cup Tools
Effects  == {"ALLOW", "DENY"}
Kinds    == {"chat", "retrieve", "check", "mcp", "a2a"}
NonEmptySeq(S) == Seq(S) \ {<<>>}

\* Principals without an id fail AuthzRequest::validate on every query; an
\* engine that requires signatures only starts with one (engine.rs:66-69).
ASSUME ConstantsOK ==
    /\ IsFiniteSet(Requests)
    /\ Nameless \subseteq Principals
    /\ NoIntent \notin Intents
    /\ Utterances \cap (Retrievals \cup Messages) = {} /\ Retrievals \cap Messages = {}
    /\ Intents \cap Tools = {}
    /\ Policy \in [Principals -> [Queries -> Effects \cup {"ERROR"}]]
    /\ \A p \in Nameless, q \in Queries : Policy[p][q] = "ERROR"
    /\ Routes \subseteq Kinds
    /\ StreamFlags \subseteq BOOLEAN
    /\ NoCalls \notin Seq(Tools) /\ Blocked \notin Seq(Tools) /\ NoCalls # Blocked
    /\ Answers \subseteq Seq(Seq(Tools) \cup {NoCalls})
    /\ RequireSigned \in BOOLEAN /\ Signed \in BOOLEAN
    /\ RequireSigned => Signed

VARIABLES
    executes,   \* cfg.connectors.execute_tools, as the proxy was started
    listening,  \* the engine has a store, and the writer behind its channel has not ended
    pc,         \* where the handler of each request stands
    kind,       \* its route
    who,        \* the principal its credentials (or its body) name
    prompt,     \* the query the request itself asks, or NoIntent
    streaming,  \* body.stream == Some(true)
    ask,        \* the query being checked now
    effect,     \* the last verdict
    answer,     \* choices of the upstream reply
    at,         \* <<choice, call>> the filter is at, <<0, 0>> before it runs
    kept,       \* calls of the current choice pushed to `out` of the filter
    out,        \* choices already rewritten
    reply,      \* HTTP outcome
    upstream,   \* requests the LLM has received
    executed,   \* calls the data connector has received, with their position
    audit,      \* decisions handed to the audit channel
    metrics     \* the four counters of AppState.metrics

inputs  == <<executes, listening, kind, who, prompt, streaming>>
filter  == <<answer, at, kept, out>>
world   == <<upstream, executed>>
vars    == <<pc, inputs, ask, effect, filter, reply, world, audit, metrics>>

PCs == {"idle", "auth", "count", "check", "tally", "forward", "send", "await",
        "filter", "dispatch", "exec", "done"}
Outcomes == {"ok", "unauthorized", "forbidden", "bad_request", "not_ready",
             "upstream", "internal", "dropped"}
AuditEntry == [req : Requests, at : Nat \X Nat, ask : Queries, effect : Effects]
Counters   == {"checks", "denies", "allows", "upstream"}

TypeOK ==
    /\ executes \in BOOLEAN /\ listening \in BOOLEAN
    /\ pc \in [Requests -> PCs]
    /\ kind \in [Requests -> Kinds \cup {"none"}]
    /\ who \in [Requests -> Principals \cup {"none"}]
    /\ prompt \in [Requests -> Queries \cup {NoIntent}]
    /\ streaming \in [Requests -> BOOLEAN]
    /\ ask \in [Requests -> Queries \cup {NoIntent}]
    /\ effect \in [Requests -> Effects \cup {"ERROR", "NOT_READY", "none"}]
    /\ answer \in [Requests -> Seq(Seq(Tools) \cup {NoCalls})]
    /\ at \in [Requests -> Nat \X Nat]
    /\ kept \in [Requests -> Seq(Tools)]
    /\ out \in [Requests -> Seq(NonEmptySeq(Tools) \cup {NoCalls, Blocked})]
    /\ reply \in [Requests -> Outcomes \cup {"none"}]
    /\ upstream \subseteq Requests
    /\ executed \in [Requests -> Seq([at : Nat \X Nat, call : Queries])]
    /\ audit \subseteq AuditEntry
    /\ metrics \in [Counters -> Nat]

Init ==
    /\ executes \in BOOLEAN /\ listening \in BOOLEAN
    /\ pc = [r \in Requests |-> "idle"]
    /\ kind = [r \in Requests |-> "none"]
    /\ who = [r \in Requests |-> "none"]
    /\ prompt = [r \in Requests |-> NoIntent]
    /\ streaming = [r \in Requests |-> FALSE]
    /\ ask = [r \in Requests |-> NoIntent]
    /\ effect = [r \in Requests |-> "none"]
    /\ answer = [r \in Requests |-> <<>>]
    /\ at = [r \in Requests |-> <<0, 0>>]
    /\ kept = [r \in Requests |-> <<>>]
    /\ out = [r \in Requests |-> <<>>]
    /\ reply = [r \in Requests |-> "none"]
    /\ upstream = {}
    /\ executed = [r \in Requests |-> <<>>]
    /\ audit = {}
    /\ metrics = [c \in Counters |-> 0]
-----------------------------------------------------------------------------
Move(r, l) == pc' = [pc EXCEPT ![r] = l]
Bump(c)    == metrics' = [metrics EXCEPT ![c] = @ + 1]
Reply(r, o) ==
    /\ Move(r, "done")
    /\ reply' = [reply EXCEPT ![r] = o]

InFilter(r) == at[r] # <<0, 0>>

\* Defect: only an error refuses.
PermitsUnlessError(v) == v \notin {"ERROR", "NOT_READY"}
Permits(v)  == v = "ALLOW"

\* Defect: a request that cannot be evaluated is merely denied.
VerdictOrDeny(p, q) ==
    IF RequireSigned /\ ~Signed THEN "NOT_READY"
    ELSE IF Policy[p][q] = "ALLOW" THEN "ALLOW" ELSE "DENY"

\* AuthzEngine::check before it evaluates: an unsigned bundle is rejected.
Verdict(p, q) ==
    IF RequireSigned /\ ~Signed THEN "NOT_READY" ELSE Policy[p][q]

Refusal(v) == IF v = "NOT_READY" THEN "not_ready" ELSE "bad_request"

(***************************************************************************)
(* A request arrives: its route, its credentials (for /v1/check the        *)
(* principal of the body) and what it asks.                                *)
(***************************************************************************)
Asks(k) == CASE k = "chat"     -> Utterances \cup {NoIntent}
             [] k = "retrieve" -> Retrievals
             [] k = "a2a"      -> Messages
             [] k = "mcp"      -> Tools
             [] k = "check"    -> Intents

Arrive(r) ==
    /\ pc[r] = "idle"
    /\ \E k \in Routes, p \in Principals, s \in StreamFlags : \E q \in Asks(k) :
          /\ k # "chat" => ~s
          /\ kind' = [kind EXCEPT ![r] = k]
          /\ who' = [who EXCEPT ![r] = p]
          /\ prompt' = [prompt EXCEPT ![r] = q]
          /\ ask' = [ask EXCEPT ![r] = q]
          /\ streaming' = [streaming EXCEPT ![r] = s]
          /\ Move(r, IF k = "check" THEN "count" ELSE "auth")
    /\ UNCHANGED <<executes, listening, effect, filter, reply, world, audit, metrics>>

(***************************************************************************)
(* resolve_principal either yields the principal or answers 401.           *)
(***************************************************************************)
Authenticate(r) ==
    /\ pc[r] = "auth"
    /\ \/ kind[r] # "chat" /\ Move(r, "check") /\ UNCHANGED reply
       \/ kind[r] = "chat" /\ prompt[r] # NoIntent /\ Move(r, "count") /\ UNCHANGED reply
       \/ kind[r] = "chat" /\ prompt[r] = NoIntent /\ Move(r, "forward") /\ UNCHANGED reply
       \/ Reply(r, "unauthorized")
    /\ UNCHANGED <<inputs, ask, effect, filter, world, audit, metrics>>

\* bind_extraction refuses a principal without an id, before anything is counted.
RefuseToBind(r) ==
    /\ pc[r] = "count"
    /\ kind[r] = "chat" /\ who[r] \in Nameless
    /\ Reply(r, "bad_request")
    /\ UNCHANGED <<inputs, ask, effect, filter, world, audit, metrics>>

\* checks_total is incremented under its own lock, before the check is made.
CountCheck(r) ==
    /\ pc[r] = "count"
    /\ ~(kind[r] = "chat" /\ who[r] \in Nameless)
    /\ Bump("checks")
    /\ Move(r, "check")
    /\ UNCHANGED <<inputs, ask, effect, filter, reply, world, audit>>

(***************************************************************************)
(* AuthzEngine::check, which also enqueues the decision for the audit log, *)
(* if there is a store; what is sent to a writer that has ended is lost,   *)
(* and nobody is told.  An error ends the whole request, even in the       *)
(* middle of the filter.                                                   *)
(***************************************************************************)
\* Defect: only denials are recorded.
EnqueueDenials(r, v) ==
    audit' = IF Permits(v) \/ ~listening THEN audit
             ELSE audit \cup {[req |-> r, at |-> at[r], ask |-> ask[r], effect |-> v]}

Enqueue(r, v) ==
    audit' = IF ~listening THEN audit
             ELSE audit \cup {[req |-> r, at |-> at[r], ask |-> ask[r], effect |-> v]}

AllowOrForbid(r, v) == Reply(r, IF Permits(v) THEN "ok" ELSE "forbidden")

EngineCheck(r) ==
    LET v == Verdict(who[r], ask[r]) IN
    /\ pc[r] = "check"
    /\ kind[r] \in {"chat", "retrieve", "check"}
    /\ effect' = [effect EXCEPT ![r] = v]
    /\ \/ /\ v \notin Effects
          /\ Reply(r, Refusal(v))
          /\ UNCHANGED audit
       \/ /\ v \in Effects
          /\ kind[r] = "retrieve"
          /\ Enqueue(r, v)
          /\ AllowOrForbid(r, v)
       \/ /\ v \in Effects
          /\ kind[r] # "retrieve"
          /\ Enqueue(r, v)
          /\ Move(r, "tally")
          /\ UNCHANGED reply
    /\ UNCHANGED <<inputs, ask, filter, world, metrics>>

(***************************************************************************)
(* MCP and A2A evaluate with the bundle directly: no signature test, no    *)
(* audit entry, no counter.  A2A reports the decision whatever it is.      *)
(***************************************************************************)
McpDecided(r, v) ==
    \/ /\ ~Permits(v)
       /\ Reply(r, "forbidden")
    \/ /\ Permits(v)
       /\ Move(r, "dispatch")
       /\ UNCHANGED reply

A2aDecided(r, v) == Reply(r, "ok")

DirectCheck(r) ==
    LET v == Policy[who[r]][ask[r]] IN
    /\ pc[r] = "check"
    /\ kind[r] \in {"mcp", "a2a"}
    /\ effect' = [effect EXCEPT ![r] = v]
    /\ \/ v \notin Effects /\ Reply(r, "bad_request")
       \/ v \in Effects /\ kind[r] = "mcp" /\ McpDecided(r, v)
       \/ v \in Effects /\ kind[r] = "a2a" /\ A2aDecided(r, v)
    /\ UNCHANGED <<inputs, ask, filter, world, audit, metrics>>

-----------------------------------------------------------------------------
\* Defects: the call index does not move, or is not reset.
StaysAtCall(r)    == UNCHANGED at
NextChoiceOnly(r) == at' = [at EXCEPT ![r] = <<at[r][1] + 1, at[r][2]>>]

\* The filter moves to the next call of the choice, or to the next choice.
NextCallOf(r)   == at' = [at EXCEPT ![r] = <<at[r][1], at[r][2] + 1>>]
NextChoiceOf(r) == at' = [at EXCEPT ![r] = <<at[r][1] + 1, 1>>]

Keep(r) ==
    /\ kept' = [kept EXCEPT ![r] = Append(@, ask[r])]
    /\ NextCallOf(r)
    /\ Move(r, "filter")

(***************************************************************************)
(* The verdict is counted, and only then acted on.                         *)
(***************************************************************************)
TallyAllow(r) ==
    /\ pc[r] = "tally"
    /\ Permits(effect[r])
    /\ Bump("allows")
    /\ \/ /\ kind[r] = "check"
          /\ Reply(r, "ok")
          /\ UNCHANGED <<at, kept>>
       \/ /\ kind[r] = "chat" /\ ~InFilter(r)
          /\ Move(r, "forward")
          /\ UNCHANGED <<at, kept, reply>>
       \/ /\ kind[r] = "chat" /\ InFilter(r)
          /\ IF executes
             THEN Move(r, "dispatch") /\ UNCHANGED <<at, kept>>
             ELSE Keep(r)
          /\ UNCHANGED reply
    /\ UNCHANGED <<inputs, ask, effect, answer, out, world, audit>>

TallyDeny(r) ==
    /\ pc[r] = "tally"
    /\ ~Permits(effect[r])
    /\ Bump("denies")
    /\ \/ /\ kind[r] = "check"
          /\ Reply(r, "ok")
          /\ UNCHANGED at
       \/ /\ kind[r] = "chat" /\ ~InFilter(r)
          /\ Reply(r, "forbidden")
          /\ UNCHANGED at
       \/ /\ kind[r] = "chat" /\ InFilter(r)
          /\ NextCallOf(r)
          /\ Move(r, "filter")
          /\ UNCHANGED reply
    /\ UNCHANGED <<inputs, ask, effect, answer, kept, out, world, audit>>

(***************************************************************************)
(* The upstream call is counted before it is made; no timeout is set.      *)
(***************************************************************************)
Forward(r) ==
    /\ pc[r] = "forward"
    /\ Bump("upstream")
    /\ Move(r, "send")
    /\ UNCHANGED <<inputs, ask, effect, filter, reply, world, audit>>

Send(r) ==
    /\ pc[r] = "send"
    /\ upstream' = upstream \cup {r}
    /\ Move(r, "await")
    /\ UNCHANGED <<inputs, ask, effect, filter, reply, executed, audit, metrics>>

\* The connection fails, before or after the LLM got the request, or its reply
\* is not JSON.
UpstreamFails(r) ==
    /\ pc[r] \in {"send", "await"}
    /\ Reply(r, "upstream")
    /\ UNCHANGED <<inputs, ask, effect, filter, world, audit, metrics>>

\* A streamed reply is passed on as it comes.
UpstreamStreams(r) ==
    /\ pc[r] = "await"
    /\ streaming[r]
    /\ \E a \in Answers : answer' = [answer EXCEPT ![r] = a]
    /\ Reply(r, "ok")
    /\ UNCHANGED <<inputs, ask, effect, at, kept, out, world, audit, metrics>>

UpstreamAnswers(r) ==
    /\ pc[r] = "await"
    /\ ~streaming[r]
    /\ \E a \in Answers : answer' = [answer EXCEPT ![r] = a]
    /\ at' = [at EXCEPT ![r] = <<1, 1>>]
    /\ Move(r, "filter")
    /\ UNCHANGED <<inputs, ask, effect, kept, out, reply, world, audit, metrics>>
-----------------------------------------------------------------------------
(***************************************************************************)
(* filter_tool_calls over every choice.  A tool_calls field that is null   *)
(* or no array counts as an empty one.                                     *)
(***************************************************************************)
\* Defect: the last choice is never reached.
AtChoiceButLast(r) == pc[r] = "filter" /\ at[r][1] < Len(answer[r])

AtChoice(r) == pc[r] = "filter" /\ at[r][1] <= Len(answer[r])
Choice(r)   == answer[r][at[r][1]]

\* The next call: the catalog makes a query of it, and the check is counted.
NextCall(r) ==
    /\ AtChoice(r)
    /\ Choice(r) # NoCalls /\ at[r][2] <= Len(Choice(r))
    /\ ask' = [ask EXCEPT ![r] = Choice(r)[at[r][2]]]
    /\ Bump("checks")
    /\ Move(r, "check")
    /\ UNCHANGED <<inputs, effect, filter, reply, world, audit>>

\* Defect: no test for an empty result.
RewriteNever(s) == s

Rewrite(s) == IF s = <<>> THEN Blocked ELSE s

EndOfCalls(r) ==
    /\ AtChoice(r)
    /\ Choice(r) # NoCalls /\ at[r][2] > Len(Choice(r))
    /\ out' = [out EXCEPT ![r] = Append(@, Rewrite(kept[r]))]
    /\ kept' = [kept EXCEPT ![r] = <<>>]
    /\ NextChoiceOf(r)
    /\ UNCHANGED <<pc, inputs, ask, effect, answer, reply, world, audit, metrics>>

SkipChoice(r) ==
    /\ AtChoice(r)
    /\ Choice(r) = NoCalls
    /\ out' = [out EXCEPT ![r] = Append(@, NoCalls)]
    /\ NextChoiceOf(r)
    /\ UNCHANGED <<pc, inputs, ask, effect, answer, kept, reply, world, audit, metrics>>

Finish(r) ==
    /\ pc[r] = "filter" /\ at[r][1] > Len(answer[r])
    /\ Reply(r, "ok")
    /\ UNCHANGED <<inputs, ask, effect, filter, world, audit, metrics>>

(***************************************************************************)
(* The data connector.  A chat ignores its result, MCP reports it.         *)
(***************************************************************************)
Dispatch(r) ==
    /\ pc[r] = "dispatch"
    /\ executed' = [executed EXCEPT ![r] = Append(@, [at |-> at[r], call |-> ask[r]])]
    /\ Move(r, "exec")
    /\ UNCHANGED <<inputs, ask, effect, filter, reply, upstream, audit, metrics>>

ConnectorReturns(r) ==
    /\ \/ pc[r] = "exec"
       \/ pc[r] = "dispatch"    \* it could not be reached
    /\ \/ /\ kind[r] = "chat"
          /\ Keep(r)
          /\ UNCHANGED <<reply>>
       \/ /\ kind[r] = "mcp"
          /\ \/ pc[r] = "exec" /\ Reply(r, "ok")
             \/ Reply(r, "internal")
          /\ UNCHANGED <<at, kept>>
    /\ UNCHANGED <<inputs, ask, effect, answer, out, world, audit, metrics>>

\* Defect: an await between a check and its verdict's counter.
AwaitingAudit == {"auth", "send", "await", "dispatch", "exec", "tally"}

\* The client goes away: hyper drops the handler at the await it stands at.
Awaiting == {"auth", "send", "await", "dispatch", "exec"}

Disconnect(r) ==
    /\ pc[r] \in Awaiting
    /\ Reply(r, "dropped")
    /\ UNCHANGED <<inputs, ask, effect, filter, world, audit, metrics>>

\* The thread of the audit writer panics when its connection cannot be opened.
WriterEnds ==
    /\ listening
    /\ listening' = FALSE
    /\ UNCHANGED <<pc, executes, kind, who, prompt, streaming, ask, effect, filter, reply,
                   world, audit, metrics>>

-----------------------------------------------------------------------------
\* Steps the proxy takes by itself, and those that need a peer to answer.
Handler(r) ==
    \/ RefuseToBind(r) \/ CountCheck(r) \/ EngineCheck(r) \/ DirectCheck(r)
    \/ TallyAllow(r) \/ TallyDeny(r) \/ Forward(r)
    \/ NextCall(r) \/ EndOfCalls(r) \/ SkipChoice(r) \/ Finish(r)

Peer(r) ==
    \/ Authenticate(r) \/ Send(r) \/ UpstreamFails(r) \/ UpstreamStreams(r)
    \/ UpstreamAnswers(r) \/ Dispatch(r) \/ ConnectorReturns(r)

AllServed == (\A r \in Requests : pc[r] = "done") /\ UNCHANGED vars

Next == \/ \E r \in Requests : Arrive(r) \/ Handler(r) \/ Peer(r) \/ Disconnect(r)
        \/ WriterEnds \/ AllServed

Spec == Init /\ [][Next]_vars

\* tokio polls every ready task; whether a peer answers is not the proxy's.
FairSpec == Spec /\ \A r \in Requests : WF_vars(Handler(r))

-----------------------------------------------------------------------------
(***************************************************************************)
(* Properties                                                              *)
(***************************************************************************)
Allowed(r, q) == Policy[who[r]][q] = "ALLOW"

\* The LLM only receives chats whose prompt was allowed (or that ask nothing),
\* and the connector only calls the policy allows to that request's principal:
\* routes.rs:79-95, 184-193 and 287-302 under every interleaving of handlers.
GatedEffects ==
    /\ \A r \in upstream : /\ kind[r] = "chat"
                           /\ prompt[r] = NoIntent \/ Allowed(r, prompt[r])
    /\ \A r \in Requests : \A i \in DOMAIN executed[r] :
          /\ Allowed(r, executed[r][i].call)
          /\ kind[r] = "mcp" \/ (kind[r] = "chat" /\ executes)

\* What the client gets back of the LLM's choices.
Delivered(r) == IF streaming[r] THEN answer[r] ELSE out[r]

\* The calls that the principal of the request may make.
Permitted(r) == {q \in Tools : Allowed(r, q)}

\* s is the first n calls of c without those that are not in S: the j-th of c
\* that is in S is s[j].
Rank(S, c, k) == Cardinality({i \in 1..k : c[i] \in S})

Sieved(S, c, n, s) ==
    /\ Len(s) = Rank(S, c, n)
    /\ \A k \in 1..n : c[k] \in S => s[Rank(S, c, k)] = c[k]

\* d is the choice c without the calls that are not in S.
Stripped(S, c, d) ==
    IF c = NoCalls THEN d = NoCalls
    ELSE IF Rank(S, c, Len(c)) = 0 THEN d = Blocked
    ELSE d \notin {NoCalls, Blocked} /\ Sieved(S, c, Len(c), d)

Filtered(r) ==
    (kind[r] = "chat" /\ reply[r] = "ok") =>
        /\ Len(Delivered(r)) = Len(answer[r])
        /\ \A i \in DOMAIN answer[r] : Stripped(Permitted(r), answer[r][i], Delivered(r)[i])

\* The call-by-call filter of routes.rs:132-151 and 169-200, which stops on
\* errors, waits for connectors and shares the counters, delivers exactly the
\* choices with the forbidden calls taken out, or no choice at all.
UnstreamedRepliesFiltered == \A r \in Requests : ~streaming[r] => Filtered(r)

\* A call of the LLM reaches the connector at most once, in the order of the
\* reply, whatever fails or is dropped on the way (routes.rs:187-194).
Before(a, b) == a[1] < b[1] \/ (a[1] = b[1] /\ a[2] < b[2])

ExecutedOnceInOrder ==
    \A r \in Requests : \A i, j \in DOMAIN executed[r] :
        i < j => Before(executed[r][i].at, executed[r][j].at)

\* Checks that were counted and have no verdict counted: the handler is between
\* the two locks, or the check failed (routes.rs:75-91, 183-197, 227-232).
Counted   == {r \in Requests : kind[r] \in {"chat", "check"}}
Unsettled == {r \in Counted : pc[r] \in {"check", "tally"}
                                 \/ effect[r] \in {"ERROR", "NOT_READY"}}

\* Each counter has its own lock, yet the counters always add up, and no
\* disconnect can leave a check without its verdict: there is no await between.
MetricsConserved ==
    /\ metrics["checks"] = metrics["allows"] + metrics["denies"] + Cardinality(Unsettled)
    /\ Cardinality(upstream) <= metrics["upstream"]

\* As long as the engine has a store that listens, every verdict counted, and every
\* prompt or call let through, is in the audit channel by then (engine.rs:133-135 comes
\* before routes.rs:80-96, 185-193). Without one nothing is recorded (engine.rs:59,
\* db.rs:51), and everything is let through as before.
AuditedVerdicts == {e \in audit : kind[e.req] # "retrieve"}

Recorded(r, a, q) ==
    [req |-> r, at |-> a, ask |-> q, effect |-> "ALLOW"] \in audit

AuditCoversEffects == listening =>
    /\ Cardinality(AuditedVerdicts) = metrics["allows"] + metrics["denies"]
                                        + Cardinality({r \in Requests : pc[r] = "tally"})
    /\ \A r \in upstream : prompt[r] # NoIntent => Recorded(r, <<0, 0>>, prompt[r])
    /\ \A r \in Requests : kind[r] = "chat" =>
          \A i \in DOMAIN executed[r] : Recorded(r, executed[r][i].at, executed[r][i].call)

\* A handler that was given a request always comes to rest: it has answered, or
\* it awaits a peer (identity provider, LLM, connector).
ComesToRest ==
    \A r \in Requests : pc[r] # "idle" ~> (pc[r] = "done" \/ pc[r] \in Awaiting)

-----------------------------------------------------------------------------
(***************************************************************************)
(* The inductive invariant behind GatedEffects: what a handler knows where *)
(* it stands.                                                              *)
(***************************************************************************)
AwaitsLLM == {"forward", "send", "await"}
OnTool    == {"dispatch", "exec"}

\* Nothing has happened for a request that has not arrived; one that has names
\* a principal.
FreshInv(r) ==
    /\ pc[r] = "idle" => r \notin upstream /\ executed[r] = <<>>
    /\ pc[r] # "idle" => who[r] \in Principals

\* The filter runs for chats only, on a call of the LLM; before it, the query
\* under check is the request's own.
AskInv(r) ==
    /\ pc[r] \in {"count", "check", "tally"} \cup OnTool => ask[r] \in Queries
    /\ pc[r] = "auth" => ask[r] \in Queries \/ (kind[r] = "chat" /\ prompt[r] = NoIntent)
    /\ pc[r] = "filter" => kind[r] = "chat" /\ InFilter(r)
    /\ InFilter(r) => at[r][1] >= 1 /\ at[r][2] >= 1
    /\ pc[r] \in {"idle", "auth", "count"} \cup AwaitsLLM => ~InFilter(r)
    /\ pc[r] # "done" /\ ~InFilter(r) => ask[r] = prompt[r]
    /\ pc[r] # "done" /\ InFilter(r) => kind[r] = "chat"
    /\ pc[r] \in {"check", "tally"} \cup OnTool /\ InFilter(r) => ask[r] \in Tools

\* A verdict about to be acted on is the policy's for the query under check.
VerdictInv(r) ==
    /\ pc[r] = "tally" => /\ kind[r] \in {"chat", "check"}
                          /\ effect[r] \in Effects
                          /\ effect[r] = Policy[who[r]][ask[r]]
    /\ pc[r] \in AwaitsLLM => /\ kind[r] = "chat"
                              /\ prompt[r] = NoIntent \/ Allowed(r, prompt[r])
    /\ pc[r] \in OnTool => /\ Allowed(r, ask[r])
                           /\ kind[r] = "mcp" \/ (kind[r] = "chat" /\ executes)
                           /\ kind[r] = "chat" => InFilter(r)

HandlerInv == \A r \in Requests : FreshInv(r) /\ AskInv(r) /\ VerdictInv(r)

-----------------------------------------------------------------------------
(***************************************************************************)
(* What the documentation says and the code does not do.                   *)
(***************************************************************************)
\* docs/OPENFGA_COMPARISON.md:33: unauthorized tool calls are stripped from the
\* LLM response stream.  routes.rs:105-119 returns a streamed reply unfiltered.
RepliesFiltered == \A r \in Requests : Filtered(r)

\* docs/PRODUCT_OVERVIEW.md:34: every ALLOW/DENY decision logs structured
\* evidence.  MCP and A2A decisions bypass AuthzEngine::check, even while the store
\* listens.
EveryDecisionAudited == listening =>
    \A r \in Requests : reply[r] # "none" /\ effect[r] \in Effects =>
        \E e \in audit : e.req = r /\ e.effect = effect[r]

=============================================================================
