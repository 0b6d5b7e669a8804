--------------------------- MODULE ProxyPipeline ---------------------------
(***************************************************************************)
(* The handlers of ChatProxy with the verdicts of a deployed text: the     *)
(* query a handler checks is the request that the bridge or the catalog    *)
(* makes (Queries), and Policy is what the deployed rules decide about it  *)
(* (PolicyRules): PipelineConstantsOK, which TLC checks once.              *)
(***************************************************************************)
EXTENDS ChatProxy

CONSTANTS
    Roles, Groups, Ids, Actions, SchemaActions, ResourceKinds, Names, NoId, NoText, \* of PolicyRules
    Resources, Mappings, ToolNames, Tables, Collections,                        \* of Queries
    Deployed,       \* the policies of the deployed revision
    PersonOf,       \* the identity of each principal
    PromptOf,       \* what each prompt says
    CollectionOf,   \* the collection each retrieval is from
    AgentOf,        \* the agent each message is for
    CallOf          \* the call that each tool of ChatProxy stands for

Q == INSTANCE Queries WITH Kinds <- ResourceKinds, Tools <- ToolNames

\* The request that is decided when p asks q.
RequestOf(p, q) ==
    CASE q \in DOMAIN PromptOf     -> Q!PromptRequest(PersonOf[p], PromptOf[q])
      [] q \in DOMAIN CollectionOf -> Q!RetrievalRequest(PersonOf[p], CollectionOf[q], NoId)
      [] q \in DOMAIN AgentOf      -> Q!MessageRequest(PersonOf[p], AgentOf[q])
      [] q \in DOMAIN CallOf       -> Q!CallRequest(PersonOf[p], CallOf[q])

DeployedPolicy == [p \in Principals |-> [q \in Queries |-> Q!Decide(Deployed, RequestOf(p, q))]]

ASSUME PipelineConstantsOK ==
    /\ DOMAIN PromptOf = Utterances /\ DOMAIN CollectionOf = Retrievals
    /\ DOMAIN AgentOf = Messages /\ DOMAIN CallOf = Tools
    /\ DOMAIN PersonOf = Principals
    /\ Deployed \in Seq(Q!Policies) /\ Q!Valid(Deployed)
    /\ Policy = DeployedPolicy

-----------------------------------------------------------------------------
\* A call whose arguments make no context is neither let through nor taken out: the
\* whole reply is lost, the choices before it too (evaluate.rs:149-151, routes.rs:184).
GarbledCallsEndTheReply ==
    \A r \in Requests : kind[r] = "chat" /\ ~streaming[r] /\ reply[r] = "ok" =>
        \A i \in DOMAIN answer[r] : answer[r][i] # NoCalls =>
            \A j \in DOMAIN answer[r][i] : ~CallOf[answer[r][i][j]].garbled

=============================================================================
