--------------------------- MODULE DecidedQueries ---------------------------
(***************************************************************************)
(* Prompts, tool calls, retrievals and messages decided by the rules of    *)
(* a text: PolicyLanguage with the requests that Queries makes, with the   *)
(* entities of every request, and with drafts added to the text.           *)
(***************************************************************************)
EXTENDS PolicyLanguage, Queries, Entities, Drafts

CONSTANTS
    People,     \* identities that ask
    Uttered,       \* prompts they give
    Used,       \* calls the LLM or an MCP client makes
    Considered  \* requests that tell drafts apart

ASSUME QueriesOK ==
    /\ People \subseteq Identities /\ Uttered \subseteq Prompts /\ Used \subseteq Calls
    /\ Considered \subseteq AllRequests

\* Everything that can be asked through the proxy.
Asked ==
         {PromptRequest(p, s) : p \in People, s \in Uttered}
    \cup {CallRequest(p, c) : p \in People, c \in Used}
    \cup {RetrievalRequest(p, c, NoId) : p \in People, c \in Collections}
    \cup {MessageRequest(p, t) : p \in People, t \in Tools}

Allows(q) == Decide(policies, q) = "ALLOW"

\* What the catalog maps to an action the schema does not know, and every
\* message between agents (a2a.rs:48), is denied whatever text is in force: a rule
\* that would allow it is refused (store.rs:63-72, schema.rs:22-75).
SchemaBounds ==
    status = "valid" => \A q \in Asked : Allows(q) => q.action \in SchemaActions

\* A tool the catalog does not know is only let through by a rule that names the
\* kind of unknown tools (catalog.rs:111-128).
UnknownToolsNeedTheirOwnRule ==
    status = "valid" => \A p \in People, c \in Used :
        Mapped(c.tool) = {} /\ Allows(CallRequest(p, c)) =>
            \E i \in Headers : /\ EffectSaid(i).effect = "allow"
                               /\ EffectSaid(i).resource = "TOOL_UNKNOWN"

\* Asking the LLM to retrieve from a collection and retrieving from it meet the same
\* verdict, though a different crate makes the request (extract.rs:77-92 and
\* lib.rs:58-69, catalog.rs:131-150).
PromptAndRetrievalAgree ==
    status = "valid" => \A p \in People, s \in Uttered :
        TopicOf(s.words) = "retrieve" /\ s.name \in Collections /\ ~s.garbled =>
            Decide(policies, PromptRequest(p, s)) = Decide(policies, RetrievalRequest(p, s.name, NoId))

\* So do asking for a query of a table and the call that makes it, if the catalog
\* gives the table the kind it gives the tool, and maps no argument to what rules read
\* of action, resource and subject (extract.rs:45-60, catalog.rs:63-110).
PromptAndCallAgree ==
    status = "valid" => \A p \in People, s \in Uttered, c \in Used :
        LET m == Mappings[First(Mapped(c.tool))] IN
        /\ TopicOf(s.words) = "sql" /\ s.name \in Tables /\ s.garbled = c.garbled
        /\ Mapped(c.tool) # {} /\ m.action = "TOOL_INVOKE" /\ m.kind = KindOf(s.name, "DB_TABLE")
        /\ BringsNothing(CallRequest(p, c))
        => Decide(policies, PromptRequest(p, s)) = Decide(policies, CallRequest(p, c))

\* `authz check` foretells what the proxy decides of a prompt, from the words of the
\* prompt and from its parts, unless the catalog calls what is named another kind
\* (main.rs:551-580, lib.rs:49-108 and 124-133).
PreviewsAgree ==
    status = "valid" => \A p \in People, s \in Uttered :
        LET e       == Extraction(s)
            verdict == Decide(policies, PromptRequest(p, s))
        IN  TopicOf(s.words) # "chat" /\ ~s.garbled /\ Bind(e).kind = e.kind =>
                /\ Decide(policies, PreviewRequest(p, s)) = verdict
                /\ Decide(policies, CheckRequest(p, e.action, e.kind, e.subject, e.reports)) = verdict

\* However the same thing is asked, the verdict is the same.
WaysAgree == PromptAndRetrievalAgree /\ PromptAndCallAgree /\ PreviewsAgree

\* The entities of every request are complete and agree with its context, whatever
\* the directory says (entities.rs:47-126, 176-199).
EntitiesAgree ==
    read = <<>> => \A q \in Requests \cup Asked, d \in Directories :
        GroupsPresent(q, d) /\ ReportsMatch(q, d)

\* A draft that is committed behind the text in force allows nobody anything more,
\* but for reading their own profile, and that to a role one of the groups is named
\* after; a group whose name spells no role gives it to everybody (idp.rs:22-58,
\* 596-631, adapters.rs:360-395, authz-suggest/src/lib.rs:42-75). Nor does it if the
\* request itself says of what it is about that it is a profile, but for oneself.
DraftsGrantOnlySelf ==
    status = "valid" => \A q \in Considered : ~Allows(q) => \A draft \in DraftTexts :
        Decide(policies \o draft.text, q) = "ALLOW" =>
            /\ q.action = "READ" /\ Context(q).resource_kind = "EMPLOYEE_PROFILE" /\ IsSelf(q)
            /\ \E g \in draft.groups : Spelled[g] = {} \/ Spelled[g] \cap q.roles # {}

=============================================================================
