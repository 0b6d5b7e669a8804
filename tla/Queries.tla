------------------------------ MODULE Queries ------------------------------
(***************************************************************************)
(* From what a client or the LLM sends to the request that is decided:     *)
(* prompts by the language bridge (crates/authz-llm-bridge), tool calls    *)
(* and retrievals by the catalog (crates/authz-catalog), messages between  *)
(* agents by a2a.rs of the proxy.                                          *)
(*                                                                         *)
(* A prompt is the set of topics whose key words it contains and the       *)
(* resource it spells out.  Departments and sensitivities become           *)
(* attributes of the resource, which no translated rule reads; so do the   *)
(* arguments of calls, as values of the context, but for those the         *)
(* arg_mappings of a tool give a name that a rule reads.                   *)
(***************************************************************************)
EXTENDS PolicyRules

CONSTANTS
    Resources,      \* the catalog's resources, in the order of its file
    Mappings,       \* its tools, in order
    Tools,          \* names of tools the LLM or an MCP client may use
    Tables,         \* names that begin with "db."
    Collections     \* names that begin with "vec."

Words == {"executive", "spending", "expense", "salary", "sql", "export", "payroll",
          "retrieve", "profile", "alice"}

Prompts    == [words : SUBSET Words, name : Names \cup {NoId}, garbled : BOOLEAN]
Identities == [id : Ids \cup {""}, roles : SUBSET Roles, groups : SUBSET Groups]
Calls      == [tool : Tools, id : Names \cup {NoId}, garbled : BOOLEAN,
               args : [Attributes -> Texts \cup {NoText}]]

\* The names the code spells out; mentions are the kinds whose spelling occurs in
\* the name of the resource; arg_mappings are the attributes that the mapping of a
\* tool takes from arguments, and args what a call holds where they are taken from.
ASSUME QueriesConstantsOK ==
    /\ Resources \in Seq([id : Names, kind : Kinds, mentions : SUBSET Kinds])
    /\ Mappings \in Seq([tool : Tools, action : Actions, kind : Kinds, takes_id : BOOLEAN,
                       arg_mappings : SUBSET Attributes])
    /\ Tools \cup Tables \cup Collections \subseteq Names
    /\ {"READ", "TOOL_INVOKE", "EXPORT", "A2A_SEND"} \subseteq Actions
    /\ {"TRAVEL_EXPENSE", "DB_TABLE", "SALARY", "VECTOR_COLLECTION", "EMPLOYEE_PROFILE",
        "GENERAL_CHAT", "TOOL_UNKNOWN", "AGENT_MESSAGE"} \subseteq Kinds
    /\ {"db.hr.travel_expenses", "api.export.payroll", "employee.self_profile"} \subseteq Names
    /\ {"employee:CEO", "employee:alice"} \subseteq Ids
    /\ {"EXECUTIVE", "ENGINEERING"} \subseteq Groups

-----------------------------------------------------------------------------
(***************************************************************************)
(* The catalog.                                                            *)
(***************************************************************************)
\* find: the first entry that fits.
First(I) == CHOOSE i \in I : \A j \in I : i <= j

Named(x)    == {i \in DOMAIN Resources : x \in {Resources[i].id, Resources[i].kind}}
Alike(kind) == {i \in DOMAIN Resources : kind \in {Resources[i].kind} \cup Resources[i].mentions}
Mapped(t)   == {i \in DOMAIN Mappings : Mappings[i].tool = t}

\* validate_catalog: something in it, and no id twice. Tools may repeat.
ValidCatalog ==
    /\ Resources # <<>> \/ Mappings # <<>>
    /\ \A i, j \in DOMAIN Resources : Resources[i].id = Resources[j].id => i = j

\* The kind the catalog gives a name, or the one it would otherwise be.
KindOf(x, otherwise) == IF Named(x) = {} THEN otherwise ELSE Resources[First(Named(x))].kind

RequestAbout(p, action, kind, id, subject, relationships, garbled) ==
    [principal |-> p.id, roles |-> p.roles, groups |-> p.groups, action |-> action,
     resource |-> kind, id |-> id, subject |-> subject, relationships |-> relationships,
     context |-> NoValues, garbled |-> garbled]

Request(p, action, kind, id, garbled) ==
    RequestAbout(p, action, kind, id, NoSubject, {}, garbled)

MappedRequest(p, c, m) ==
    [Request(p, m.action, m.kind, IF m.takes_id THEN c.id ELSE NoId, c.garbled) EXCEPT
        !.context = [a \in Attributes |-> IF a \in m.arg_mappings THEN c.args[a] ELSE NoText]]

\* Defect: a tool the catalog lacks is taken for a table.
CallOfAnyTool(p, c) ==
    IF Mapped(c.tool) = {} THEN Request(p, "TOOL_INVOKE", "DB_TABLE", c.tool, c.garbled)
    ELSE MappedRequest(p, c, Mappings[First(Mapped(c.tool))])

\* authz_for_tool: the first mapping of the tool, or the kind of unknown tools.
CallRequest(p, c) ==
    IF Mapped(c.tool) = {} THEN Request(p, "TOOL_INVOKE", "TOOL_UNKNOWN", c.tool, c.garbled)
    ELSE MappedRequest(p, c, Mappings[First(Mapped(c.tool))])

\* Defect: whatever is retrieved is a collection.
RetrievalOfCollection(p, collection, document) ==
    Request(p, "READ", "VECTOR_COLLECTION", IF document = NoId THEN collection ELSE document, FALSE)

\* authz_for_retrieve.
RetrievalRequest(p, collection, document) ==
    Request(p, "READ", KindOf(collection, "VECTOR_COLLECTION"),
            IF document = NoId THEN collection ELSE document, FALSE)

\* authorize_a2a_message: a message to another agent.
MessageRequest(p, agent) == Request(p, "A2A_SEND", "AGENT_MESSAGE", agent, FALSE)

-----------------------------------------------------------------------------
(***************************************************************************)
(* The bridge: the first topic a prompt is about decides.                  *)
(***************************************************************************)
Topics == <<"executive", "sql", "export", "retrieve", "profile", "alice">>

IsAbout(w, topic) ==
    CASE topic = "executive" -> "executive" \in w /\ w \cap {"spending", "expense", "salary"} # {}
      [] topic = "export"    -> "export" \in w /\ w \cap {"payroll", "salary"} # {}
      [] topic = "alice"     -> {"alice", "expense"} \subseteq w
      [] OTHER               -> topic \in w

TopicOf(w) ==
    LET I == {i \in DOMAIN Topics : IsAbout(w, Topics[i])}
    IN  IF I = {} THEN "chat" ELSE Topics[First(I)]

Extract(action, kind, id, subject, reports) ==
    [action |-> action, kind |-> kind, id |-> id, subject |-> subject, reports |-> reports]

\* extract_structured, and what chat_completions takes for everything else.
Extraction(prompt) ==
    LET topic   == TopicOf(prompt.words)
        among(S) == IF prompt.name \in S THEN prompt.name ELSE NoId
        theCeo  == [id |-> "employee:CEO", groups |-> {"EXECUTIVE"}]
        report  == [id |-> "employee:alice", groups |-> {"ENGINEERING"}]
    IN  CASE topic = "executive" -> Extract("READ", "TRAVEL_EXPENSE", "db.hr.travel_expenses", theCeo, {"employee:alice"})
          [] topic = "sql"       -> Extract("TOOL_INVOKE", "DB_TABLE", among(Tables), NoSubject, {})
          [] topic = "export"    -> Extract("EXPORT", "SALARY", "api.export.payroll", NoSubject, {})
          [] topic = "retrieve"  -> Extract("READ", "VECTOR_COLLECTION", among(Collections), NoSubject, {})
          [] topic = "profile"   -> Extract("READ", "EMPLOYEE_PROFILE", "employee.self_profile", NoSubject, {})
          [] topic = "alice"     -> Extract("READ", "TRAVEL_EXPENSE", "db.hr.travel_expenses", report, {"employee:alice"})
          [] OTHER               -> Extract("READ", "GENERAL_CHAT", NoId, NoSubject, {})

\* The catalog has the last word on the kind of a resource that is named, and
\* names one of the kind if none is.
Bind(e) ==
    IF e.id # NoId THEN [kind |-> KindOf(e.id, e.kind), id |-> e.id]
    ELSE IF Alike(e.kind) = {} THEN [kind |-> e.kind, id |-> NoId]
    ELSE LET r == Resources[First(Alike(e.kind))] IN [kind |-> r.kind, id |-> r.id]

ReportsOf(p, reports) == {[kind |-> "direct_reports", from |-> p.id, to |-> r] : r \in reports}

\* bind_extraction: the reports it supposes are made reports of the principal.
PromptRequest(p, prompt) ==
    LET e == Extraction(prompt)
    IN  RequestAbout(p, e.action, Bind(e).kind, Bind(e).id, e.subject, ReportsOf(p, e.reports),
                     prompt.garbled)

(***************************************************************************)
(* What a user may ask beforehand with `authz check`, which knows neither  *)
(* the catalog nor the groups of the principal.                            *)
(***************************************************************************)
\* The request as the arguments spell it.
CheckRequest(p, action, kind, subject, reports) ==
    RequestAbout([p EXCEPT !.groups = {}], action, kind, NoId, subject, ReportsOf(p, reports), FALSE)

\* --nl: the prompt as the bridge reads it; one it does not recognise is an error.
PreviewRequest(p, prompt) ==
    LET e == Extraction(prompt)
    IN  RequestAbout([p EXCEPT !.groups = {}], e.action, e.kind, e.id, e.subject,
                     ReportsOf(p, e.reports), prompt.garbled)

=============================================================================
