-------------------------- MODULE MCPolicyLanguage --------------------------
(***************************************************************************)
(* Texts of up to MaxLines lines that put every statement beside every     *)
(* other, and the requests that tell their meanings apart.                 *)
(***************************************************************************)
EXTENDS DecidedQueries, TLC

CONSTANTS boss, clerk, ann, execs, payers, nameless

alice == "employee:alice"
ceo   == "employee:CEO"

Effects(e, a, k) == [kind |-> "effect", effect |-> e, action |-> a, resource |-> k]

MCLines ==
    {Header, Bad,
     [kind |-> "when", roles |-> {clerk}],
     [kind |-> "when", roles |-> {}],       \* when role in []
     Effects("allow", "READ", "TRAVEL_EXPENSE"), Effects("deny", "READ", "TRAVEL_EXPENSE"),
     Effects("review", "READ", "TRAVEL_EXPENSE"), Effects("allow", "A2A_SEND", "AGENT_MESSAGE"),
     Effects("allow", "TOOL_INVOKE", "TOOL_UNKNOWN"), Effects("allow", "TOOL_INVOKE", "DB_TABLE"),
     [kind |-> "where", subject |-> "SELF"], [kind |-> "or", subject |-> "DIRECT_REPORTS"],
     [kind |-> "where", subject |-> alice], [kind |-> "or", group |-> "EXECUTIVE"],
     [kind |-> "unless", roles |-> {boss}]}

\* ann asks: about nobody, herself, her report alice, alice who is her manager, and
\* the CEO; with edges that put either of them into a group.
Edge(kind, from, to) == [kind |-> kind, from |-> from, to |-> to]
Aside(subject, edges) == [subject |-> subject, edges |-> edges]

MCAsides ==
    {Aside(NoSubject, {}),
     Aside([id |-> ann, groups |-> {}], {Edge("group_member", ann, "ENGINEERING")}),
     Aside([id |-> alice, groups |-> {}], {Edge("manager_of", ann, alice)}),
     Aside([id |-> alice, groups |-> {}], {Edge("manager_of", alice, ann),
                                           Edge("delegation", ann, alice)}),
     Aside([id |-> ceo, groups |-> {"EXECUTIVE"}], {})}

Bringing(attribute, text) == (attribute :> text) @@ NoValues

Asking(roles, resource, aside, context) ==
    [principal |-> ann, roles |-> roles, groups |-> {}, action |-> "READ",
     resource |-> resource, id |-> NoId, subject |-> aside.subject,
     relationships |-> aside.edges, context |-> context, garbled |-> FALSE]

\* About nobody with any roles; about somebody with a role that a rule may except.
\* And requests with a value of their own: for the kind of what they are about, the
\* groups of the CEO, the flags, and the roles of whoever asks.
MCRequests ==
    {Asking(c[1], "TRAVEL_EXPENSE", c[2], NoValues) :
        c \in ((SUBSET {boss, clerk}) \X {Aside(NoSubject, {})})
                 \cup ({{clerk}} \X MCAsides)
                 \cup {<<{boss, clerk}, Aside([id |-> ann, groups |-> {}], {})>>}}
    \cup {Asking({clerk}, "DB_TABLE", Aside(NoSubject, {}), Bringing("resource_kind", "TRAVEL_EXPENSE")),
          Asking({clerk}, "TRAVEL_EXPENSE", Aside(NoSubject, {}), Bringing("principal_roles", "")),
          Asking({clerk}, "TRAVEL_EXPENSE", Aside([id |-> ceo, groups |-> {"EXECUTIVE"}], {}),
                 Bringing("subject_groups", ""))}
    \cup {Asking({clerk}, "TRAVEL_EXPENSE",
                 Aside([id |-> ann, groups |-> {}], {Edge("manager_of", ann, ann)}), Bringing(flag, "")) :
              flag \in {"subject_is_self", "subject_in_direct_reports"}}

MCNames == {"db.hr.travel_expenses", "api.export.payroll", "employee.self_profile", "db.hr.employees",
            "vec.policies", "vec.ledger", "sql_query", "send", "rm"}

\* One collection is not what its name says.
MCResources ==
    << [id |-> "db.hr.employees", kind |-> "DB_TABLE", mentions |-> {}],
       [id |-> "db.hr.travel_expenses", kind |-> "TRAVEL_EXPENSE", mentions |-> {"TRAVEL_EXPENSE"}],
       [id |-> "vec.ledger", kind |-> "TRAVEL_EXPENSE", mentions |-> {}] >>

MCMappings ==
    << [tool |-> "sql_query", action |-> "TOOL_INVOKE", kind |-> "DB_TABLE", takes_id |-> TRUE,
        arg_mappings |-> {"resource_kind"}],
       [tool |-> "sql_query", action |-> "READ", kind |-> "TRAVEL_EXPENSE", takes_id |-> TRUE,
        arg_mappings |-> {}],
       [tool |-> "send", action |-> "A2A_SEND", kind |-> "AGENT_MESSAGE", takes_id |-> FALSE,
        arg_mappings |-> {}] >>

MCPeople == {[id |-> ann, roles |-> {boss}, groups |-> {}],
             [id |-> alice, roles |-> {clerk}, groups |-> {"ENGINEERING"}]}

Prompt(words, name) == [words |-> words, name |-> name, garbled |-> FALSE]

MCUttered == {Prompt({"executive", "salary", "export"}, NoId), Prompt({"sql"}, "db.hr.employees"),
           Prompt({"sql"}, NoId), Prompt({"retrieve"}, "vec.policies"),
           Prompt({"retrieve", "alice"}, "vec.ledger"), Prompt({"alice", "expense"}, NoId),
           Prompt({"profile"}, NoId)}

Using(tool, id, args) == [tool |-> tool, id |-> id, garbled |-> FALSE, args |-> args]

MCUsed ==
    {Using(t, NoId, NoValues) : t \in {"sql_query", "send", "rm"}}
    \cup {Using("sql_query", "db.hr.employees", NoValues)}
    \cup {Using(t, NoId, Bringing("resource_kind", "TOOL_UNKNOWN")) : t \in {"sql_query", "rm"}}

\* The group of the executives; one with a comma in its name; one without a name.
MCSpelled  == (execs :> {clerk}) @@ (payers :> {boss, "CFO"}) @@ (nameless :> {})
MCMentions == (execs :> {"EXEC", "EXECUTIVE"}) @@ (payers :> {"PAYROLL"}) @@ (nameless :> {})

MCSnapshots   == {{execs, payers}, {nameless}}
MCDeniedTwice == {<<"READ", "EMPLOYEE_PROFILE">>}

\* One's own profile, whatever one's roles; what is another's, with some.
MCConsidered ==
    {Asking(c[1], c[2], Aside(c[3], {}), NoValues) :
        c \in ({{}, {clerk}, {"CFO"}} \X {"EMPLOYEE_PROFILE"} \X {[id |-> ann, groups |-> {}]})
              \cup ({{"CFO"}} \X {"EMPLOYEE_PROFILE", "TRAVEL_EXPENSE"}
                            \X {[id |-> ceo, groups |-> {"EXECUTIVE"}]})}
    \cup {Asking({clerk}, "TRAVEL_EXPENSE", Aside([id |-> x, groups |-> {}], {}),
                 Bringing("resource_kind", "EMPLOYEE_PROFILE")) : x \in {ann, ceo}}

=============================================================================
