---------------------------- MODULE MCChatProxy ----------------------------
(* Values for the constants of ProxyPipeline: one principal with an id and  *)
(* one without, a query of each verdict among the prompts and the tools,    *)
(* and a text with the rules about tables, documents and unknown tools.     *)
EXTENDS ProxyPipeline

CONSTANTS r1, r2, alice, anonymous, look, pry, garble, ledger, vault, tell, read, drop, bad

MCPrincipals == {alice, anonymous}
MCNameless   == {anonymous}
MCUtterances == {look, pry, garble}
MCRetrievals == {ledger, vault}
MCMessages   == {tell}
MCTools      == {read, drop, bad}

MCKinds == {"TRAVEL_EXPENSE", "DB_TABLE", "SALARY", "VECTOR_COLLECTION", "EMPLOYEE_PROFILE",
            "GENERAL_CHAT", "TOOL_UNKNOWN", "AGENT_MESSAGE"}
MCNames == {"db.hr.travel_expenses", "api.export.payroll", "employee.self_profile", "db.hr.employees",
            "vec.hr.policies", "vec.finance.filings", "sql_query", "rm", "agent"}

MCResources ==
    << [id |-> "db.hr.employees", kind |-> "DB_TABLE", mentions |-> {}],
       [id |-> "db.hr.travel_expenses", kind |-> "TRAVEL_EXPENSE", mentions |-> {"TRAVEL_EXPENSE"}],
       [id |-> "vec.hr.policies", kind |-> "VECTOR_COLLECTION", mentions |-> {}],
       [id |-> "vec.finance.filings", kind |-> "SALARY", mentions |-> {}] >>
MCMappings ==
    << [tool |-> "sql_query", action |-> "TOOL_INVOKE", kind |-> "DB_TABLE", takes_id |-> TRUE,
        arg_mappings |-> {}] >>

Rule(verdict, action, resource, roles, unless, groups) ==
    [effect |-> verdict, action |-> action, resource |-> resource, when_roles |-> roles,
     unless_roles |-> unless, where_subjects |-> {}, first_subject |-> "",
     where_subject_groups |-> groups]
MCDeployed ==
    << Rule("allow", "TOOL_INVOKE", "DB_TABLE", {"HR_HEAD"}, {}, {}),
       Rule("allow", "READ", "TRAVEL_EXPENSE", {"HR_HEAD"}, {}, {}),
       Rule("deny", "READ", "TRAVEL_EXPENSE", {}, {"CFO"}, {"EXECUTIVE"}),
       Rule("allow", "READ", "VECTOR_COLLECTION", {"HR_HEAD"}, {}, {}),
       Rule("deny", "TOOL_INVOKE", "TOOL_UNKNOWN", {}, {}, {}) >>

Person(id) == [id |-> id, roles |-> {"HR_HEAD"}, groups |-> {}]
MCPersonOf == [p \in MCPrincipals |-> IF p = alice THEN Person("employee:alice") ELSE Person("")]

Plain(words, garbled) == [words |-> words, name |-> NoId, garbled |-> garbled]
MCPromptOf == [q \in MCUtterances |->
    CASE q = look   -> Plain({"sql"}, FALSE)
      [] q = pry    -> Plain({"executive", "expense"}, FALSE)
      [] q = garble -> Plain({"sql"}, TRUE)]
MCCollectionOf == [q \in MCRetrievals |-> IF q = ledger THEN "vec.hr.policies" ELSE "vec.finance.filings"]
MCAgentOf      == [q \in MCMessages |-> "agent"]
Using(tool, id, garbled) == [tool |-> tool, id |-> id, garbled |-> garbled, args |-> Q!NoValues]
MCCallOf == [q \in MCTools |->
    CASE q = read -> Using("sql_query", "db.hr.employees", FALSE)
      [] q = drop -> Using("rm", NoId, FALSE)
      [] q = bad  -> Using("sql_query", NoId, TRUE)]

\* What the pipeline decides, as PipelineConstantsOK checks it.
MCPolicy ==
    [p \in MCPrincipals |-> [q \in Queries |->
        IF p = anonymous \/ q \in {garble, bad} THEN "ERROR"
        ELSE IF q \in {look, ledger, read} THEN "ALLOW" ELSE "DENY"]]

\* No call; mixed and all-forbidden choices; a repeated call; a call whose
\* check fails after one that is executed; an empty or null tool_calls.
MCAnswers ==
    { << NoCalls, <<>> >>,
      << <<drop>>, <<read, drop>> >>,
      << <<read, read>> >>,
      << <<read, bad>> >> }
=============================================================================
