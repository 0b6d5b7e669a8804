------------------------ MODULE PolicyLanguageProofs ------------------------
(***************************************************************************)
(* What holds of texts of every length, every request and every policy:    *)
(* the parser builds of a text what its lines say, exactly the well-formed *)
(* texts are accepted, verdict and evidence are those the lines state,     *)
(* however the same thing is asked, and no drafted rule grants more than   *)
(* it should.                                                              *)
(***************************************************************************)
EXTENDS DecidedQueries, FiniteSetTheorems, SequenceTheorems, TLAPS

\* A statement makes a partial policy of a partial policy.
LEMMA TakeType ==
    ASSUME NEW p \in Partials, NEW line \in Statements
    PROVE  Take(p, line) \in Partials
<1>1. CASE line.kind = "when"
  <2>1. line.roles \in SUBSET Roles
    BY <1>1 DEF Statements
  <2> QED
    BY <1>1, <2>1 DEF Take, Partials
<1>2. CASE line.kind = "unless"
  <2>1. line.roles \in SUBSET Roles
    BY <1>2 DEF Statements
  <2> QED
    BY <1>2, <2>1 DEF Take, Partials
<1>3. CASE line.kind = "effect"
  <2>1. line.effect \in {"allow", "deny", "review"} /\ line.action \in Actions /\ line.resource \in Kinds
    BY <1>3 DEF Statements
  <2> QED
    BY <1>3, <2>1 DEF Take, Partials
<1>4. CASE line.kind \in {"where", "or"} /\ "group" \in DOMAIN line
  <2>1. line.group \in Groups
    BY <1>4 DEF Statements
  <2> QED
    BY <1>4, <2>1 DEF Take, Partials
<1>5. CASE line.kind \in {"where", "or"} /\ "group" \notin DOMAIN line
  <2>1. line.subject \in {"SELF", "DIRECT_REPORTS"} \cup Ids
    BY <1>5 DEF Statements
  <2> QED
    BY <1>5, <2>1 DEF Take, Partials
<1>6. line.kind \in {"when", "unless", "effect", "where", "or"}
  BY DEF Statements
<1> QED
  BY <1>1, <1>2, <1>3, <1>4, <1>5, <1>6

\* What is finished joins the finished policies.
LEMMA FinishType ==
    ASSUME TypeOK, Finished
    PROVE  policies \o current \in Seq(Policies)
<1>1. policies \in Seq(Policies) /\ current \in Seq(Partials) /\ Len(current) <= 1
  BY DEF TypeOK
<1>2. \A i \in 1..Len(current) : current[i] \in Policies
  BY <1>1 DEF Finished, Policies
<1>3. current \in Seq(Policies)
  BY <1>1, <1>2
<1> QED
  BY <1>1, <1>3

\* Types hold at the start and are kept by every line read and every check.
LEMMA TypesKept == TypeOK /\ [Next]_vars => TypeOK'
<1> SUFFICES ASSUME TypeOK, [Next]_vars
             PROVE  TypeOK'
  OBVIOUS
<1>h. Header \in Statements \cup {Header, Bad} /\ Bad \in Statements \cup {Header, Bad}
  OBVIOUS
<1>1. CASE ReadHeader
  <2>1. read' \in Seq(Statements \cup {Header, Bad})
    BY <1>1, <1>h DEF ReadHeader, TypeOK
  <2>2. NewPolicy \in Partials
    BY DEF NewPolicy, Partials
  <2>3. <<NewPolicy>> \in Seq(Partials) /\ Len(<<NewPolicy>>) = 1
    BY <2>2
  <2>4. CASE Finished
    <3>1. policies' = policies \o current /\ current' = <<NewPolicy>> /\ status' = status
      BY <1>1, <2>4 DEF ReadHeader
    <3> QED
      BY <2>1, <2>3, <2>4, <3>1, FinishType DEF TypeOK
  <2>5. CASE ~Finished
    <3>1. Refuse
      BY <1>1, <2>5 DEF ReadHeader
    <3> QED
      BY <2>1, <3>1 DEF Refuse, TypeOK
  <2> QED
    BY <2>4, <2>5
<1>2. CASE ReadStatement
  <2>1. PICK line \in Lines \ {Header} :
          /\ read' = Append(read, line)
          /\ \/ /\ current # <<>> /\ line # Bad
                /\ current' = <<Take(current[1], line)>>
                /\ UNCHANGED <<policies, status>>
             \/ (current = <<>> \/ line = Bad) /\ Refuse
    BY <1>2 DEF ReadStatement
  <2>2. line \in Statements \cup {Bad}
    BY LanguageConstantsOK
  <2>3. read' \in Seq(Statements \cup {Header, Bad})
    BY <2>1, <2>2 DEF TypeOK
  <2>4. CASE Refuse
    BY <2>3, <2>4 DEF Refuse, TypeOK
  <2>5. CASE /\ current # <<>> /\ line # Bad
             /\ current' = <<Take(current[1], line)>>
             /\ UNCHANGED <<policies, status>>
    <3>1. current[1] \in Partials
      BY <2>5 DEF TypeOK
    <3>2. Take(current[1], line) \in Partials
      BY <2>2, <2>5, <3>1, TakeType
    <3>3. current' \in Seq(Partials) /\ Len(current') = 1
      BY <2>5, <3>2
    <3> QED
      BY <2>3, <2>5, <3>3 DEF TypeOK
  <2> QED
    BY <2>1, <2>4, <2>5
<1>3. CASE EndOfText
  <2>1. <<>> \in Seq(Partials) /\ Len(<<>>) = 0
    OBVIOUS
  <2>2. CASE Finished
    <3>1. policies' = policies \o current /\ current' = <<>> /\ status' = "parsed" /\ read' = read
      BY <1>3, <2>2 DEF EndOfText
    <3> QED
      BY <2>1, <2>2, <3>1, FinishType DEF TypeOK
  <2>3. CASE ~Finished
    <3>1. Refuse /\ read' = read
      BY <1>3, <2>3 DEF EndOfText
    <3> QED
      BY <3>1 DEF Refuse, TypeOK
  <2> QED
    BY <2>2, <2>3
<1>4. CASE Validate
  BY <1>4 DEF Validate, TypeOK
<1>5. CASE UNCHANGED vars
  BY <1>5 DEF vars, TypeOK
<1> QED
  BY <1>1, <1>2, <1>3, <1>4, <1>5 DEF Next

\* Every state of the parser is well typed; in particular only policies with an
\* effect are ever finished (dsl.rs:155-176).
THEOREM TypeCorrect == Spec => []TypeOK
<1>1. Init => TypeOK
  BY DEF Init, TypeOK
<1> QED
  BY <1>1, TypesKept, PTL DEF Spec

-----------------------------------------------------------------------------
\* A condition asks about action, resource, roles and subject, never about the
\* groups of the principal; what is asked for a flag or a list is one of four
\* attributes. What comes first in it is part of it.
LEMMA AskedAttributes ==
    ASSUME NEW p, NEW c \in Clauses(p)
    PROVE  /\ c.first \subseteq c.tests
           /\ \A t \in c.tests :
                 /\ t.attr \in Attributes \ {"principal_groups"}
                 /\ t.test = "equals" \/ t.attr \in {"principal_roles", "subject_is_self",
                                                     "subject_in_direct_reports", "subject_groups"}
<1> DEFINE Fine(t) ==
              /\ t.attr \in Attributes \ {"principal_groups"}
              /\ t.test = "equals" \/ t.attr \in {"principal_roles", "subject_is_self",
                                                  "subject_in_direct_reports", "subject_groups"}
<1>1. ASSUME NEW s
      PROVE  Fine(IsSubject(s))
  BY DEF IsSubject, Equals, Flag, Attributes
<1>2. CASE c \in {AnyOf({Equals("resource_kind", p.resource)}), AnyOf({Equals("action_name", p.action)})}
  BY <1>2 DEF AnyOf, Equals, Attributes
<1>3. CASE c = AnyOf(HasRole(p.when_roles)) \/ c = NoneOf(HasRole(p.unless_roles))
  BY <1>3 DEF AnyOf, NoneOf, HasRole, Contains, Attributes
<1>4. CASE c = BySubject(p)
  <2>1. /\ c.tests = {IsSubject(s) : s \in p.where_subjects}
        /\ c.first = {IsSubject(s) : s \in p.where_subjects \cap {p.first_subject}}
    BY <1>4 DEF BySubject, AnyOf
  <2> HIDE DEF Fine
  <2>2. c.first \subseteq c.tests /\ \A t \in c.tests : Fine(t)
    BY <1>1, <2>1
  <2> QED
    BY <2>2 DEF Fine
<1>5. CASE c = AnyOf(InGroup(p.where_subject_groups))
  BY <1>5 DEF AnyOf, InGroup, Contains, Attributes
<1> QED
  BY <1>2, <1>3, <1>4, <1>5 DEF Clauses, IfAny

\* The context of a request says everything a condition may ask; roles and groups of
\* the principal are what they are, whatever the request brings.
LEMMA ContextIs ==
    ASSUME NEW q
    PROVE  /\ DOMAIN Context(q) = Attributes
           /\ "principal_roles" \notin Supplies(q)
           /\ \A a \in Attributes : Context(q)[a] = IF a \in Supplies(q) THEN q.context[a]
                                                    ELSE Computed(q)[a]
           /\ BringsNothing(q) <=> Supplies(q) = {}
           /\ q.context = NoValues => Supplies(q) = {}
BY DEF Context, Supplies, Brings, BringsNothing, NoValues

\* A test is an error only where the request supplies a flag or a list.
LEMMA TestsEvaluate ==
    ASSUME NEW p, NEW q, NEW c \in Clauses(p), NEW t \in c.tests
    PROVE  /\ ~Evaluates(t, q) => t.attr \in Supplies(q) \cap {"subject_is_self",
                                      "subject_in_direct_reports", "subject_groups"}
           /\ Supplies(q) = {} => Evaluates(t, q)
<1>1. DOMAIN Context(q) = Attributes /\ "principal_roles" \notin Supplies(q)
  BY ContextIs
<1>2. t.attr \in Attributes
  BY AskedAttributes
<1>3. t.test = "equals" \/ t.attr \in {"principal_roles", "subject_is_self",
                                       "subject_in_direct_reports", "subject_groups"}
  BY AskedAttributes
<1> QED
  BY <1>1, <1>2, <1>3 DEF Evaluates

\* Whatever text is in force, no rule of it is skipped for want of an attribute, with
\* a subject or without; it takes a request that itself brings a value in the place of
\* a flag or a list (evaluate.rs:64-123, translate.rs:24-103).
THEOREM NothingSkipped == Spec => []NeverSkipsARule
<1>1. ASSUME NEW p, NEW q, Skipped(p, q)
      PROVE  Brings(q) \cap {"subject_is_self", "subject_in_direct_reports",
                             "subject_groups"} # {}
  <2>1. PICK c \in Clauses(p) : \E t \in c.tests : ~Evaluates(t, q)
    BY <1>1 DEF Skipped
  <2>2. PICK t \in c.tests : ~Evaluates(t, q)
    BY <2>1
  <2>3. t.attr \in Supplies(q) \cap {"subject_is_self", "subject_in_direct_reports",
                                     "subject_groups"}
    BY <2>2, TestsEvaluate
  <2> QED
    BY <2>3 DEF Supplies
<1>2. NeverSkipsARule
  BY <1>1 DEF NeverSkipsARule
<1> QED
  BY <1>2, PTL

\* A clause whose tests are all evaluated asks for one of them, or for none.
LEMMA ClausesHold ==
    ASSUME NEW q, NEW T, \A t \in T : Evaluates(t, q)
    PROVE  /\ Holds(AnyOf(T), q) <=> \E t \in T : Passes(t, q)
           /\ Holds(NoneOf(T), q) <=> ~\E t \in T : Passes(t, q)
BY DEF Holds, AnyOf, NoneOf

\* What a policy says of roles, action and kind, every request that satisfies it
\* meets: the roles are the principal's own, the kind is the one in the context.
LEMMA RolesDecide ==
    ASSUME NEW q, NEW R
    PROVE  /\ Holds(AnyOf(HasRole(R)), q) <=> R \cap q.roles # {}
           /\ Holds(NoneOf(HasRole(R)), q) <=> R \cap q.roles = {}
<1>1. ASSUME NEW r
      PROVE  /\ Evaluates(Contains("principal_roles", r), q)
             /\ Passes(Contains("principal_roles", r), q) <=> r \in q.roles
  <2>1. /\ "principal_roles" \in Attributes
        /\ Computed(q)["principal_roles"] = q.roles
    BY DEF Attributes, Computed
  <2>2. /\ DOMAIN Context(q) = Attributes /\ "principal_roles" \notin Supplies(q)
        /\ Context(q)["principal_roles"] = q.roles
    BY <2>1, ContextIs
  <2>3. LET t == Contains("principal_roles", r)
        IN  t.attr = "principal_roles" /\ t.test = "contains" /\ t.value = r
    BY DEF Contains
  <2> QED
    BY <2>1, <2>2, <2>3 DEF Evaluates, Passes
<1>2. \A t \in HasRole(R) : Evaluates(t, q)
  BY <1>1 DEF HasRole
<1>3. (\E t \in HasRole(R) : Passes(t, q)) <=> R \cap q.roles # {}
  <2>1. (\E t \in HasRole(R) : Passes(t, q))
          <=> \E r \in R : Passes(Contains("principal_roles", r), q)
    BY DEF HasRole
  <2> QED
    BY <1>1, <2>1
<1> QED
  BY <1>2, <1>3, ClausesHold

\* So a policy that is satisfied is one for the action, for these roles, and for the
\* kind the context states.
LEMMA SatisfiedNeeds ==
    ASSUME NEW p, NEW q, Satisfied(p, q)
    PROVE  /\ p.action = q.action /\ Context(q)["resource_kind"] = p.resource
           /\ p.when_roles # {} => p.when_roles \cap q.roles # {}
           /\ p.unless_roles \cap q.roles = {}
<1>1. p.action = q.action /\ \A c \in Clauses(p) : Holds(c, q)
  BY DEF Satisfied
<1>2. Context(q)["resource_kind"] = p.resource
  <2> DEFINE t == Equals("resource_kind", p.resource)
  <2>1. AnyOf({t}) \in Clauses(p)
    BY DEF Clauses
  <2>2. t.attr = "resource_kind" /\ t.test = "equals" /\ t.value = p.resource
    BY DEF Equals
  <2>3. Evaluates(t, q)
    <3>1. "resource_kind" \in DOMAIN Context(q)
      BY ContextIs DEF Attributes
    <3> HIDE DEF t
    <3> QED
      BY <2>2, <3>1 DEF Evaluates
  <2> HIDE DEF t
  <2>4. Passes(t, q)
    BY <1>1, <2>1, <2>3, ClausesHold
  <2> QED
    BY <2>2, <2>4 DEF Passes
<1>3. p.when_roles # {} => p.when_roles \cap q.roles # {}
  <2>1. p.when_roles # {} => AnyOf(HasRole(p.when_roles)) \in Clauses(p)
    BY DEF Clauses, IfAny
  <2> QED
    BY <1>1, <2>1, RolesDecide
<1>4. p.unless_roles \cap q.roles = {}
  <2>1. p.unless_roles # {} => NoneOf(HasRole(p.unless_roles)) \in Clauses(p)
    BY DEF Clauses, IfAny
  <2> QED
    BY <1>1, <2>1, RolesDecide
<1> QED
  BY <1>1, <1>2, <1>3, <1>4

-----------------------------------------------------------------------------
\* A text is in force only with the approval of the validator, and stays as it is.
Approved == status = "valid" => Valid(policies)

\* Only Commit puts a text in force, and no text grows once it is (store.rs:63-72).
LEMMA ApprovedKept == Approved /\ [Next]_vars => Approved'
<1> SUFFICES ASSUME Approved, [Next]_vars
             PROVE  Approved'
  OBVIOUS
<1> USE DEF Approved
<1>1. CASE ReadHeader
  BY <1>1 DEF ReadHeader, Refuse
<1>2. CASE ReadStatement
  BY <1>2 DEF ReadStatement, Refuse
<1>3. CASE EndOfText
  BY <1>3 DEF EndOfText, Refuse
<1>4. CASE Validate
  BY <1>4 DEF Validate, Valid
<1>5. CASE UNCHANGED vars
  BY <1>5 DEF vars, Valid
<1> QED
  BY <1>1, <1>2, <1>3, <1>4, <1>5 DEF Next

\* Whatever a valid text says, an action the schema does not know is never allowed:
\* some rule would have to name it (schema.rs:22-75, translate.rs:24-40).
LEMMA SchemaDecides ==
    ASSUME NEW ps, Valid(ps), NEW q, Decide(ps, q) = "ALLOW"
    PROVE  q.action \in SchemaActions
<1>1. PICK i \in DOMAIN ps : Satisfied(ps[i], q)
  BY DEF Decide, Matching
<1> QED
  BY <1>1 DEF Satisfied, Valid

\* Messages between agents, and tools mapped to other actions, are always denied
\* (a2a.rs:44-60, catalog.rs:96-103).
THEOREM OnlySchemaActions == Spec => []SchemaBounds
<1>1. Init => Approved
  BY DEF Init, Approved
<1>2. Approved => SchemaBounds
  BY SchemaDecides DEF Approved, SchemaBounds, Allows
<1> QED
  BY <1>1, <1>2, ApprovedKept, PTL DEF Spec

-----------------------------------------------------------------------------
\* A prompt to retrieve from a collection becomes the very request that retrieving
\* from it makes.
LEMMA SameRetrieval ==
    ASSUME NEW p, NEW s, TopicOf(s.words) = "retrieve", s.name \in Collections, ~s.garbled,
           s.garbled \in BOOLEAN
    PROVE  PromptRequest(p, s) = RetrievalRequest(p, s.name, NoId)
<1>1. s.name # NoId
  BY QueriesConstantsOK, RulesConstantsOK
<1>2. Extraction(s) = Extract("READ", "VECTOR_COLLECTION", s.name, NoSubject, {})
  BY DEF Extraction
<1>3. Bind(Extraction(s)) = [kind |-> KindOf(s.name, "VECTOR_COLLECTION"), id |-> s.name]
  BY <1>1, <1>2 DEF Bind, Extract
<1>4. s.garbled = FALSE
  OBVIOUS
<1>5. Extraction(s).action = "READ" /\ Extraction(s).subject = NoSubject /\ Extraction(s).reports = {}
  BY <1>2 DEF Extract
<1>6. PromptRequest(p, s) = Request(p, "READ", KindOf(s.name, "VECTOR_COLLECTION"), s.name, FALSE)
  <2>1. ReportsOf(p, Extraction(s).reports) = {}
    BY <1>5 DEF ReportsOf
  <2>2. Bind(Extraction(s)).kind = KindOf(s.name, "VECTOR_COLLECTION") /\ Bind(Extraction(s)).id = s.name
    BY <1>3
  <2> QED
    BY <1>4, <1>5, <2>1, <2>2 DEF PromptRequest, Request
<1>7. RetrievalRequest(p, s.name, NoId) = Request(p, "READ", KindOf(s.name, "VECTOR_COLLECTION"), s.name, FALSE)
  BY DEF RetrievalRequest
<1> QED
  BY <1>6, <1>7

\* Whatever the text and the catalog, the proxy's two ways to a document agree
\* (extract.rs:77-92, catalog.rs:131-168).
THEOREM RetrievalAgrees == Spec => []PromptAndRetrievalAgree
<1>1. PromptAndRetrievalAgree
  BY SameRetrieval, QueriesOK DEF PromptAndRetrievalAgree, Prompts
<1> QED
  BY <1>1, PTL

\* Two requests that supply nothing and differ in what no condition asks for are
\* decided alike.
LEMMA SameAsideSameVerdict ==
    ASSUME NEW ps, NEW q, NEW r, q.principal = r.principal, q.action = r.action,
           q.garbled = r.garbled, q.resource = r.resource, q.roles = r.roles,
           q.subject = r.subject, IsReport(q) = IsReport(r),
           Supplies(q) = {}, Supplies(r) = {}
    PROVE  Decide(ps, q) = Decide(ps, r)
<1>1. IsSelf(q) = IsSelf(r)
  BY DEF IsSelf
<1>2. ASSUME NEW a \in Attributes \ {"principal_groups"}
      PROVE  Context(q)[a] = Context(r)[a]
  <2>1. Computed(q)[a] = Computed(r)[a]
    BY <1>1 DEF Attributes, Computed
  <2> QED
    BY <2>1, ContextIs
<1>3. ASSUME NEW p, NEW c \in Clauses(p)
      PROVE  Holds(c, q) = Holds(c, r)
  <2>1. \A t \in c.tests : Evaluates(t, q) /\ Evaluates(t, r)
    BY TestsEvaluate
  <2>2. ASSUME NEW t \in c.tests
        PROVE  Passes(t, q) = Passes(t, r)
    <3>1. t.attr \in Attributes \ {"principal_groups"}
      BY AskedAttributes
    <3> QED
      BY <1>2, <3>1 DEF Passes
  <2>3. c.first \subseteq c.tests
    BY AskedAttributes
  <2> QED
    BY <2>1, <2>2, <2>3 DEF Holds
<1>4. ASSUME NEW p
      PROVE  Satisfied(p, q) = Satisfied(p, r)
  BY <1>3 DEF Satisfied
<1>5. ASSUME NEW e
      PROVE  Matching(ps, q, e) = Matching(ps, r, e)
  BY <1>4 DEF Matching
<1> QED
  BY <1>5 DEF Decide

\* The name of the resource is one of these things: a tool call and the prompt that
\* asks for it are decided alike, whatever the text, if no argument of the call is
\* mapped to what rules read (evaluate.rs:142-151, catalog.rs:63-110).
THEOREM CallsAgree == Spec => []PromptAndCallAgree
<1> DEFINE m(c) == Mappings[First(Mapped(c.tool))]
<1>1. ASSUME NEW p \in People, NEW s \in Uttered, NEW c \in Used,
             TopicOf(s.words) = "sql", s.name \in Tables, s.garbled = c.garbled,
             Mapped(c.tool) # {}, m(c).action = "TOOL_INVOKE", m(c).kind = KindOf(s.name, "DB_TABLE"),
             BringsNothing(CallRequest(p, c))
      PROVE  Decide(policies, PromptRequest(p, s)) = Decide(policies, CallRequest(p, c))
  <2> DEFINE K == KindOf(s.name, "DB_TABLE")
             id == IF m(c).takes_id THEN c.id ELSE NoId
  <2>1. s.name # NoId
    BY <1>1, QueriesConstantsOK, RulesConstantsOK
  <2>2. Extraction(s) = Extract("TOOL_INVOKE", "DB_TABLE", s.name, NoSubject, {})
    BY <1>1 DEF Extraction
  <2>3. Bind(Extraction(s)) = [kind |-> K, id |-> s.name]
    BY <2>1, <2>2 DEF Bind, Extract
  <2>4. Extraction(s).action = "TOOL_INVOKE" /\ Extraction(s).subject = NoSubject /\ Extraction(s).reports = {}
    BY <2>2 DEF Extract
  <2>5. ReportsOf(p, Extraction(s).reports) = {}
    BY <2>4 DEF ReportsOf
  <2>6. Bind(Extraction(s)).kind = K /\ Bind(Extraction(s)).id = s.name
    BY <2>3
  <2>7. PromptRequest(p, s) = Request(p, "TOOL_INVOKE", K, s.name, s.garbled)
    BY <2>4, <2>5, <2>6 DEF PromptRequest, Request
  <2>8. \E v : CallRequest(p, c) = [Request(p, "TOOL_INVOKE", K, id, s.garbled) EXCEPT !.context = v]
    BY <1>1 DEF CallRequest, MappedRequest
  <2>9. PICK q, r : q = PromptRequest(p, s) /\ r = CallRequest(p, c)
    OBVIOUS
  <2>10. /\ q.principal = r.principal /\ q.action = r.action /\ q.garbled = r.garbled
         /\ q.resource = r.resource /\ q.roles = r.roles /\ q.subject = r.subject
         /\ q.relationships = r.relationships /\ q.context = NoValues
    <3> HIDE DEF K, id
    <3> QED
      BY <2>7, <2>8, <2>9 DEF Request, RequestAbout
  <2>11. IsReport(q) = IsReport(r)
    BY <2>10 DEF IsReport
  <2>12. Supplies(q) = {} /\ Supplies(r) = {}
    BY <1>1, <2>9, <2>10, ContextIs
  <2> QED
    BY <2>9, <2>10, <2>11, <2>12, SameAsideSameVerdict
<1>2. PromptAndCallAgree
  BY <1>1 DEF PromptAndCallAgree
<1> QED
  BY <1>2, PTL

\* Nor does it matter that `authz check` leaves out the groups of the principal and
\* the id of the resource: what it foretells of a prompt, the proxy decides
\* (main.rs:551-580).
THEOREM PreviewsForetell == Spec => []PreviewsAgree
<1>1. ASSUME NEW p \in People, NEW s \in Uttered, ~s.garbled,
             Bind(Extraction(s)).kind = Extraction(s).kind
      PROVE  LET e == Extraction(s)
             IN  /\ Decide(policies, PreviewRequest(p, s)) = Decide(policies, PromptRequest(p, s))
                 /\ Decide(policies, CheckRequest(p, e.action, e.kind, e.subject, e.reports))
                      = Decide(policies, PromptRequest(p, s))
  <2> DEFINE e == Extraction(s)
             asked == PromptRequest(p, s)
             preview == PreviewRequest(p, s)
             check == CheckRequest(p, e.action, e.kind, e.subject, e.reports)
  <2>1. /\ p = [id |-> p.id, roles |-> p.roles, groups |-> p.groups]
        /\ s.garbled = FALSE
    BY <1>1, QueriesOK DEF Identities, Prompts
  <2>2. [p EXCEPT !.groups = {}] = [id |-> p.id, roles |-> p.roles, groups |-> {}]
    BY <2>1
  <2>3. asked = RequestAbout(p, e.action, e.kind, Bind(e).id, e.subject, ReportsOf(p, e.reports), FALSE)
    BY <1>1, <2>1 DEF PromptRequest
  <2>4. preview = RequestAbout([p EXCEPT !.groups = {}], e.action, e.kind, e.id, e.subject,
                               ReportsOf(p, e.reports), FALSE)
    BY <2>1 DEF PreviewRequest
  <2>5. check = RequestAbout([p EXCEPT !.groups = {}], e.action, e.kind, NoId, e.subject,
                             ReportsOf(p, e.reports), FALSE)
    BY DEF CheckRequest
  <2>6. ASSUME NEW id
        PROVE  Decide(policies, RequestAbout([p EXCEPT !.groups = {}], e.action, e.kind, id, e.subject,
                                             ReportsOf(p, e.reports), FALSE))
                 = Decide(policies, asked)
    <3> DEFINE r == RequestAbout([p EXCEPT !.groups = {}], e.action, e.kind, id, e.subject,
                                 ReportsOf(p, e.reports), FALSE)
    <3>1. /\ r.principal = asked.principal /\ r.action = asked.action
          /\ r.garbled = asked.garbled /\ r.resource = asked.resource /\ r.roles = asked.roles
          /\ r.subject = asked.subject /\ r.relationships = asked.relationships
          /\ r.context = NoValues /\ asked.context = NoValues
      <4> HIDE DEF e
      <4> QED
        BY <2>2, <2>3 DEF RequestAbout
    <3>2. IsReport(r) = IsReport(asked)
      BY <3>1 DEF IsReport
    <3>3. Decide(policies, r) = Decide(policies, asked)
      <4> HIDE DEF r, asked
      <4>1. Supplies(r) = {} /\ Supplies(asked) = {}
        BY <3>1, ContextIs
      <4> QED
        BY <3>1, <3>2, <4>1, SameAsideSameVerdict
    <3> QED
      BY <3>3
  <2> QED
    BY <2>4, <2>5, <2>6
<1>2. PreviewsAgree
  BY <1>1 DEF PreviewsAgree
<1> QED
  BY <1>2, PTL

\* So however the same thing is asked, the verdict is the same.
THEOREM AllWaysAgree == Spec => []WaysAgree
<1>1. PromptAndRetrievalAgree /\ PromptAndCallAgree /\ PreviewsAgree => WaysAgree
  BY DEF WaysAgree
<1> QED
  BY <1>1, RetrievalAgrees, CallsAgree, PreviewsForetell, PTL

-----------------------------------------------------------------------------
\* A finite set of policies can be put into an order.
LEMMA ArrangedOrder ==
    ASSUME NEW D, IsFiniteSet(D)
    PROVE  /\ Arranged(D) \in Seq(D)
           /\ \A i \in DOMAIN Arranged(D) : Arranged(D)[i] \in D
<1> DEFINE n == Cardinality(D)
           InOrder(f) == \A p \in D : \E i \in DOMAIN f : f[i] = p
<1>1. n \in Nat /\ ExistsBijection(1..n, D)
  BY FS_CardinalityType
<1>2. PICK f \in Bijection(1..n, D) : TRUE
  BY <1>1 DEF ExistsBijection
<1>3. f \in [1..n -> D] /\ InOrder(f)
  BY <1>2 DEF Bijection, Injection, Surjection
<1>4. Arranged(D) \in [1..n -> D]
  BY <1>3 DEF Arranged
<1> QED
  BY <1>1, <1>4

\* There are finitely many different drafts of a finite directory.
LEMMA FinitelyDrafted ==
    ASSUME NEW style, NEW G \in SUBSET GroupNames
    PROVE  IsFiniteSet(Drafted(style, G))
<1> DEFINE P == {SelfProfile(g) : g \in GroupNames}
           f == [g \in GroupNames |-> SelfProfile(g)]
<1>1. f \in Surjection(GroupNames, P)
  BY DEF Surjection
<1>2. IsFiniteSet(P)
  BY <1>1, FS_Surjection, DraftsConstantsOK
<1>3. IsFiniteSet((P \cup {ExpensesProtected}) \cup {SalariesProtected})
  <2>1. IsFiniteSet(P \cup {ExpensesProtected})
    BY <1>2, FS_AddElement
  <2> QED
    BY <2>1, FS_AddElement
<1>4. Drafted(style, G) \subseteq (P \cup {ExpensesProtected}) \cup {SalariesProtected}
  BY DEF Drafted, GroupDrafts
<1> QED
  BY <1>3, <1>4, FS_Subset

\* What every draft is.
LEMMA DraftsSpelledOut ==
    ASSUME NEW g
    PROVE  /\ SelfProfile(g) = [effect |-> "allow", action |-> "READ", resource |-> "EMPLOYEE_PROFILE",
                               when_roles |-> {} \cup Spelled[g], unless_roles |-> {},
                               where_subjects |-> {} \cup {"SELF"}, first_subject |-> "SELF",
                               where_subject_groups |-> {}]
           /\ ExpensesProtected.effect = "deny"
           /\ SalariesProtected.effect = "deny"
           /\ \A a, k : AuditDraft(a, k).effect = "deny"
<1>1. \A e, a, k : Says(e, a, k) = [NewPolicy EXCEPT !.effect = e, !.action = a, !.resource = k]
  BY DEF Says, Take
<1> QED
  BY <1>1 DEF SelfProfile, ExpensesProtected, SalariesProtected, AuditDraft, Take, NewPolicy

\* A policy of any draft that permits is the one about one's own profile; whether one
\* asks for oneself no request can say but by being about oneself.
LEMMA DraftsPermitOneself ==
    ASSUME NEW style, NEW G \in SUBSET GroupNames, NEW p \in Drafted(style, G),
           Effect(p) = "permit", NEW q \in AllRequests, Satisfied(p, q)
    PROVE  /\ q.action = "READ" /\ Context(q)["resource_kind"] = "EMPLOYEE_PROFILE" /\ IsSelf(q)
           /\ \E g \in G : Spelled[g] = {} \/ Spelled[g] \cap q.roles # {}
<1>1. PICK g \in G : p \in GroupDrafts(style, g)
  BY DEF Drafted
<1>2. p.effect = "allow"
  BY DEF Effect
<1>3. p = SelfProfile(g)
  BY <1>1, <1>2, DraftsSpelledOut DEF GroupDrafts
<1>4. /\ p.action = "READ" /\ p.resource = "EMPLOYEE_PROFILE"
      /\ p.when_roles = Spelled[g] /\ p.where_subjects = {"SELF"}
  BY <1>3, DraftsSpelledOut
<1>5. /\ q.action = "READ" /\ Context(q)["resource_kind"] = "EMPLOYEE_PROFILE"
      /\ Spelled[g] # {} => Spelled[g] \cap q.roles # {}
  BY <1>4, SatisfiedNeeds
<1>6. IsSelf(q)
  <2> DEFINE t == Flag("subject_is_self")
  <2>1. BySubject(p) \in Clauses(p)
    BY <1>4 DEF Clauses, IfAny
  <2>2. Holds(BySubject(p), q)
    BY <2>1 DEF Satisfied
  <2>3. {IsSubject(s) : s \in p.where_subjects} = {t}
    BY <1>4 DEF IsSubject
  <2>4. /\ BySubject(p).tests = {t} /\ BySubject(p).negated = FALSE
        /\ BySubject(p).first \subseteq {t}
    <3>1. BySubject(p).first \subseteq BySubject(p).tests
      BY <2>1, AskedAttributes
    <3>2. BySubject(p).tests = {IsSubject(s) : s \in p.where_subjects} /\ BySubject(p).negated = FALSE
      BY DEF BySubject, AnyOf
    <3> QED
      BY <2>3, <3>1, <3>2
  <2>5. t.attr = "subject_is_self" /\ t.test = "flag" /\ t.value = TRUE
    BY DEF Flag
  <2> HIDE DEF t
  <2>6. Evaluates(t, q) /\ Passes(t, q)
    BY <2>2, <2>4 DEF Holds
  <2>7. "subject_is_self" \notin Supplies(q)
    BY <2>5, <2>6 DEF Evaluates
  <2>8. Context(q)["subject_is_self"] = TRUE
    BY <2>5, <2>6 DEF Passes
  <2>9. Computed(q)["subject_is_self"] = TRUE
    BY <2>7, <2>8, ContextIs DEF Attributes
  <2> QED
    BY <2>9 DEF Computed
<1> QED
  BY <1>5, <1>6

\* What is allowed of two texts together and not of the first is permitted by the
\* second.
LEMMA AddedText ==
    ASSUME NEW S, NEW T, NEW ps \in Seq(S), NEW text \in Seq(T), NEW q,
           Decide(ps \o text, q) = "ALLOW", Decide(ps, q) # "ALLOW"
    PROVE  \E i \in DOMAIN text : Satisfied(text[i], q) /\ Effect(text[i]) = "permit"
<1> DEFINE both == ps \o text
<1>1. \A i \in DOMAIN ps : i \in DOMAIN both /\ both[i] = ps[i]
  OBVIOUS
<1>2. Matching(both, q, "forbid") = {} /\ Matching(both, q, "permit") # {}
      /\ q.principal # "" /\ ~q.garbled
  BY DEF Decide
<1>3. Matching(ps, q, "forbid") = {}
  BY <1>1, <1>2 DEF Matching
<1>4. Matching(ps, q, "permit") = {}
  BY <1>2, <1>3 DEF Decide
<1>5. PICK i \in DOMAIN both : Satisfied(both[i], q) /\ Effect(both[i]) = "permit"
  BY <1>2 DEF Matching
<1>6. i \notin DOMAIN ps
  BY <1>1, <1>4, <1>5 DEF Matching
<1>7. i - Len(ps) \in DOMAIN text /\ both[i] = text[i - Len(ps)]
  BY <1>6
<1> QED
  BY <1>5, <1>7

\* Whatever text is in force and whatever groups the directories hold: a draft that
\* is committed lets nobody do anything more than read their own profile
\* (idp.rs:22-58, adapters.rs:360-395).
THEOREM DraftsAreHarmless == Spec => []DraftsGrantOnlySelf
<1>1. ASSUME TypeOK, NEW q \in Considered, ~Allows(q), NEW draft \in DraftTexts,
             Decide(policies \o draft.text, q) = "ALLOW"
      PROVE  /\ q.action = "READ" /\ Context(q).resource_kind = "EMPLOYEE_PROFILE" /\ IsSelf(q)
             /\ \E g \in draft.groups : Spelled[g] = {} \/ Spelled[g] \cap q.roles # {}
  <2>1. policies \in Seq(Policies) /\ q \in AllRequests /\ Decide(policies, q) # "ALLOW"
    BY <1>1, QueriesOK DEF TypeOK, Allows
  <2>2. CASE draft \in GroupTexts
    <3>1. PICK style \in {"ldap", "idp"}, G \in Snapshots :
               draft = [groups |-> G, text |-> Arranged(Drafted(style, G))]
      BY <2>2 DEF GroupTexts
    <3>2. G \in SUBSET GroupNames
      BY DraftsConstantsOK
    <3>3. draft.text \in Seq(Drafted(style, G))
          /\ \A i \in DOMAIN draft.text : draft.text[i] \in Drafted(style, G)
      BY <3>1, <3>2, FinitelyDrafted, ArrangedOrder
    <3>4. PICK i \in DOMAIN draft.text : /\ Satisfied(draft.text[i], q)
                                         /\ Effect(draft.text[i]) = "permit"
      BY <1>1, <2>1, <3>3, AddedText
    <3>5. draft.text[i] \in Drafted(style, G) /\ draft.groups = G
      BY <3>1, <3>3
    <3>6. /\ q.action = "READ" /\ Context(q)["resource_kind"] = "EMPLOYEE_PROFILE" /\ IsSelf(q)
          /\ \E g \in G : Spelled[g] = {} \/ Spelled[g] \cap q.roles # {}
      <4> DEFINE p == draft.text[i]
      <4>1. p \in Drafted(style, G) /\ Effect(p) = "permit" /\ Satisfied(p, q) /\ q \in AllRequests
        BY <2>1, <3>4, <3>5
      <4> HIDE DEF p
      <4> QED
        BY <3>2, <4>1, DraftsPermitOneself
    <3> QED
      BY <3>5, <3>6
  <2>3. CASE draft \in AuditTexts
    <3>1. PICK d \in DeniedTwice : draft.text = <<AuditDraft(d[1], d[2])>>
      BY <2>3 DEF AuditTexts
    <3>2. draft.text \in Seq({AuditDraft(d[1], d[2])})
      BY <3>1
    <3>3. PICK i \in DOMAIN draft.text : Effect(draft.text[i]) = "permit"
      BY <1>1, <2>1, <3>2, AddedText
    <3>4. draft.text[i] = AuditDraft(d[1], d[2])
      BY <3>1
    <3> QED
      BY <3>3, <3>4, DraftsSpelledOut DEF Effect
  <2> QED
    BY <1>1, <2>2, <2>3 DEF DraftTexts
<1>2. TypeOK => DraftsGrantOnlySelf
  BY <1>1 DEF DraftsGrantOnlySelf
<1> QED
  BY <1>2, TypeCorrect, PTL

-----------------------------------------------------------------------------
\* Whatever puts a principal or a subject into a group also makes the group an
\* entity.
LEMMA GroupsArePresent ==
    ASSUME NEW q, NEW d
    PROVE  GroupsPresent(q, d)
<1> SUFFICES ASSUME NEW e \in Entities(q, d), NEW g \in e.parents
             PROVE  Plain("Group", g) \in Entities(q, d)
  BY DEF GroupsPresent
<1>1. \A x : Parents(q, d, x) \subseteq {rel.to : rel \in MemberEdges(q)} \cup DOMAIN d
  BY DEF Parents, EdgesTo, MemberEdges
<1>2. e.parents \subseteq AllGroups(q, d)
  <2>1. CASE e = PrincipalEntity(q, d)
    <3>1. e.parents = Parents(q, d, q.principal) \cup q.groups
      BY <2>1 DEF PrincipalEntity
    <3> QED
      BY <1>1, <3>1 DEF AllGroups
  <2>2. CASE e \in SubjectEntities(q, d)
    <3>1. e.parents = Parents(q, d, q.subject.id) \cup q.subject.groups
      BY <2>2 DEF SubjectEntities
    <3> QED
      BY <1>1, <3>1 DEF AllGroups
  <2>3. CASE \E type, x : e = Plain(type, x)
    BY <2>3 DEF Plain
  <2> QED
    BY <2>1, <2>2, <2>3 DEF Entities, ResourceEntity
<1> QED
  BY <1>2 DEF Entities

\* The context finds a report of the principal exactly where the entity lists it.
LEMMA ReportsAreMatched ==
    ASSUME NEW q, NEW d
    PROVE  ReportsMatch(q, d)
<1> DEFINE e == PrincipalEntity(q, d)
<1>1. /\ e.direct_reports = EdgesTo(q, q.principal, "direct_reports")
      /\ e.manages = EdgesTo(q, q.principal, "manager_of")
  BY DEF PrincipalEntity
<1>2. Computed(q).subject_in_direct_reports = IsReport(q)
  BY DEF Computed
<1>3. \A k : q.subject.id \in EdgesTo(q, q.principal, k) <=>
        \E rel \in q.relationships : rel.kind = k /\ rel.from = q.principal /\ rel.to = q.subject.id
  BY DEF EdgesTo
<1> HIDE DEF e
<1> QED
  BY <1>1, <1>2, <1>3 DEF ReportsMatch, IsReport, e

\* Whatever the request and whatever the directory says, the entities given to
\* Cedar are complete and agree with the context (entities.rs:47-126, 176-199).
THEOREM EntitiesAlwaysAgree == Spec => []EntitiesAgree
<1>1. EntitiesAgree
  BY GroupsArePresent, ReportsAreMatched DEF EntitiesAgree
<1> QED
  BY <1>1, PTL

-----------------------------------------------------------------------------
(***************************************************************************)
(* From the text to the verdict.  First: what the conditions that a policy *)
(* is translated to come to.                                               *)
(***************************************************************************)
\* What the single tests ask of a request that supplies nothing.
LEMMA TestsPass ==
    ASSUME NEW q \in AllRequests, Supplies(q) = {}, NEW v
    PROVE  /\ Passes(Equals("resource_kind", v), q) <=> v = q.resource
           /\ Passes(Equals("action_name", v), q) <=> v = q.action
           /\ Passes(Contains("subject_groups", v), q) <=> v \in q.subject.groups
           /\ v \in {"SELF", "DIRECT_REPORTS"} \cup Ids =>
                (Passes(IsSubject(v), q) <=> Means(v, q))
<1>1. \A a : Equals(a, v) = [attr |-> a, test |-> "equals", value |-> v]
  BY DEF Equals
<1>2. \A a : Contains(a, v) = [attr |-> a, test |-> "contains", value |-> v]
  BY DEF Contains
<1>3. /\ Context(q)["resource_kind"] = q.resource /\ Context(q)["action_name"] = q.action
      /\ Context(q)["subject_groups"] = q.subject.groups
      /\ Context(q)["subject_is_self"] = IsSelf(q)
      /\ Context(q)["subject_in_direct_reports"] = IsReport(q)
      /\ Context(q)["subject_id"] = q.subject.id
  <2>1. \A a \in Attributes : Context(q)[a] = Computed(q)[a]
    BY ContextIs
  <2> QED
    BY <2>1 DEF Attributes, Computed
<1>4. /\ Passes(Equals("resource_kind", v), q) <=> v = q.resource
      /\ Passes(Equals("action_name", v), q) <=> v = q.action
  BY <1>1, <1>3 DEF Passes
<1>5. Passes(Contains("subject_groups", v), q) <=> v \in q.subject.groups
  BY <1>2, <1>3 DEF Passes
<1>6. ASSUME v \in {"SELF", "DIRECT_REPORTS"} \cup Ids
      PROVE  Passes(IsSubject(v), q) <=> Means(v, q)
  <2>0. /\ q.subject \in Subjects \cup {NoSubject}
        /\ \A rel \in q.relationships : rel \in Relationships
    BY DEF AllRequests
  <2>1. /\ q.subject = NoSubject => q.subject.id = ""
        /\ q.subject # NoSubject => q.subject.id \in Ids
        /\ {"SELF", "DIRECT_REPORTS", ""} \cap Ids = {}
    <3>1. q.subject = NoSubject => q.subject.id = ""
      <4>1. NoSubject.id = ""
        BY DEF NoSubject
      <4> QED
        BY <4>1
    <3>2. q.subject # NoSubject => q.subject.id \in Ids
      BY <2>0 DEF Subjects
    <3> QED
      BY <3>1, <3>2, RulesConstantsOK
  <2>2. CASE v = "SELF"
    <3>1. Passes(IsSubject(v), q) <=> IsSelf(q) = TRUE
      BY <2>2, <1>3 DEF IsSubject, Flag, Passes
    <3>2. Means(v, q) <=> q.subject # NoSubject /\ q.subject.id = q.principal
      BY <2>1, <2>2 DEF Means
    <3> QED
      BY <3>1, <3>2 DEF IsSelf
  <2>3. CASE v = "DIRECT_REPORTS"
    <3>1. Passes(IsSubject(v), q) <=> IsReport(q) = TRUE
      BY <2>3, <1>3 DEF IsSubject, Flag, Passes
    <3>2. Means(v, q) <=> q.subject # NoSubject /\ ReportsTo(q)
      BY <2>1, <2>3 DEF Means
    <3>3. ReportsTo(q) <=> \E rel \in q.relationships :
              /\ rel.kind \in {"direct_reports", "manager_of"}
              /\ rel.from = q.principal /\ rel.to = q.subject.id
      <4>1. ASSUME NEW rel \in q.relationships
            PROVE  rel = [kind |-> rel.kind, from |-> rel.from, to |-> rel.to]
        BY <2>0 DEF Relationships
      <4> QED
        BY <4>1 DEF ReportsTo
    <3> QED
      BY <3>1, <3>2, <3>3 DEF IsReport
  <2>4. CASE v \in Ids
    <3>1. Passes(IsSubject(v), q) <=> q.subject.id = v
      BY <2>1, <2>4, <1>3 DEF IsSubject, Equals, Passes
    <3> QED
      BY <2>1, <2>4, <3>1 DEF Means
  <2> QED
    BY <1>6, <2>2, <2>3, <2>4
<1> QED
  BY <1>4, <1>5, <1>6

\* A rule that is satisfied by a request that supplies nothing, spelled out.
LEMMA SatisfiedMeans ==
    ASSUME NEW p \in Partials, NEW q \in AllRequests, BringsNothing(q)
    PROVE  Satisfied(p, q) <=>
             /\ p.action = q.action /\ p.resource = q.resource
             /\ p.when_roles # {} => p.when_roles \cap q.roles # {}
             /\ p.unless_roles \cap q.roles = {}
             /\ p.where_subjects # {} => \E s \in p.where_subjects : Means(s, q)
             /\ p.where_subject_groups # {} => p.where_subject_groups \cap q.subject.groups # {}
<1> DEFINE ByKind   == AnyOf({Equals("resource_kind", p.resource)})
           ByAction == AnyOf({Equals("action_name", p.action)})
           ByRoles  == AnyOf(HasRole(p.when_roles))
           ByGroup  == AnyOf(InGroup(p.where_subject_groups))
           Not      == NoneOf(HasRole(p.unless_roles))
<1>0. Supplies(q) = {}
  BY ContextIs
<1>1. Satisfied(p, q) <=> p.action = q.action /\ \A c \in Clauses(p) : Holds(c, q)
  BY DEF Satisfied
<1>2. /\ Clauses(p) = {ByKind, ByAction} \cup IfAny(p.when_roles, ByRoles)
           \cup IfAny(p.where_subjects, BySubject(p))
           \cup IfAny(p.where_subject_groups, ByGroup) \cup IfAny(p.unless_roles, Not)
      /\ \A S, c : c \in IfAny(S, c) <=> S # {}
  BY DEF Clauses, IfAny
<1>3. (\A c \in Clauses(p) : Holds(c, q)) <=>
         /\ Holds(ByKind, q) /\ Holds(ByAction, q)
         /\ p.when_roles # {} => Holds(ByRoles, q)
         /\ p.where_subjects # {} => Holds(BySubject(p), q)
         /\ p.where_subject_groups # {} => Holds(ByGroup, q)
         /\ p.unless_roles # {} => Holds(Not, q)
  <2> HIDE DEF ByKind, ByAction, ByRoles, ByGroup, Not
  <2>1. \A S, c : (\A d \in IfAny(S, c) : Holds(d, q)) <=> (S # {} => Holds(c, q))
    BY DEF IfAny
  <2> QED
    BY <1>2, <2>1
<1>4. \A c \in Clauses(p) : \A t \in c.tests : Evaluates(t, q)
  BY <1>0, TestsEvaluate
<1>5. Holds(ByKind, q) <=> p.resource = q.resource
  <2>1. Evaluates(Equals("resource_kind", p.resource), q)
    <3>1. ByKind \in Clauses(p) /\ ByKind.tests = {Equals("resource_kind", p.resource)}
      BY <1>2 DEF AnyOf
    <3> HIDE DEF ByKind
    <3> QED
      BY <1>4, <3>1
  <2> QED
    BY <1>0, <2>1, ClausesHold, TestsPass
<1>6. Holds(ByAction, q) <=> p.action = q.action
  <2>1. Evaluates(Equals("action_name", p.action), q)
    <3>1. ByAction \in Clauses(p) /\ ByAction.tests = {Equals("action_name", p.action)}
      BY <1>2 DEF AnyOf
    <3> HIDE DEF ByAction
    <3> QED
      BY <1>4, <3>1
  <2> QED
    BY <1>0, <2>1, ClausesHold, TestsPass
<1>7. Holds(ByRoles, q) <=> p.when_roles \cap q.roles # {}
  BY RolesDecide
<1>8. Holds(Not, q) <=> p.unless_roles \cap q.roles = {}
  BY RolesDecide
<1>9. p.where_subject_groups # {} =>
         (Holds(ByGroup, q) <=> p.where_subject_groups \cap q.subject.groups # {})
  <2> SUFFICES ASSUME p.where_subject_groups # {}
               PROVE  Holds(ByGroup, q) <=> p.where_subject_groups \cap q.subject.groups # {}
    OBVIOUS
  <2>1. ByGroup \in Clauses(p) /\ ByGroup.tests = InGroup(p.where_subject_groups)
    BY <1>2 DEF AnyOf
  <2>2. Holds(ByGroup, q) <=> \E t \in InGroup(p.where_subject_groups) : Passes(t, q)
    BY <1>4, <2>1, ClausesHold
  <2>3. (\E t \in InGroup(p.where_subject_groups) : Passes(t, q))
          <=> \E v \in p.where_subject_groups : Passes(Contains("subject_groups", v), q)
    BY DEF InGroup
  <2>4. \A v : Passes(Contains("subject_groups", v), q) <=> v \in q.subject.groups
    BY <1>0, TestsPass
  <2> QED
    BY <2>2, <2>3, <2>4
<1>10. p.where_subjects # {} =>
         (Holds(BySubject(p), q) <=> \E s \in p.where_subjects : Means(s, q))
  <2> SUFFICES ASSUME p.where_subjects # {}
               PROVE  Holds(BySubject(p), q) <=> \E s \in p.where_subjects : Means(s, q)
    OBVIOUS
  <2>1. BySubject(p) \in Clauses(p)
    BY <1>2
  <2>2. /\ BySubject(p).tests = {IsSubject(s) : s \in p.where_subjects}
        /\ BySubject(p).negated = FALSE /\ BySubject(p).first \subseteq BySubject(p).tests
    BY <2>1, AskedAttributes DEF BySubject, AnyOf
  <2>3. Holds(BySubject(p), q) <=> \E t \in BySubject(p).tests : Passes(t, q)
    BY <1>4, <2>1, <2>2 DEF Holds
  <2>4. \A s \in p.where_subjects : Passes(IsSubject(s), q) <=> Means(s, q)
    BY <1>0, TestsPass DEF Partials
  <2> QED
    BY <2>2, <2>3, <2>4
<1> HIDE DEF ByKind, ByAction, ByRoles, ByGroup, Not
<1> QED
  BY <1>1, <1>3, <1>5, <1>6, <1>7, <1>8, <1>9, <1>10

-----------------------------------------------------------------------------
(***************************************************************************)
(* Second: what the parser makes of the lines.  The k-th rule of a text    *)
(* becomes its k-th policy, the one under construction being the last.     *)
(***************************************************************************)
Built    == policies \o current
Place(i) == Cardinality({h \in Headers : h <= i})

\* The policy says what the lines of the rule say so far.
Agrees(i, p) ==
    /\ p.when_roles = RolesSaid(i, "when") /\ p.unless_roles = RolesSaid(i, "unless")
    /\ p.where_subjects = SubjectsSaid(i) /\ p.where_subject_groups = GroupsSaid(i)
    /\ \/ p.effect = "none" /\ EffectLines(i) = {}
       \/ \E j \in EffectLines(i) :
             /\ \A k \in EffectLines(i) : k <= j
             /\ p.effect # "none" /\ p.effect = read[j].effect
             /\ p.action = read[j].action /\ p.resource = read[j].resource

RulesBuilt ==
    /\ Cardinality(Headers) = Len(Built)
    /\ \A i \in Headers : Place(i) \in 1..Len(Built) /\ Agrees(i, Built[Place(i)])
    /\ \A k \in 1..Len(Built) : \E i \in Headers : Place(i) = k

TextInv ==
    /\ status # "refused" =>
          /\ \A j \in DOMAIN read : read[j] # Bad
          /\ read # <<>> => 1 \in Headers
          /\ status = "reading" /\ current = <<>> => read = <<>>
          /\ status # "reading" => current = <<>>
          /\ RulesBuilt
    /\ status = "refused" => ~WellFormed

AllLines == Statements \cup {Header, Bad}

\* What is known of the kinds of lines.
LEMMA LineKinds ==
    /\ Header.kind = "policy" /\ Bad.kind = "bad" /\ Header # Bad
    /\ \A line \in Statements : /\ line.kind \in {"when", "unless", "effect", "where", "or"}
                                /\ line # Header /\ line # Bad
<1>1. Header.kind = "policy" /\ Bad.kind = "bad"
  BY DEF Header, Bad
<1>2. \A line \in Statements : line.kind \in {"when", "unless", "effect", "where", "or"}
  BY DEF Statements
<1> QED
  BY <1>1, <1>2

\* One more line: what was read stays, and a header is added or not.
LEMMA ReadOn ==
    ASSUME read \in Seq(AllLines), NEW line \in AllLines, read' = Append(read, line)
    PROVE  /\ Len(read) \in Nat /\ Len(read') = Len(read) + 1
           /\ \A j \in 1..Len(read) : read'[j] = read[j]
           /\ read'[Len(read) + 1] = line
           /\ Headers \subseteq 1..Len(read)
           /\ line = Header => Headers' = Headers \cup {Len(read) + 1}
           /\ line # Header => Headers' = Headers
<1>1. /\ Len(read) \in Nat /\ Len(read') = Len(read) + 1
      /\ \A j \in 1..Len(read) : read'[j] = read[j]
      /\ read'[Len(read) + 1] = line
      /\ DOMAIN read = 1..Len(read) /\ DOMAIN read' = 1..Len(read) + 1
  OBVIOUS
<1>2. Headers = {i \in 1..Len(read) : read[i] = Header}
  BY <1>1 DEF Headers
<1>3. Headers' = {i \in 1..Len(read) + 1 : read'[i] = Header}
  BY <1>1 DEF Headers
<1>4. Headers' = {i \in 1..Len(read) : read[i] = Header} \cup
                   {i \in {Len(read) + 1} : line = Header}
  BY <1>1, <1>3
<1> QED
  BY <1>1, <1>2, <1>4

\* It belongs to the last rule, unless it starts a new one.
LEMMA BlocksGrow ==
    ASSUME read \in Seq(AllLines), NEW line \in AllLines, read' = Append(read, line),
           NEW i \in Headers
    PROVE  /\ Block(i) \subseteq 1..Len(read)
           /\ line = Header \/ (\E h \in Headers : h > i) => Block(i)' = Block(i)
           /\ line # Header /\ (\A h \in Headers : h <= i) =>
                 Block(i)' = Block(i) \cup {Len(read) + 1}
<1> DEFINE n == Len(read)
<1>1. /\ n \in Nat /\ Len(read') = n + 1 /\ i \in 1..n /\ Headers \subseteq 1..n
      /\ line = Header => Headers' = Headers \cup {n + 1}
      /\ line # Header => Headers' = Headers
  BY ReadOn
<1>2. Block(i) = {j \in i+1..n : \A k \in i+1..j : k \notin Headers}
  BY DEF Block
<1>3. Block(i)' = {j \in i+1..n+1 : \A k \in i+1..j : k \notin Headers'}
  BY <1>1 DEF Block
<1> HIDE DEF n
<1>4. \A j \in i+1..n : j \in Block(i)' <=> j \in Block(i)
  BY <1>1, <1>2, <1>3
<1>5. n + 1 \in Block(i)' <=> \A k \in i+1..n+1 : k \notin Headers'
  BY <1>1, <1>3
<1>6. Block(i) \subseteq i+1..n /\ Block(i)' \subseteq (i+1..n) \cup {n + 1}
  BY <1>1, <1>2, <1>3
<1>7. line = Header => n + 1 \notin Block(i)'
  BY <1>1, <1>5
<1>8. (\E h \in Headers : h > i) => n + 1 \notin Block(i)'
  BY <1>1, <1>5
<1>9. line # Header /\ (\A h \in Headers : h <= i) => n + 1 \in Block(i)'
  BY <1>1, <1>5
<1>10. n + 1 \notin Block(i)' => Block(i)' = Block(i)
  BY <1>1, <1>4, <1>6
<1>11. n + 1 \in Block(i)' => Block(i)' = Block(i) \cup {n + 1}
  BY <1>1, <1>4, <1>6
<1>12. Block(i) \subseteq 1..n
  BY <1>1, <1>6
<1>13. line = Header \/ (\E h \in Headers : h > i) => Block(i)' = Block(i)
  BY <1>7, <1>8, <1>10
<1>14. line # Header /\ (\A h \in Headers : h <= i) => Block(i)' = Block(i) \cup {n + 1}
  BY <1>9, <1>11
<1> QED
  BY <1>12, <1>13, <1>14 DEF n

\* A rule without a new line says what it said.
LEMMA SaysTheSame ==
    ASSUME NEW i, NEW n, Block(i) \subseteq 1..n, \A j \in 1..n : read'[j] = read[j],
           Block(i)' = Block(i), NEW p, Agrees(i, p)
    PROVE  Agrees(i, p)'
<1>1. \A K : Said(i, K)' = Said(i, K)
  BY DEF Said
<1>2. EffectLines(i)' = EffectLines(i) /\ EffectLines(i) \subseteq 1..n
  BY DEF EffectLines
<1>3. /\ RolesSaid(i, "when")' = RolesSaid(i, "when")
      /\ RolesSaid(i, "unless")' = RolesSaid(i, "unless")
      /\ SubjectsSaid(i)' = SubjectsSaid(i) /\ GroupsSaid(i)' = GroupsSaid(i)
  BY <1>1 DEF RolesSaid, SubjectsSaid, GroupsSaid
<1> QED
  BY <1>2, <1>3 DEF Agrees

\* What one statement adds to a policy, field by field.
LEMMA TakeAdds ==
    ASSUME NEW p \in Partials, NEW line \in Statements, NEW t, t = Take(p, line)
    PROVE  /\ t.when_roles = p.when_roles \cup (IF line.kind = "when" THEN line.roles ELSE {})
           /\ t.unless_roles = p.unless_roles \cup (IF line.kind = "unless" THEN line.roles ELSE {})
           /\ t.where_subjects = p.where_subjects \cup
                (IF line.kind \in {"where", "or"} /\ "subject" \in DOMAIN line
                 THEN {line.subject} ELSE {})
           /\ t.where_subject_groups = p.where_subject_groups \cup
                (IF line.kind \in {"where", "or"} /\ "group" \in DOMAIN line
                 THEN {line.group} ELSE {})
           /\ line.kind = "effect" => /\ t.effect = line.effect /\ t.action = line.action
                                      /\ t.resource = line.resource /\ line.effect # "none"
           /\ line.kind # "effect" => /\ t.effect = p.effect /\ t.action = p.action
                                      /\ t.resource = p.resource
<1>1. \E A, B : p \in [effect : {"none", "allow", "deny", "review"}, action : A, resource : B,
                       when_roles : SUBSET Roles, unless_roles : SUBSET Roles,
                       where_subjects : SUBSET ({"SELF", "DIRECT_REPORTS"} \cup Ids),
                       first_subject : {"", "SELF", "DIRECT_REPORTS"} \cup Ids,
                       where_subject_groups : SUBSET Groups]
  BY Zenon DEF Partials
<1>2. /\ line.kind \in {"when", "unless", "effect", "where", "or"}
      /\ line.kind = "effect" => line.effect # "none"
      /\ line.kind \in {"where", "or"} => ("subject" \in DOMAIN line <=> "group" \notin DOMAIN line)
  BY DEF Statements
<1> QED
  BY <1>1, <1>2 DEF Take

\* A rule with a new line says what it said and what the line says.
LEMMA SaysMore ==
    ASSUME NEW i, NEW n \in Nat, Block(i) \subseteq 1..n, \A j \in 1..n : read'[j] = read[j],
           Block(i)' = Block(i) \cup {n + 1}, NEW line \in Statements, read'[n + 1] = line,
           NEW p \in Partials, Agrees(i, p)
    PROVE  Agrees(i, Take(p, line))'
<1>1. \A K : Said(i, K)' = Said(i, K) \cup (IF line.kind \in K THEN {line} ELSE {})
  BY DEF Said
<1>2. EffectLines(i)' = EffectLines(i) \cup (IF line.kind = "effect" THEN {n + 1} ELSE {})
  BY DEF EffectLines
<1>3. EffectLines(i) \subseteq 1..n
  BY DEF EffectLines
<1>4. \A k : RolesSaid(i, k)' = RolesSaid(i, k) \cup (IF line.kind = k THEN line.roles ELSE {})
  BY <1>1 DEF RolesSaid
<1>5. SubjectsSaid(i)' = SubjectsSaid(i) \cup
        (IF line.kind \in {"where", "or"} /\ "subject" \in DOMAIN line THEN {line.subject} ELSE {})
  BY <1>1 DEF SubjectsSaid
<1>6. GroupsSaid(i)' = GroupsSaid(i) \cup
        (IF line.kind \in {"where", "or"} /\ "group" \in DOMAIN line THEN {line.group} ELSE {})
  BY <1>1 DEF GroupsSaid
<1>7. PICK t : t = Take(p, line)
  OBVIOUS
<1>8. /\ t.when_roles = p.when_roles \cup (IF line.kind = "when" THEN line.roles ELSE {})
      /\ t.unless_roles = p.unless_roles \cup (IF line.kind = "unless" THEN line.roles ELSE {})
      /\ t.where_subjects = p.where_subjects \cup
           (IF line.kind \in {"where", "or"} /\ "subject" \in DOMAIN line THEN {line.subject} ELSE {})
      /\ t.where_subject_groups = p.where_subject_groups \cup
           (IF line.kind \in {"where", "or"} /\ "group" \in DOMAIN line THEN {line.group} ELSE {})
  BY <1>7, TakeAdds
<1>9. /\ line.kind = "effect" => /\ t.effect = line.effect /\ t.action = line.action
                                 /\ t.resource = line.resource /\ line.effect # "none"
      /\ line.kind # "effect" => /\ t.effect = p.effect /\ t.action = p.action
                                 /\ t.resource = p.resource
  BY <1>7, TakeAdds
<1>10. /\ p.when_roles = RolesSaid(i, "when") /\ p.unless_roles = RolesSaid(i, "unless")
       /\ p.where_subjects = SubjectsSaid(i) /\ p.where_subject_groups = GroupsSaid(i)
  BY DEF Agrees
<1>11. /\ t.when_roles = RolesSaid(i, "when")' /\ t.unless_roles = RolesSaid(i, "unless")'
       /\ t.where_subjects = SubjectsSaid(i)' /\ t.where_subject_groups = GroupsSaid(i)'
  BY <1>4, <1>5, <1>6, <1>8, <1>10
<1>12. \/ t.effect = "none" /\ EffectLines(i)' = {}
       \/ \E j \in EffectLines(i)' :
             /\ \A k \in EffectLines(i)' : k <= j
             /\ t.effect # "none" /\ t.effect = read'[j].effect
             /\ t.action = read'[j].action /\ t.resource = read'[j].resource
  <2>1. CASE line.kind = "effect"
    <3>1. n + 1 \in EffectLines(i)' /\ \A k \in EffectLines(i)' : k <= n + 1
      BY <1>2, <1>3, <2>1
    <3>2. /\ t.effect # "none" /\ t.effect = read'[n + 1].effect
          /\ t.action = read'[n + 1].action /\ t.resource = read'[n + 1].resource
      BY <1>9, <2>1
    <3> QED
      BY <3>1, <3>2
  <2>2. CASE line.kind # "effect"
    <3>1. EffectLines(i)' = EffectLines(i)
      BY <1>2, <2>2
    <3>2. \/ p.effect = "none" /\ EffectLines(i) = {}
          \/ \E j \in EffectLines(i) :
                /\ \A k \in EffectLines(i) : k <= j
                /\ p.effect # "none" /\ p.effect = read[j].effect
                /\ p.action = read[j].action /\ p.resource = read[j].resource
      BY DEF Agrees
    <3>3. CASE p.effect = "none" /\ EffectLines(i) = {}
      BY <1>9, <2>2, <3>1, <3>3
    <3>4. ASSUME NEW j \in EffectLines(i), \A k \in EffectLines(i) : k <= j,
                 p.effect # "none" /\ p.effect = read[j].effect,
                 p.action = read[j].action /\ p.resource = read[j].resource
          PROVE  /\ j \in EffectLines(i)' /\ \A k \in EffectLines(i)' : k <= j
                 /\ t.effect # "none" /\ t.effect = read'[j].effect
                 /\ t.action = read'[j].action /\ t.resource = read'[j].resource
      <4>1. read'[j] = read[j]
        BY <1>3
      <4> QED
        BY <1>9, <2>2, <3>1, <3>4, <4>1
    <3> QED
      BY <3>2, <3>3, <3>4
  <2> QED
    BY <2>1, <2>2
<1>13. Agrees(i, t)'
  BY <1>11, <1>12 DEF Agrees
<1> QED
  BY <1>7, <1>13

\* How many members of a set of numbers come up to one of them.
LEMMA Placing ==
    ASSUME NEW n \in Nat, NEW H \in SUBSET (1..n)
    PROVE  /\ IsFiniteSet(H) /\ Cardinality(H) \in Nat
           /\ \A i \in H : Cardinality({h \in H : h <= i}) \in 1..Cardinality(H)
           /\ \A i, j \in H : i < j =>
                 Cardinality({h \in H : h <= i}) < Cardinality({h \in H : h <= j})
           /\ \A i \in H : Cardinality({h \in H : h <= i}) = Cardinality(H)
                             <=> \A h \in H : h <= i
<1>1. IsFiniteSet(1..n)
  BY FS_Interval
<1>2. \A S \in SUBSET (1..n) : IsFiniteSet(S) /\ Cardinality(S) \in Nat
  BY <1>1, FS_Subset, FS_CardinalityType
<1>3. ASSUME NEW S \in SUBSET (1..n), NEW R \in SUBSET S
      PROVE  Cardinality(R) <= Cardinality(S) /\ (Cardinality(R) = Cardinality(S) => R = S)
  BY <1>2, FS_Subset
<1>4. \A i : {h \in H : h <= i} \in SUBSET H /\ {h \in H : h <= i} \in SUBSET (1..n)
  OBVIOUS
<1>5. ASSUME NEW i \in H
      PROVE  Cardinality({h \in H : h <= i}) \in 1..Cardinality(H)
  <2>1. {h \in H : h <= i} # {}
    OBVIOUS
  <2>2. Cardinality({h \in H : h <= i}) # 0
    BY <1>2, <1>4, <2>1, FS_EmptySet
  <2> QED
    BY <1>2, <1>3, <1>4, <2>2
<1>6. ASSUME NEW i \in H, NEW j \in H, i < j
      PROVE  Cardinality({h \in H : h <= i}) < Cardinality({h \in H : h <= j})
  <2>1. {h \in H : h <= i} \in SUBSET {h \in H : h <= j}
    <3>1. i \in Nat /\ j \in Nat /\ \A h \in H : h \in Nat
      OBVIOUS
    <3>2. \A h \in H : h <= i => h <= j
      BY <1>6, <3>1
    <3> QED
      BY <3>2
  <2>2. {h \in H : h <= i} # {h \in H : h <= j}
    BY <1>6
  <2> QED
    BY <1>2, <1>3, <1>4, <2>1, <2>2
<1>7. ASSUME NEW i \in H
      PROVE  Cardinality({h \in H : h <= i}) = Cardinality(H) <=> \A h \in H : h <= i
  <2>1. {h \in H : h <= i} = H <=> \A h \in H : h <= i
    OBVIOUS
  <2> QED
    BY <1>3, <1>4, <2>1
<1> QED
  BY <1>2, <1>5, <1>6, <1>7

\* Finished policies and the one under construction, one by one.
LEMMA Joined ==
    ASSUME NEW ps \in Seq(Policies), NEW c \in Seq(Partials), Len(c) <= 1
    PROVE  /\ ps \o c \in Seq(Partials)
           /\ Len(ps) \in Nat /\ Len(ps \o c) = Len(ps) + Len(c)
           /\ \A k \in 1..Len(ps) : (ps \o c)[k] = ps[k]
           /\ c = <<>> => ps \o c = ps
           /\ c # <<>> => /\ Len(c) = 1 /\ c[1] \in Partials
                          /\ (ps \o c)[Len(ps) + 1] = c[1]
<1>1. Policies \subseteq Partials
  BY DEF Policies
<1>2. ps \in Seq(Partials)
  BY <1>1
<1>3. /\ ps \o c \in Seq(Partials) /\ Len(ps) \in Nat
      /\ Len(ps \o c) = Len(ps) + Len(c)
      /\ \A k \in 1..Len(ps) : (ps \o c)[k] = ps[k]
  BY <1>2
<1>4. c = <<>> => ps \o c = ps
  BY <1>2
<1>5. ASSUME c # <<>>
      PROVE  Len(c) = 1 /\ c[1] \in Partials /\ (ps \o c)[Len(ps) + 1] = c[1]
  <2>1. c \in Seq(Partials) /\ Len(c) \in Nat /\ Len(c) <= 1
    OBVIOUS
  <2>2. Len(c) = 1
    <3> DEFINE l == Len(c)
    <3>1. l # 0
      BY <1>5
    <3>2. l \in Nat /\ l <= 1
      BY <2>1
    <3> HIDE DEF l
    <3>3. l = 1
      BY <3>1, <3>2
    <3> QED
      BY <3>3 DEF l
  <2>3. c[1] \in Partials
    <3>1. 1 \in 1..Len(c) /\ \A k \in 1..Len(c) : c[k] \in Partials
      BY <2>1, <2>2, SMTT(20)
    <3> QED
      BY <3>1
  <2>4. (ps \o c)[Len(ps) + 1] = c[1]
    <3>1. PICK m \in Nat : m = Len(ps)
      BY <1>2
    <3> DEFINE d == ps \o c
    <3>2. \A i \in 1..m + 1 : d[i] = IF i <= m THEN ps[i] ELSE c[i - m]
      <4>1. \A i \in 1..Len(ps) + Len(c) :
               (ps \o c)[i] = IF i <= Len(ps) THEN ps[i] ELSE c[i - Len(ps)]
        BY <1>2, <2>1, ConcatProperties
      <4> QED
        BY <2>2, <3>1, <4>1
    <3>3. m + 1 \in 1..m + 1 /\ ~(m + 1 <= m) /\ m + 1 - m = 1
      OBVIOUS
    <3> HIDE DEF d
    <3>4. d[m + 1] = c[1]
      BY <3>2, <3>3
    <3> QED
      BY <3>1, <3>4 DEF d
  <2> QED
    BY <2>2, <2>3, <2>4
<1> QED
  BY <1>3, <1>4, <1>5

\* The policies read so far.
LEMMA BuiltIs ==
    ASSUME TypeOK
    PROVE  /\ Built \in Seq(Partials)
           /\ Len(policies) \in Nat /\ Len(Built) = Len(policies) + Len(current)
           /\ \A k \in 1..Len(policies) : Built[k] = policies[k]
           /\ current = <<>> => Built = policies
           /\ current # <<>> => /\ Len(current) = 1 /\ current[1] \in Partials
                                /\ Built[Len(policies) + 1] = current[1]
BY Joined DEF TypeOK, Built

\* A new rule says nothing yet, and it comes last.
LEMMA ANewRule ==
    ASSUME read \in Seq(AllLines), read' = Append(read, Header), RulesBuilt,
           Built \in Seq(Partials), Built' \in Seq(Partials), Len(Built') = Len(Built) + 1,
           \A k \in 1..Len(Built) : Built'[k] = Built[k], Built'[Len(Built) + 1] = NewPolicy
    PROVE  RulesBuilt'
<1>1. PICK n \in Nat : n = Len(read)
  OBVIOUS
<1>2. PICK m \in Nat : m = Len(Built)
  OBVIOUS
<1>3. Header \in AllLines
  BY DEF AllLines
<1>4. /\ Headers \subseteq 1..n /\ Headers' = Headers \cup {n + 1} /\ Len(read') = n + 1
      /\ \A j \in 1..n : read'[j] = read[j]
  BY <1>1, <1>3, ReadOn
<1>5. /\ Cardinality(Headers) = m
      /\ \A i \in Headers : Place(i) \in 1..m /\ Agrees(i, Built[Place(i)])
      /\ \A k \in 1..m : \E i \in Headers : Place(i) = k
  BY <1>2 DEF RulesBuilt
<1>6. Len(Built') = m + 1 /\ (\A k \in 1..m : Built'[k] = Built[k]) /\ Built'[m + 1] = NewPolicy
  BY <1>2
<1>7. Cardinality(Headers') = m + 1
  <2>1. IsFiniteSet(Headers) /\ n + 1 \notin Headers
    <3>1. Headers \in SUBSET (1..n) /\ n + 1 \notin 1..n
      BY <1>4
    <3>2. IsFiniteSet(Headers)
      BY <3>1, Placing
    <3> QED
      BY <3>1, <3>2
  <2> QED
    BY <1>2, <1>4, <1>5, <2>1, FS_AddElement
<1>8. \A i \in Headers : Place(i)' = Place(i)
  <2>1. \A i \in Headers : {h \in Headers' : h <= i} = {h \in Headers : h <= i}
    BY <1>4
  <2> QED
    BY <2>1 DEF Place
<1>9. Place(n + 1)' = m + 1
  <2>1. {h \in Headers' : h <= n + 1} = Headers'
    <3>1. \A h \in (1..n) \cup {n + 1} : h <= n + 1
      OBVIOUS
    <3>2. Headers' \subseteq (1..n) \cup {n + 1}
      BY <1>4
    <3> QED
      BY <3>1, <3>2
  <2> QED
    BY <1>7, <2>1 DEF Place
<1>10. ASSUME NEW i \in Headers
       PROVE  Agrees(i, Built[Place(i)])'
  <2>1. Block(i) \subseteq 1..n /\ Block(i)' = Block(i)
    BY <1>1, <1>3, BlocksGrow
  <2>2. Agrees(i, Built[Place(i)])
    BY <1>5
  <2>3. PICK p : p = Built[Place(i)]
    OBVIOUS
  <2>4. Agrees(i, p)
    BY <2>2, <2>3
  <2>5. Agrees(i, p)'
    BY <1>4, <2>1, <2>4, SaysTheSame
  <2>6. Built'[Place(i)'] = p
    BY <1>5, <1>6, <1>8, <2>3
  <2> QED
    BY <2>5, <2>6
<1>11. Agrees(n + 1, NewPolicy)'
  <2>1. Block(n + 1)' = {}
    BY <1>4 DEF Block
  <2>2. /\ \A K : Said(n + 1, K)' = {}
        /\ EffectLines(n + 1)' = {}
    BY <2>1 DEF Said, EffectLines
  <2>3. /\ RolesSaid(n + 1, "when")' = {} /\ RolesSaid(n + 1, "unless")' = {}
        /\ SubjectsSaid(n + 1)' = {} /\ GroupsSaid(n + 1)' = {}
    BY <2>2 DEF RolesSaid, SubjectsSaid, GroupsSaid
  <2>4. /\ NewPolicy.when_roles = {} /\ NewPolicy.unless_roles = {} /\ NewPolicy.effect = "none"
        /\ NewPolicy.where_subjects = {} /\ NewPolicy.where_subject_groups = {}
    BY Zenon DEF NewPolicy
  <2> QED
    BY <2>2, <2>3, <2>4 DEF Agrees
<1>12. Agrees(n + 1, Built[Place(n + 1)])'
  BY <1>6, <1>9, <1>11
<1>13. \A i \in Headers' : (Place(i) \in 1..Len(Built) /\ Agrees(i, Built[Place(i)]))'
  BY <1>4, <1>5, <1>6, <1>8, <1>9, <1>10, <1>12
<1>14. \A k \in 1..m + 1 : \E i \in Headers' : Place(i)' = k
  BY <1>4, <1>5, <1>8, <1>9
<1> QED
  BY <1>6, <1>7, <1>13, <1>14 DEF RulesBuilt

\* A statement is one more of the last rule, and of no other.
LEMMA MoreOfARule ==
    ASSUME read \in Seq(AllLines), NEW line \in Statements, read' = Append(read, line), RulesBuilt,
           Built \in Seq(Partials), NEW m \in Nat, Len(Built) = m + 1, Len(Built') = m + 1,
           \A k \in 1..m : Built'[k] = Built[k], Built'[m + 1] = Take(Built[m + 1], line)
    PROVE  RulesBuilt'
<1>1. PICK n \in Nat : n = Len(read)
  OBVIOUS
<1>2. line \in AllLines /\ line # Header
  BY LineKinds DEF AllLines
<1>3. /\ Headers \subseteq 1..n /\ Headers' = Headers /\ Len(read') = n + 1
      /\ read'[n + 1] = line /\ \A j \in 1..n : read'[j] = read[j]
  BY <1>1, <1>2, ReadOn
<1>4. /\ Cardinality(Headers) = m + 1
      /\ \A i \in Headers : Place(i) \in 1..m + 1 /\ Agrees(i, Built[Place(i)])
      /\ \A k \in 1..m + 1 : \E i \in Headers : Place(i) = k
  BY DEF RulesBuilt
<1>5. \A i : Place(i)' = Place(i)
  BY <1>3 DEF Place
<1>6. ASSUME NEW i \in Headers
      PROVE  Agrees(i, Built[Place(i)])'
  <2>1. Headers \in SUBSET (1..n)
    BY <1>3
  <2>2. Place(i) = m + 1 <=> \A h \in Headers : h <= i
    BY <1>4, <2>1, Placing DEF Place
  <2>3. PICK p \in Partials : p = Built[Place(i)]
    <3>1. Place(i) \in 1..Len(Built)
      BY <1>4
    <3> QED
      BY <3>1
  <2>4. Agrees(i, p)
    BY <1>4, <2>3
  <2>5. Block(i) \subseteq 1..n
    BY <1>1, <1>2, BlocksGrow
  <2>6. CASE Place(i) = m + 1
    <3>1. Block(i)' = Block(i) \cup {n + 1}
      BY <1>1, <1>2, <2>2, <2>6, BlocksGrow
    <3>2. Agrees(i, Take(p, line))'
      BY <1>3, <2>4, <2>5, <3>1, SaysMore
    <3>3. Built'[Place(i)'] = Take(p, line)
      BY <1>5, <2>3, <2>6
    <3> QED
      BY <3>2, <3>3
  <2>7. CASE Place(i) # m + 1
    <3>1. \E h \in Headers : h > i
      <4>1. i \in Nat /\ \A h \in Headers : h \in Nat
        BY <1>3
      <4> QED
        BY <2>2, <2>7, <4>1
    <3>2. Block(i)' = Block(i)
      BY <1>1, <1>2, <3>1, BlocksGrow
    <3>3. Agrees(i, p)'
      BY <1>3, <2>4, <2>5, <3>2, SaysTheSame
    <3>4. Place(i) \in 1..m
      BY <1>4, <2>7
    <3>5. Built'[Place(i)'] = p
      BY <1>5, <2>3, <3>4
    <3> QED
      BY <3>3, <3>5
  <2> QED
    BY <2>6, <2>7
<1> QED
  BY <1>3, <1>4, <1>5, <1>6 DEF RulesBuilt

\* Nothing is read: the rules are what they were.
LEMMA RulesStay ==
    ASSUME read' = read, Built' = Built, RulesBuilt
    PROVE  RulesBuilt'
<1>1. Headers' = Headers
  BY DEF Headers
<1>2. \A i : Place(i)' = Place(i)
  BY <1>1 DEF Place
<1>3. \A i : Block(i)' = Block(i)
  BY <1>1 DEF Block
<1>4. /\ \A i, K : Said(i, K)' = Said(i, K)
      /\ \A i : EffectLines(i)' = EffectLines(i)
  BY <1>3 DEF Said, EffectLines
<1>5. /\ \A i, k : RolesSaid(i, k)' = RolesSaid(i, k)
      /\ \A i : SubjectsSaid(i)' = SubjectsSaid(i) /\ GroupsSaid(i)' = GroupsSaid(i)
  BY <1>4 DEF RolesSaid, SubjectsSaid, GroupsSaid
<1>6. ASSUME NEW i, NEW p, Agrees(i, p)
      PROVE  Agrees(i, p)'
  BY <1>4, <1>5, <1>6 DEF Agrees
<1>7. \A i \in Headers : Agrees(i, Built[Place(i)])'
  <2> TAKE i \in Headers
  <2>1. PICK p : p = Built[Place(i)]
    OBVIOUS
  <2>2. Agrees(i, p)
    BY <2>1 DEF RulesBuilt
  <2>3. Agrees(i, p)'
    BY <1>6, <2>2
  <2>4. Built'[Place(i)'] = p
    BY <1>2, <2>1
  <2> QED
    BY <2>3, <2>4
<1> QED
  BY <1>1, <1>2, <1>7 DEF RulesBuilt

\* The effect a policy has is the one said last.
LEMMA EffectIsSaid ==
    ASSUME NEW i, EffectLines(i) \subseteq Nat, NEW p, Agrees(i, p), p.effect # "none"
    PROVE  /\ EffectLines(i) # {}
           /\ p.effect = EffectSaid(i).effect
           /\ p.action = EffectSaid(i).action /\ p.resource = EffectSaid(i).resource
<1>1. PICK j \in EffectLines(i) :
         /\ \A k \in EffectLines(i) : k <= j
         /\ p.effect = read[j].effect
         /\ p.action = read[j].action /\ p.resource = read[j].resource
  BY DEF Agrees
<1> DEFINE Last(l) == \A k \in EffectLines(i) : k <= l
<1>2. (CHOOSE l \in EffectLines(i) : Last(l)) = j
  <2>1. \A l \in EffectLines(i) : Last(l) => l = j
    BY <1>1
  <2>2. j \in EffectLines(i) /\ Last(j)
    BY <1>1
  <2> HIDE DEF Last
  <2> QED
    BY <2>1, <2>2
<1>3. EffectSaid(i) = read[j]
  BY <1>2 DEF EffectSaid
<1> QED
  BY <1>1, <1>3

\* What is known of the lines of a rule and of their number.
LEMMA LinesOfRules ==
    ASSUME read \in Seq(AllLines)
    PROVE  /\ Len(read) \in Nat /\ Headers \subseteq 1..Len(read)
           /\ \A i \in Headers : EffectLines(i) \subseteq Nat
<1>1. Len(read) \in Nat /\ Headers \subseteq 1..Len(read)
  BY DEF Headers
<1>2. \A i \in 1..Len(read) : i+1..Len(read) \subseteq Nat
  BY <1>1
<1> QED
  BY <1>1, <1>2 DEF EffectLines, Block

\* A rule that is not finished is the last one, and lacks its effect.
LEMMA TheUnfinished ==
    ASSUME TypeOK, RulesBuilt, ~Finished
    PROVE  \E i \in Headers : EffectLines(i) = {}
<1>1. current # <<>> /\ current[1].effect = "none"
  BY DEF Finished
<1>2. /\ Len(policies) \in Nat /\ Len(Built) = Len(policies) + 1
      /\ Built[Len(policies) + 1] = current[1]
  BY <1>1, BuiltIs
<1>3. PICK i \in Headers : Place(i) = Len(policies) + 1
  BY <1>2 DEF RulesBuilt
<1>4. Agrees(i, current[1])
  BY <1>2, <1>3 DEF RulesBuilt
<1> QED
  BY <1>1, <1>4 DEF Agrees

\* Unless more is read, a text stays what it was.
LEMMA WellFormedStays ==
    ASSUME read' = read
    PROVE  WellFormed' <=> WellFormed
BY DEF WellFormed, Headers, EffectLines, EffectSaid, SubjectsSaid, Said, Block

\* What a validator refuses is not well formed, and what it approves is.
LEMMA ValidIsWellFormed ==
    ASSUME TypeOK, RulesBuilt, current = <<>>, \A j \in DOMAIN read : read[j] # Bad,
           read # <<>> => 1 \in Headers
    PROVE  Valid(policies) <=> WellFormed
<1>1. Built = policies /\ policies \in Seq(Policies)
  BY BuiltIs DEF TypeOK
<1>2. /\ Cardinality(Headers) = Len(policies)
      /\ \A i \in Headers : Place(i) \in 1..Len(policies) /\ Agrees(i, policies[Place(i)])
      /\ \A k \in 1..Len(policies) : \E i \in Headers : Place(i) = k
  BY <1>1 DEF RulesBuilt
<1>3. read \in Seq(AllLines)
  BY DEF TypeOK, AllLines
<1>4. \A i \in Headers :
         /\ EffectLines(i) # {}
         /\ policies[Place(i)].action = EffectSaid(i).action
         /\ policies[Place(i)].where_subjects = SubjectsSaid(i)
  <2> TAKE i \in Headers
  <2>1. policies[Place(i)] \in Policies
    BY <1>1, <1>2
  <2>2. policies[Place(i)].effect # "none"
    BY <2>1 DEF Policies
  <2>3. EffectLines(i) \subseteq Nat
    BY <1>3, LinesOfRules
  <2>4. Agrees(i, policies[Place(i)])
    BY <1>2
  <2> QED
    BY <2>2, <2>3, <2>4, EffectIsSaid DEF Agrees
<1>5. policies # <<>> <=> read # <<>>
  <2>1. Headers # {} <=> read # <<>>
    <3>1. read = <<>> => Headers = {}
      BY <1>3 DEF Headers
    <3> QED
      BY <3>1
  <2>2. IsFiniteSet(Headers)
    <3>1. Len(read) \in Nat /\ Headers \in SUBSET (1..Len(read))
      BY <1>3, LinesOfRules
    <3> QED
      BY <3>1, Placing
  <2>3. Cardinality(Headers) = 0 <=> Headers = {}
    BY <2>2, FS_EmptySet
  <2>4. policies = <<>> <=> Len(policies) = 0
    BY <1>1
  <2> QED
    BY <1>2, <2>1, <2>3, <2>4
<1>6. (\A k \in DOMAIN policies : /\ policies[k].action \in SchemaActions
                                  /\ policies[k].where_subjects \cap Ids = {})
        <=> (\A i \in Headers : /\ EffectSaid(i).action \in SchemaActions
                                /\ SubjectsSaid(i) \cap Ids = {})
  <2>1. DOMAIN policies = 1..Len(policies)
    BY <1>1
  <2> QED
    BY <1>2, <1>4, <2>1
<1> QED
  BY <1>4, <1>5, <1>6 DEF Valid, WellFormed

\* What has been built of a text is kept in step with its lines.
LEMMA TextKept == TypeOK /\ TextInv /\ [Next]_vars => TextInv'
<1> SUFFICES ASSUME TypeOK, TypeOK', TextInv, [Next]_vars
             PROVE  TextInv'
  BY TypesKept
<1>0. /\ read \in Seq(AllLines) /\ Built \in Seq(Partials)
      /\ policies \in Seq(Policies) /\ current \in Seq(Partials)
      /\ Built' \in Seq(Partials) /\ Len(Built') = Len(policies') + Len(current')
      /\ \A k \in 1..Len(policies') : Built'[k] = policies'[k]
      /\ current' = <<>> => Built' = policies'
      /\ current' # <<>> => Built'[Len(policies') + 1] = current'[1]
  <2>1. Built \in Seq(Partials)
    BY BuiltIs
  <2>2. read \in Seq(AllLines)
    BY DEF TypeOK, AllLines
  <2>3. policies \in Seq(Policies) /\ current \in Seq(Partials)
    BY DEF TypeOK
  <2>4. /\ Built' \in Seq(Partials) /\ Len(Built') = Len(policies') + Len(current')
        /\ \A k \in 1..Len(policies') : Built'[k] = policies'[k]
        /\ current' = <<>> => Built' = policies'
        /\ current' # <<>> => Built'[Len(policies') + 1] = current'[1]
    <3>1. policies' \in Seq(Policies) /\ current' \in Seq(Partials) /\ Len(current') <= 1
      BY DEF TypeOK
    <3>2. Built' = policies' \o current'
      BY DEF Built
    <3> QED
      BY <3>1, <3>2, Joined
  <2> QED
    BY <2>1, <2>2, <2>3, <2>4
<1>1. CASE ReadHeader
  <2>1. /\ status = "reading" /\ read' = Append(read, Header) /\ Header \in AllLines
    BY <1>1 DEF ReadHeader, AllLines
  <2>2. /\ RulesBuilt /\ \A j \in DOMAIN read : read[j] # Bad
        /\ read # <<>> => 1 \in Headers
    BY <2>1 DEF TextInv
  <2>3. /\ Headers' = Headers \cup {Len(read) + 1} /\ Len(read) \in Nat
        /\ \A j \in 1..Len(read) : read'[j] = read[j]
        /\ read'[Len(read) + 1] = Header
        /\ DOMAIN read' = 1..Len(read) + 1 /\ DOMAIN read = 1..Len(read)
    BY <1>0, <2>1, ReadOn
  <2>4. CASE /\ Finished /\ policies' = policies \o current
             /\ current' = <<NewPolicy>> /\ UNCHANGED status
    <3>1. /\ Len(Built') = Len(Built) + 1 /\ Built'[Len(Built) + 1] = NewPolicy
          /\ \A k \in 1..Len(Built) : Built'[k] = Built[k]
      <4>1. policies' = Built /\ Len(Built) \in Nat
        BY <1>0, <2>4 DEF Built
      <4>2. Len(current') = 1 /\ current'[1] = NewPolicy /\ current' # <<>>
        BY <2>4
      <4> QED
        BY <1>0, <4>1, <4>2
    <3>2. RulesBuilt'
      BY <1>0, <2>1, <2>2, <3>1, ANewRule
    <3>3. \A j \in DOMAIN read' : read'[j] # Bad
      BY <2>2, <2>3, LineKinds
    <3>4. 1 \in Headers'
      <4>1. read = <<>> => Len(read) + 1 = 1
        BY <1>0
      <4> QED
        BY <2>2, <2>3, <4>1
    <3>5. current' # <<>> /\ status' = "reading"
      BY <2>1, <2>4
    <3> QED
      BY <3>2, <3>3, <3>4, <3>5 DEF TextInv
  <2>5. CASE ~Finished /\ Refuse
    <3>1. PICK i \in Headers : EffectLines(i) = {}
      BY <2>2, <2>5, TheUnfinished
    <3>2. Block(i)' = Block(i) /\ Block(i) \subseteq 1..Len(read)
      BY <1>0, <2>1, BlocksGrow
    <3>3. EffectLines(i)' = {}
      BY <2>3, <3>1, <3>2 DEF EffectLines
    <3>4. ~WellFormed'
      BY <2>3, <3>3 DEF WellFormed
    <3> QED
      BY <2>5, <3>4 DEF TextInv, Refuse
  <2> QED
    BY <1>1, <2>4, <2>5 DEF ReadHeader
<1>2. CASE ReadStatement
  <2>1. PICK line \in Lines \ {Header} :
          /\ read' = Append(read, line)
          /\ \/ /\ current # <<>> /\ line # Bad
                /\ current' = <<Take(current[1], line)>>
                /\ UNCHANGED <<policies, status>>
             \/ (current = <<>> \/ line = Bad) /\ Refuse
    BY <1>2 DEF ReadStatement
  <2>2. /\ status = "reading" /\ RulesBuilt /\ \A j \in DOMAIN read : read[j] # Bad
        /\ read # <<>> => 1 \in Headers
        /\ current = <<>> => read = <<>>
    BY <1>2 DEF ReadStatement, TextInv
  <2>3. line \in AllLines /\ line # Header /\ (line # Bad => line \in Statements)
    BY LanguageConstantsOK DEF AllLines
  <2>4. /\ Headers' = Headers /\ Len(read) \in Nat
        /\ \A j \in 1..Len(read) : read'[j] = read[j]
        /\ read'[Len(read) + 1] = line
        /\ DOMAIN read' = 1..Len(read) + 1 /\ DOMAIN read = 1..Len(read)
    BY <1>0, <2>1, <2>3, ReadOn
  <2>5. CASE /\ current # <<>> /\ line # Bad
             /\ current' = <<Take(current[1], line)>> /\ UNCHANGED <<policies, status>>
    <3>1. /\ Len(policies) \in Nat /\ Len(Built) = Len(policies) + 1
          /\ Built[Len(policies) + 1] = current[1]
          /\ \A k \in 1..Len(policies) : Built[k] = policies[k]
      BY <2>5, BuiltIs
    <3>2. PICK m \in Nat : m = Len(policies)
      BY <3>1
    <3>3. /\ Len(current') = 1 /\ current'[1] = Take(current[1], line) /\ current' # <<>>
          /\ policies' = policies
      BY <2>5
    <3>4. RulesBuilt'
      <4>1. /\ Len(Built) = m + 1 /\ Len(Built') = m + 1
            /\ \A k \in 1..m : Built'[k] = Built[k]
        BY <1>0, <3>1, <3>2, <3>3
      <4>2. Built'[m + 1] = Take(Built[m + 1], line)
        BY <1>0, <3>1, <3>2, <3>3
      <4> QED
        BY <1>0, <2>1, <2>2, <2>3, <2>5, <4>1, <4>2, MoreOfARule
    <3>5. \A j \in DOMAIN read' : read'[j] # Bad
      BY <2>2, <2>4, <2>5
    <3>6. 1 \in Headers'
      <4>1. read # <<>>
        <5>1. Headers # {}
          <6>1. Len(policies) + 1 \in 1..Len(Built)
            BY <3>1
          <6> QED
            BY <2>2, <6>1 DEF RulesBuilt
        <5> QED
          BY <5>1, <1>0, LinesOfRules
      <4> QED
        BY <2>2, <2>4, <4>1
    <3>7. status' = "reading"
      BY <2>2, <2>5
    <3> QED
      BY <3>3, <3>4, <3>5, <3>6, <3>7 DEF TextInv
  <2>6. CASE (current = <<>> \/ line = Bad) /\ Refuse
    <3>1. CASE current = <<>>
      <4>1. Headers' = {}
        BY <1>0, <2>2, <2>4, <3>1, LinesOfRules
      <4>2. ~WellFormed'
        BY <4>1 DEF WellFormed
      <4> QED
        BY <2>6, <4>2 DEF TextInv, Refuse
    <3>2. CASE line = Bad
      <4>1. ~WellFormed'
        BY <2>4, <3>2 DEF WellFormed
      <4> QED
        BY <2>6, <4>1 DEF TextInv, Refuse
    <3> QED
      BY <2>6, <3>1, <3>2
  <2> QED
    BY <2>1, <2>5, <2>6
<1>3. CASE EndOfText
  <2>1. /\ status = "reading" /\ read' = read
    BY <1>3 DEF EndOfText
  <2>2. /\ RulesBuilt /\ \A j \in DOMAIN read : read[j] # Bad
        /\ read # <<>> => 1 \in Headers
    BY <2>1 DEF TextInv
  <2>3. CASE /\ Finished /\ policies' = policies \o current
             /\ current' = <<>> /\ status' = "parsed"
    <3>1. Built' = Built
      <4>1. policies \o current = Built
        BY DEF Built
      <4> QED
        BY <1>0, <2>3, <4>1
    <3>2. RulesBuilt'
      BY <2>1, <2>2, <3>1, RulesStay
    <3>3. Headers' = Headers
      BY <2>1 DEF Headers
    <3> QED
      BY <2>1, <2>2, <2>3, <3>2, <3>3 DEF TextInv
  <2>4. CASE ~Finished /\ Refuse
    <3>1. ~WellFormed
      BY <2>2, <2>4, TheUnfinished DEF WellFormed
    <3>2. ~WellFormed'
      BY <2>1, <3>1, WellFormedStays
    <3> QED
      BY <2>4, <3>2 DEF TextInv, Refuse
  <2> QED
    BY <1>3, <2>3, <2>4 DEF EndOfText
<1>4. CASE Validate
  <2>1. /\ status = "parsed" /\ UNCHANGED <<read, current, policies>>
        /\ status' = IF Valid(policies) THEN "valid" ELSE "refused"
    BY <1>4 DEF Validate
  <2>2. /\ RulesBuilt /\ (\A j \in DOMAIN read : read[j] # Bad)
        /\ (read # <<>> => 1 \in Headers) /\ current = <<>>
    BY <2>1 DEF TextInv
  <2>3. CASE Valid(policies)
    <3>1. Built' = Built
      BY <2>1 DEF Built
    <3>2. RulesBuilt'
      BY <2>1, <2>2, <3>1, RulesStay
    <3>3. Headers' = Headers
      BY <2>1 DEF Headers
    <3> QED
      BY <2>1, <2>2, <2>3, <3>2, <3>3 DEF TextInv
  <2>4. CASE ~Valid(policies)
    <3>1. ~WellFormed
      BY <2>2, <2>4, ValidIsWellFormed
    <3>2. ~WellFormed'
      BY <2>1, <3>1, WellFormedStays
    <3> QED
      BY <2>1, <2>4, <3>2 DEF TextInv
  <2> QED
    BY <2>3, <2>4
<1>5. CASE UNCHANGED vars
  <2>1. read' = read /\ current' = current /\ policies' = policies /\ status' = status
    BY <1>5 DEF vars
  <2>2. Built' = Built /\ Headers' = Headers
    BY <2>1 DEF Built, Headers
  <2>3. RulesBuilt => RulesBuilt'
    BY <2>1, <2>2, RulesStay
  <2>4. WellFormed' <=> WellFormed
    BY <2>1, WellFormedStays
  <2> QED
    BY <2>1, <2>2, <2>3, <2>4 DEF TextInv
<1> QED
  BY <1>1, <1>2, <1>3, <1>4, <1>5 DEF Next

\* Every text, as far as it is read, is built as its lines say.
THEOREM BuiltAsWritten == Spec => [](TypeOK /\ TextInv /\ Approved)
<1>1. Init => TextInv
  <2> SUFFICES ASSUME Init
               PROVE  TextInv
    OBVIOUS
  <2>1. read = <<>> /\ current = <<>> /\ policies = <<>> /\ status = "reading"
    BY DEF Init
  <2>2. Headers = {} /\ Cardinality(Headers) = 0
    BY <2>1, FS_EmptySet DEF Headers
  <2>3. Len(Built) = 0
    BY <2>1 DEF Built
  <2>4. RulesBuilt
    BY <2>2, <2>3 DEF RulesBuilt
  <2> QED
    BY <2>1, <2>4 DEF TextInv
<1>2. Init => Approved
  BY DEF Init, Approved
<1> QED
  BY <1>1, <1>2, TypeCorrect, TextKept, ApprovedKept, PTL DEF Spec

\* Exactly the texts whose every rule is complete, names an action of the schema and
\* no single subject are accepted, whatever their length (dsl.rs:44-109,
\* store.rs:63-72, schema.rs:22-75).
THEOREM AcceptedAsWritten == Spec => []AcceptsTheWellFormed
<1>1. TypeOK /\ TextInv /\ Approved => AcceptsTheWellFormed
  <2> SUFFICES ASSUME TypeOK, TextInv, Approved
               PROVE  AcceptsTheWellFormed
    OBVIOUS
  <2>1. ASSUME status = "valid"
        PROVE  WellFormed
    <3>1. Valid(policies)
      BY <2>1 DEF Approved
    <3>2. /\ RulesBuilt /\ current = <<>> /\ (\A j \in DOMAIN read : read[j] # Bad)
          /\ (read # <<>> => 1 \in Headers)
      BY <2>1 DEF TextInv
    <3> QED
      BY <3>1, <3>2, ValidIsWellFormed
  <2>2. status = "refused" => ~WellFormed
    BY DEF TextInv
  <2> QED
    BY <2>1, <2>2 DEF AcceptsTheWellFormed
<1> QED
  BY <1>1, BuiltAsWritten, PTL

\* In a text that is in force, a rule and its policy are one.
LEMMA RuleByRule ==
    ASSUME TypeOK, TextInv, status = "valid"
    PROVE  /\ DOMAIN policies = 1..Len(policies) /\ Headers \subseteq Nat
           /\ \A i \in Headers : Place(i) \in 1..Len(policies)
           /\ \A k \in 1..Len(policies) : \E i \in Headers : Place(i) = k
           /\ \A i, j \in Headers : Place(i) = Place(j) => i = j
           /\ \A i \in Headers :
                 /\ policies[Place(i)] \in Partials /\ Agrees(i, policies[Place(i)])
                 /\ policies[Place(i)].effect = EffectSaid(i).effect
                 /\ policies[Place(i)].action = EffectSaid(i).action
                 /\ policies[Place(i)].resource = EffectSaid(i).resource
<1>1. RulesBuilt /\ current = <<>>
  BY DEF TextInv
<1>2. Built = policies /\ policies \in Seq(Policies)
  BY <1>1, BuiltIs DEF TypeOK
<1>3. /\ \A i \in Headers : Place(i) \in 1..Len(policies) /\ Agrees(i, policies[Place(i)])
      /\ \A k \in 1..Len(policies) : \E i \in Headers : Place(i) = k
  BY <1>1, <1>2 DEF RulesBuilt
<1>4. /\ read \in Seq(AllLines) /\ Len(read) \in Nat /\ Headers \subseteq 1..Len(read)
      /\ \A i \in Headers : EffectLines(i) \subseteq Nat
  BY LinesOfRules DEF TypeOK, AllLines
<1>5. ASSUME NEW i \in Headers, NEW j \in Headers, Place(i) = Place(j)
      PROVE  i = j
  <2>1. Headers \in SUBSET (1..Len(read)) /\ i \in Nat /\ j \in Nat
    BY <1>4
  <2>2. \A g, h \in Headers : g < h => Place(g) < Place(h)
    BY <1>4, <2>1, Placing DEF Place
  <2>3. Place(i) \in Nat
    BY <1>2, <1>3
  <2> QED
    BY <1>5, <2>1, <2>2, <2>3
<1>6. ASSUME NEW i \in Headers
      PROVE  /\ policies[Place(i)] \in Partials /\ Agrees(i, policies[Place(i)])
             /\ policies[Place(i)].effect = EffectSaid(i).effect
             /\ policies[Place(i)].action = EffectSaid(i).action
             /\ policies[Place(i)].resource = EffectSaid(i).resource
  <2>1. policies[Place(i)] \in Policies
    BY <1>2, <1>3
  <2>2. policies[Place(i)] \in Partials /\ policies[Place(i)].effect # "none"
    BY <2>1 DEF Policies
  <2> QED
    BY <1>3, <1>4, <2>2, EffectIsSaid
<1>7. DOMAIN policies = 1..Len(policies) /\ Headers \subseteq Nat
  BY <1>2, <1>4
<1> QED
  BY <1>3, <1>5, <1>6, <1>7

\* A policy is satisfied by the requests its rule applies to.
LEMMA AppliesAsSatisfied ==
    ASSUME NEW i, NEW p \in Partials, NEW q \in AllRequests, BringsNothing(q), Agrees(i, p),
           p.action = EffectSaid(i).action, p.resource = EffectSaid(i).resource
    PROVE  Satisfied(p, q) <=> Applies(i, q)
<1>1. /\ p.when_roles = RolesSaid(i, "when") /\ p.unless_roles = RolesSaid(i, "unless")
      /\ p.where_subjects = SubjectsSaid(i) /\ p.where_subject_groups = GroupsSaid(i)
  BY DEF Agrees
<1>2. Satisfied(p, q) <=>
        /\ p.action = q.action /\ p.resource = q.resource
        /\ p.when_roles # {} => p.when_roles \cap q.roles # {}
        /\ p.unless_roles \cap q.roles = {}
        /\ p.where_subjects # {} => \E s \in p.where_subjects : Means(s, q)
        /\ p.where_subject_groups # {} => p.where_subject_groups \cap q.subject.groups # {}
  BY SatisfiedMeans
<1> QED
  BY <1>1, <1>2 DEF Applies, RolesFit

\* What permits and what forbids are the policies of the rules that allow and deny.
LEMMA MatchingAsWritten ==
    ASSUME TypeOK, TextInv, status = "valid", NEW q \in AllRequests, BringsNothing(q)
    PROVE  /\ Matching(policies, q, "permit") = {Place(i) : i \in Allowing(q)}
           /\ Matching(policies, q, "forbid") = {Place(i) : i \in Denying(q)}
<1>1. ASSUME NEW i \in Headers
      PROVE  /\ Place(i) \in DOMAIN policies
             /\ Satisfied(policies[Place(i)], q) <=> Applies(i, q)
             /\ Effect(policies[Place(i)]) = IF EffectSaid(i).effect = "allow" THEN "permit" ELSE "forbid"
  BY RuleByRule, AppliesAsSatisfied DEF Effect
<1>2. \A k \in DOMAIN policies : \E i \in Headers : Place(i) = k
  BY RuleByRule
<1> QED
  BY <1>1, <1>2 DEF Matching, Allowing, Denying

\* No policy is in the place of a rule when there is no rule, and only then.
LEMMA NoPlaces ==
    ASSUME NEW R, NEW P, P = {Place(i) : i \in R}
    PROVE  P = {} <=> R = {}
<1>1. ASSUME NEW i \in R
      PROVE  P # {}
  <2>1. Place(i) \in P
    BY <1>1
  <2> QED
    BY <2>1, Zenon
<1>2. ASSUME NEW p \in P
      PROVE  R # {}
  BY <1>2
<1> QED
  BY <1>1, <1>2, Zenon

\* Whatever the text, the verdict is the one its lines state: what some rule allows and
\* none denies, and nothing else, is let through, if the request brings no values of
\* its own for what rules read. Whatever it brings, what is allowed is allowed by a rule
\* about the very action that the very roles of the principal fit (dsl.rs:44-224,
\* translate.rs:10-119, evaluate.rs:64-172).
THEOREM VerdictAsWritten == Spec => []MeansWhatItSays
<1>1. TypeOK /\ TextInv /\ Approved => MeansWhatItSays
  <2> SUFFICES ASSUME TypeOK, TextInv, status = "valid",
                      NEW q \in Requests, q.principal # "" /\ ~q.garbled
               PROVE  /\ BringsNothing(q) =>
                            (Decide(policies, q) = "ALLOW" <=> Allowing(q) # {} /\ Denying(q) = {})
                      /\ Decide(policies, q) = "ALLOW" =>
                            \E i \in Headers : /\ EffectSaid(i).effect = "allow"
                                               /\ EffectSaid(i).action = q.action /\ RolesFit(i, q)
    BY Zenon DEF MeansWhatItSays
  <2>1. q \in AllRequests
    BY LanguageConstantsOK
  <2>2. Decide(policies, q) = "ALLOW" <=>
          Matching(policies, q, "forbid") = {} /\ Matching(policies, q, "permit") # {}
    BY Zenon DEF Decide
  <2>3. ASSUME BringsNothing(q)
        PROVE  Decide(policies, q) = "ALLOW" <=> Allowing(q) # {} /\ Denying(q) = {}
    <3>1. /\ Matching(policies, q, "permit") = {Place(i) : i \in Allowing(q)}
          /\ Matching(policies, q, "forbid") = {Place(i) : i \in Denying(q)}
      BY <2>1, <2>3, MatchingAsWritten
    <3>2. Matching(policies, q, "permit") = {} <=> Allowing(q) = {}
      BY <3>1, NoPlaces
    <3>3. Matching(policies, q, "forbid") = {} <=> Denying(q) = {}
      BY <3>1, NoPlaces
    <3> QED
      BY <2>2, <3>2, <3>3
  <2>4. ASSUME Decide(policies, q) = "ALLOW"
        PROVE  \E i \in Headers : /\ EffectSaid(i).effect = "allow"
                                  /\ EffectSaid(i).action = q.action /\ RolesFit(i, q)
    <3>1. PICK k \in DOMAIN policies : Effect(policies[k]) = "permit" /\ Satisfied(policies[k], q)
      BY <2>2, <2>4 DEF Matching
    <3>2. PICK i \in Headers : Place(i) = k
      BY <3>1, RuleByRule
    <3>3. /\ policies[k].action = q.action
          /\ policies[k].when_roles # {} => policies[k].when_roles \cap q.roles # {}
          /\ policies[k].unless_roles \cap q.roles = {}
      BY <3>1, SatisfiedNeeds
    <3>4. policies[k].effect = "allow"
      BY <3>1 DEF Effect
    <3>5. /\ EffectSaid(i).effect = "allow" /\ EffectSaid(i).action = q.action
          /\ RolesSaid(i, "when") = policies[k].when_roles
          /\ RolesSaid(i, "unless") = policies[k].unless_roles
      BY <3>2, <3>3, <3>4, RuleByRule DEF Agrees
    <3> QED
      BY <3>3, <3>5 DEF RolesFit
  <2> QED
    BY <2>3, <2>4
<1> QED
  BY <1>1, BuiltAsWritten, PTL

\* So does the evidence: it names the rules that decided, all of them and no others
\* (evaluate.rs:159-172).
THEOREM EvidenceFollowsTheText == Spec => []EvidenceAsWritten
<1>1. TypeOK /\ TextInv /\ Approved => EvidenceAsWritten
  <2> SUFFICES ASSUME TypeOK, TextInv, status = "valid", NEW q \in Requests, BringsNothing(q)
               PROVE  {HeaderOf(k) : k \in Reasons(policies, q)} =
                        IF Denying(q) # {} THEN Denying(q) ELSE Allowing(q)
    BY DEF EvidenceAsWritten
  <2>1. q \in AllRequests
    BY LanguageConstantsOK
  <2>2. /\ Matching(policies, q, "permit") = {Place(i) : i \in Allowing(q)}
        /\ Matching(policies, q, "forbid") = {Place(i) : i \in Denying(q)}
    BY <2>1, MatchingAsWritten
  <2>3. ASSUME NEW i \in Headers
        PROVE  HeaderOf(Place(i)) = i
    <3>1. \A j \in Headers : Place(j) = Place(i) => j = i
      BY RuleByRule
    <3>2. HeaderOf(Place(i)) = CHOOSE j \in Headers : Place(j) = Place(i)
      BY DEF HeaderOf, Place
    <3> QED
      BY <3>1, <3>2
  <2>4. Allowing(q) \subseteq Headers /\ Denying(q) \subseteq Headers
    BY DEF Allowing, Denying
  <2>5. /\ {HeaderOf(k) : k \in Matching(policies, q, "permit")} = Allowing(q)
        /\ {HeaderOf(k) : k \in Matching(policies, q, "forbid")} = Denying(q)
    BY <2>2, <2>3, <2>4
  <2> QED
    BY <2>2, <2>5 DEF Reasons
<1> QED
  BY <1>1, BuiltAsWritten, PTL

\* Whatever text is in force, a tool that nobody entered into the catalog is used only
\* under a rule that speaks of unknown tools (catalog.rs:111-128).
THEOREM UnknownToolsAreNamed == Spec => []UnknownToolsNeedTheirOwnRule
<1>1. TypeOK /\ TextInv /\ Approved => UnknownToolsNeedTheirOwnRule
  <2> SUFFICES ASSUME TypeOK, TextInv, status = "valid", NEW p \in People, NEW c \in Used,
                      Mapped(c.tool) = {}, Allows(CallRequest(p, c))
               PROVE  \E i \in Headers : /\ EffectSaid(i).effect = "allow"
                                         /\ EffectSaid(i).resource = "TOOL_UNKNOWN"
    BY DEF UnknownToolsNeedTheirOwnRule
  <2>1. PICK q : q = CallRequest(p, c)
    OBVIOUS
  <2>2. q.resource = "TOOL_UNKNOWN"
    BY <2>1 DEF CallRequest, Request, RequestAbout
  <2>3. PICK k \in DOMAIN policies : Effect(policies[k]) = "permit" /\ Satisfied(policies[k], q)
    BY <2>1 DEF Allows, Decide, Matching
  <2>4. PICK i \in Headers : Place(i) = k
    BY <2>3, RuleByRule
  <2>5. policies[k].effect = "allow"
    BY <2>3 DEF Effect
  <2>6. policies[k].resource = q.resource
    <3>1. q.context = NoValues
      BY <2>1 DEF CallRequest, Request, RequestAbout
    <3>2. Context(q)["resource_kind"] = q.resource
      BY <3>1, ContextIs DEF Attributes, Computed
    <3> QED
      BY <2>3, <3>2, SatisfiedNeeds
  <2> QED
    BY <2>2, <2>4, <2>5, <2>6, RuleByRule
<1> QED
  BY <1>1, BuiltAsWritten, PTL

=============================================================================
