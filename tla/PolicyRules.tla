---------------------------- MODULE PolicyRules ----------------------------
(***************************************************************************)
(* The rules of the policy language and what evaluate makes of them: the   *)
(* statements of a rule and the policy they add up to                      *)
(* (crates/authz-policy/src/dsl.rs), its validation (store.rs, schema.rs), *)
(* its translation to a Cedar policy (translate.rs) and the decision of a  *)
(* request (crates/authz-core/src/request.rs, evaluate.rs).                *)
(***************************************************************************)
EXTENDS Naturals, Sequences, FiniteSets

CONSTANTS
    Roles,          \* names of roles
    Groups,         \* names of groups
    Ids,            \* ids of principals and subjects
    Actions,        \* names of actions
    SchemaActions,  \* the actions the Cedar schema knows
    Kinds,          \* kinds of resources
    Names,          \* what a resource may be called: ids, collections, tools
    NoId,           \* the resource is not named
    NoText          \* the request brings no value of this name

Statements ==
         [kind : {"when", "unless"}, roles : SUBSET Roles]
    \cup [kind : {"effect"}, effect : {"allow", "deny", "review"}, action : Actions, resource : Kinds]
    \cup [kind : {"where", "or"}, subject : {"SELF", "DIRECT_REPORTS"} \cup Ids]
    \cup [kind : {"where", "or"}, group : Groups]

Relationships == [kind : {"manager_of", "direct_reports", "group_member", "delegation"},
                  from : Ids \cup {""}, to : Ids \cup Groups]

NoSubject == [id |-> "", groups |-> {}]
Subjects  == [id : Ids, groups : SUBSET Groups]

\* The attributes that conditions may ask for. A request may bring values of its own
\* under these names (context.values), which are texts; what it says of others is
\* left out, as no rule asks for it.
Attributes == {"action_name", "resource_kind", "subject_is_self", "subject_in_direct_reports",
               "subject_id", "subject_groups", "principal_roles", "principal_groups"}
Texts      == Actions \cup Kinds \cup Ids \cup {""}
NoValues   == [a \in Attributes |-> NoText]

\* A principal with an empty id is refused. A request is garbled if one of its
\* texts (an utterance, an argument, an id) spans two lines: escape leaves the
\* line break alone, and the context is no JSON.
AllRequests == [principal : Ids \cup {""}, roles : SUBSET Roles, groups : SUBSET Groups,
                action : Actions, resource : Kinds, id : Names \cup {NoId},
                subject : Subjects \cup {NoSubject}, relationships : SUBSET Relationships,
                context : [Attributes -> Texts \cup {NoText}], garbled : BOOLEAN]

ASSUME RulesConstantsOK ==
    /\ {"SELF", "DIRECT_REPORTS", ""} \cap Ids = {}
    /\ SchemaActions \subseteq Actions
    /\ NoId \notin Names
    /\ NoText \notin Texts

-----------------------------------------------------------------------------
(***************************************************************************)
(* Policies (DslPolicy); while it is read, one may lack its effect.        *)
(***************************************************************************)
Partials == [effect : {"none", "allow", "deny", "review"}, action : Actions \cup {""},
             resource : Kinds \cup {""}, when_roles : SUBSET Roles, unless_roles : SUBSET Roles,
             where_subjects : SUBSET ({"SELF", "DIRECT_REPORTS"} \cup Ids),
             first_subject : {"", "SELF", "DIRECT_REPORTS"} \cup Ids,
             where_subject_groups : SUBSET Groups]
Policies == {p \in Partials : p.effect # "none"}

NewPolicy == [effect |-> "none", action |-> "", resource |-> "", when_roles |-> {},
              unless_roles |-> {}, where_subjects |-> {}, first_subject |-> "",
              where_subject_groups |-> {}]

\* What one statement adds to the policy under construction: roles, subjects and
\* groups accumulate, effect, action and resource are replaced. Of the order of the
\* subjects it is kept which comes first: a valid text knows two of them.
Take(p, line) ==
    CASE line.kind = "when"   -> [p EXCEPT !.when_roles = @ \cup line.roles]
      [] line.kind = "unless" -> [p EXCEPT !.unless_roles = @ \cup line.roles]
      [] line.kind = "effect" -> [p EXCEPT !.effect = line.effect, !.action = line.action,
                                           !.resource = line.resource]
      [] line.kind \in {"where", "or"} ->
            IF "group" \in DOMAIN line
            THEN [p EXCEPT !.where_subject_groups = @ \cup {line.group}]
            ELSE [p EXCEPT !.where_subjects = @ \cup {line.subject},
                           !.first_subject = IF @ = "" THEN line.subject ELSE @]

\* Defect: a text without policies is valid.
ValidEmpty(ps) ==
    \A i \in DOMAIN ps : ps[i].action \in SchemaActions /\ ps[i].where_subjects \cap Ids = {}

\* Defect: the action of a rule is not looked up in the schema.
ValidAnyAction(ps) == ps # <<>> /\ \A i \in DOMAIN ps : ps[i].where_subjects \cap Ids = {}

\* The schema knows few actions, and no subject_id in the context.
Valid(ps) ==
    /\ ps # <<>>
    /\ \A i \in DOMAIN ps : ps[i].action \in SchemaActions /\ ps[i].where_subjects \cap Ids = {}

-----------------------------------------------------------------------------
(***************************************************************************)
(* Translation: a condition is a set of clauses, all of which must hold; a *)
(* clause holds if one of its tests does, or none if it is negated. Where  *)
(* it matters, it is told which test comes first.                          *)
(***************************************************************************)
Equals(attr, v)   == [attr |-> attr, test |-> "equals", value |-> v]
Contains(attr, v) == [attr |-> attr, test |-> "contains", value |-> v]
Flag(attr)        == [attr |-> attr, test |-> "flag", value |-> TRUE]
AnyOf(tests)      == [negated |-> FALSE, tests |-> tests, first |-> {}]
NoneOf(tests)     == [negated |-> TRUE, tests |-> tests, first |-> {}]

HasRole(roles)  == {Contains("principal_roles", r) : r \in roles}
InGroup(groups) == {Contains("subject_groups", g) : g \in groups}
IsSubject(s) == CASE s = "SELF" -> Flag("subject_is_self")
                  [] s = "DIRECT_REPORTS" -> Flag("subject_in_direct_reports")
                  [] OTHER -> Equals("subject_id", s)

BySubject(p) ==
    [AnyOf({IsSubject(s) : s \in p.where_subjects}) EXCEPT
        !.first = {IsSubject(s) : s \in p.where_subjects \cap {p.first_subject}}]

IfAny(some, clause) == IF some = {} THEN {} ELSE {clause}

Clauses(p) ==
         {AnyOf({Equals("resource_kind", p.resource)}), AnyOf({Equals("action_name", p.action)})}
    \cup IfAny(p.when_roles, AnyOf(HasRole(p.when_roles)))
    \cup IfAny(p.where_subjects, BySubject(p))
    \cup IfAny(p.where_subject_groups, AnyOf(InGroup(p.where_subject_groups)))
    \cup IfAny(p.unless_roles, NoneOf(HasRole(p.unless_roles)))

\* A review is a denial for now.
Effect(p) == IF p.effect = "allow" THEN "permit" ELSE "forbid"

(***************************************************************************)
(* Evaluation.                                                             *)
(***************************************************************************)
IsSelf(q) == q.subject # NoSubject /\ q.subject.id = q.principal

\* Some relationship of the request makes the subject a report of the principal.
IsReport(q) ==
    /\ q.subject # NoSubject
    /\ \E rel \in q.relationships : /\ rel.kind \in {"direct_reports", "manager_of"}
                                   /\ rel.from = q.principal /\ rel.to = q.subject.id

Computed(q) == [action_name               |-> q.action,
                resource_kind             |-> q.resource,
                subject_is_self           |-> IsSelf(q),
                subject_in_direct_reports |-> IsReport(q),
                subject_id                |-> q.subject.id,
                subject_groups            |-> q.subject.groups,
                principal_roles           |-> q.roles,
                principal_groups          |-> q.groups]

Brings(q) == {a \in Attributes : q.context[a] # NoText}

\* Defect: the request's own values are written behind everything else.
SuppliesAll(q) == Brings(q)

\* build_context_json writes the request's own values behind what it computes of
\* action, resource and subject, and the principal's roles and groups behind them:
\* of two values with one name Cedar takes the last.
Supplies(q) == Brings(q) \ {"principal_roles", "principal_groups"}

\* Defect: without a subject the context says nothing about it.
ContextOfSubject(q) ==
    [a \in IF q.subject # NoSubject THEN Attributes
           ELSE {"action_name", "resource_kind", "principal_roles", "principal_groups"} |->
        IF a \in Supplies(q) THEN q.context[a] ELSE Computed(q)[a]]

\* What the conditions may ask.
Context(q) == [a \in Attributes |-> IF a \in Supplies(q) THEN q.context[a] ELSE Computed(q)[a]]

\* A test that cannot be evaluated is an error: it asks for an attribute the context
\* lacks, or for a flag or a list where the request supplies a text.
Evaluates(t, q) ==
    /\ t.attr \in DOMAIN Context(q)
    /\ t.attr \in Supplies(q) => t.test = "equals"

Passes(t, q) == IF t.test = "contains" THEN t.value \in Context(q)[t.attr]
                                       ELSE Context(q)[t.attr] = t.value

\* Tests behind one that passes are not evaluated. An error is no match.
Holds(c, q) ==
    \/ \E t \in c.first : Evaluates(t, q) /\ Passes(t, q)
    \/ /\ \A t \in c.tests : Evaluates(t, q)
       /\ (\E t \in c.tests : Passes(t, q)) # c.negated

\* Some test of the policy cannot be evaluated; where Cedar comes upon it, it skips
\* the policy, a forbidding one as well.
Skipped(p, q) == \E c \in Clauses(p) : \E t \in c.tests : ~Evaluates(t, q)

Satisfied(p, q) ==
    /\ p.action = q.action                  \* the scope of the Cedar policy
    /\ \A c \in Clauses(p) : Holds(c, q)

Matching(ps, q, effect) == {i \in DOMAIN ps : Effect(ps[i]) = effect /\ Satisfied(ps[i], q)}

\* evaluate: neither validation nor the context may fail, nothing may forbid,
\* and something must permit.
Decide(ps, q) ==
    IF q.principal = "" \/ q.garbled THEN "ERROR"
    ELSE IF Matching(ps, q, "forbid") = {} /\ Matching(ps, q, "permit") # {} THEN "ALLOW" ELSE "DENY"

\* Defect: what permits is reported although something forbids.
ReasonsOfAll(ps, q) == Matching(ps, q, "permit") \cup Matching(ps, q, "forbid")

\* The matched policies of the evidence; none of them is deny-by-default.
Reasons(ps, q) ==
    IF Matching(ps, q, "forbid") = {} THEN Matching(ps, q, "permit") ELSE Matching(ps, q, "forbid")

=============================================================================
