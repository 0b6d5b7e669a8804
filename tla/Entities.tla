------------------------------ MODULE Entities ------------------------------
(***************************************************************************)
(* The Cedar entities of a request (crates/authz-core/src/entities.rs):    *)
(* principal, subject, resource, action and groups, with the groups that   *)
(* relationships and directory add as parents.  The conditions of          *)
(* translated rules read the context only; the entities are what a Cedar   *)
(* policy that is written by hand may read, and say the same.              *)
(***************************************************************************)
EXTENDS PolicyRules

\* group_members: the members of each group of the directory.
Directories == UNION {[D -> SUBSET Ids] : D \in SUBSET Groups}

MemberEdges(q)      == {rel \in q.relationships : rel.kind = "group_member"}
EdgesTo(q, x, kind) == {rel.to : rel \in {e \in q.relationships : e.kind = kind /\ e.from = x}}

\* Groups a relationship or the directory puts x in.
Parents(q, members, x) ==
    EdgesTo(q, x, "group_member") \cup {g \in DOMAIN members : x \in members[g]}

Plain(type, x) == [type |-> type, id |-> x, parents |-> {}]

\* The principal with the groups of its identity, and its reports as attributes.
PrincipalEntity(q, members) ==
    [type |-> "User", id |-> q.principal,
     parents |-> Parents(q, members, q.principal) \cup q.groups,
     direct_reports |-> EdgesTo(q, q.principal, "direct_reports"),
     manages |-> EdgesTo(q, q.principal, "manager_of")]

SubjectEntities(q, members) ==
    IF q.subject = NoSubject THEN {}
    ELSE {[type |-> "Employee", id |-> q.subject.id,
           parents |-> Parents(q, members, q.subject.id) \cup q.subject.groups]}

ResourceEntity(q) == Plain("Resource", IF q.id = NoId THEN q.resource ELSE q.id)

\* Defect: a group that only a relationship names is no entity.
DeclaredGroups(q, members) == q.groups \cup q.subject.groups \cup DOMAIN members

\* Groups of the identity, the subject, the relationships and the directory.
AllGroups(q, members) ==
    q.groups \cup q.subject.groups \cup {rel.to : rel \in MemberEdges(q)} \cup DOMAIN members

Entities(q, members) ==
         {PrincipalEntity(q, members), ResourceEntity(q), Plain("Action", q.action)}
    \cup SubjectEntities(q, members)
    \cup {Plain("Group", g) : g \in AllGroups(q, members)}

-----------------------------------------------------------------------------
(***************************************************************************)
(* Properties of every request.                                            *)
(***************************************************************************)
\* A group that an entity is in is an entity itself, whoever put it there: the
\* request, a relationship or the directory (entities.rs:61-87, 176-199).
GroupsPresent(q, members) ==
    \A e \in Entities(q, members) : \A g \in e.parents :
        Plain("Group", g) \in Entities(q, members)

\* Two readings of the same edges, the flag that is computed and the attributes
\* of the entity, agree (evaluate.rs:47-62, entities.rs:47-60, 98-105).
ReportsMatch(q, members) ==
    LET e == PrincipalEntity(q, members) IN
    q.subject # NoSubject =>
        (Computed(q).subject_in_direct_reports <=> q.subject.id \in e.direct_reports \cup e.manages)

=============================================================================
