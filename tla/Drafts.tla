------------------------------- MODULE Drafts -------------------------------
(***************************************************************************)
(* The rules that are drafted from the groups of a directory and from the  *)
(* audit file, for a human to commit: adapters.rs and idp.rs of            *)
(* crates/authz-identity, lib.rs of crates/authz-suggest.                  *)
(*                                                                         *)
(* A draft puts the name of a group between the brackets of a list of      *)
(* roles, and parse_list takes it apart: a name with a comma becomes       *)
(* several roles, an empty one becomes none.                               *)
(***************************************************************************)
EXTENDS PolicyRules

CONSTANTS
    GroupNames,     \* the names directories give groups
    Spelled,        \* [name -> the roles parse_list makes of it]
    Mentions,       \* [name -> the key words that occur in it]
    Snapshots,      \* the names in each directory that is synced
    DeniedTwice     \* actions and kinds of what was denied twice

ASSUME DraftsConstantsOK ==
    /\ IsFiniteSet(GroupNames)
    /\ Spelled \in [GroupNames -> SUBSET Roles]
    /\ Mentions \in [GroupNames -> SUBSET {"EXEC", "EXECUTIVE", "FINANCE", "PAYROLL"}]
    /\ Snapshots \subseteq SUBSET GroupNames /\ DeniedTwice \subseteq Actions \X Kinds
    /\ {"READ", "EXPORT"} \subseteq SchemaActions
    /\ {"TRAVEL_EXPENSE", "SALARY", "EMPLOYEE_PROFILE"} \subseteq Kinds
    /\ {"CFO", "CEO", "PAYROLL_ADMIN"} \subseteq Roles
    /\ "EXECUTIVE" \in Groups

Says(effect, action, kind) ==
    Take(NewPolicy, [kind |-> "effect", effect |-> effect, action |-> action, resource |-> kind])

\* Defect: whoever has the role reads every profile.
AnyProfile(g) ==
    Take(Says("allow", "READ", "EMPLOYEE_PROFILE"), [kind |-> "when", roles |-> Spelled[g]])

SelfProfile(g) ==
    Take(Take(Says("allow", "READ", "EMPLOYEE_PROFILE"), [kind |-> "when", roles |-> Spelled[g]]),
         [kind |-> "where", subject |-> "SELF"])

ExpensesProtected ==
    Take(Take(Says("deny", "READ", "TRAVEL_EXPENSE"), [kind |-> "where", group |-> "EXECUTIVE"]),
         [kind |-> "unless", roles |-> {"CFO", "CEO"}])

SalariesProtected ==
    Take(Says("deny", "EXPORT", "SALARY"), [kind |-> "unless", roles |-> {"PAYROLL_ADMIN"}])

\* suggest_from_audit: what was denied twice is denied to everybody.
AuditDraft(action, kind) == Says("deny", action, kind)

\* draft_policies_from_groups looks for executives, default_drafts_from_groups and
\* generate_auto_discovered_draft_policies for whatever has EXEC or FINANCE in it.
Executives(style) == IF style = "ldap" THEN {"EXECUTIVE"} ELSE {"EXEC", "FINANCE"}

GroupDrafts(style, g) ==
         {SelfProfile(g)}
    \cup (IF Mentions[g] \cap Executives(style) # {} THEN {ExpensesProtected} ELSE {})
    \cup (IF "PAYROLL" \in Mentions[g] THEN {SalariesProtected} ELSE {})

Drafted(style, G) == UNION {GroupDrafts(style, g) : g \in G}

\* The policies of a draft in some order; a directory promises none.
Arranged(D) == CHOOSE text \in [1..Cardinality(D) -> D] : \A p \in D : \E i \in DOMAIN text : text[i] = p

(***************************************************************************)
(* The drafts of `authz identity sync` and `discover`, and the suggestions *)
(* for what was denied.                                                    *)
(***************************************************************************)
GroupTexts ==
    {[groups |-> G, text |-> Arranged(Drafted(style, G))] :
        style \in {"ldap", "idp"}, G \in Snapshots}
AuditTexts ==
    {[groups |-> {}, text |-> <<AuditDraft(d[1], d[2])>>] : d \in DeniedTwice}
DraftTexts == GroupTexts \cup AuditTexts

=============================================================================
