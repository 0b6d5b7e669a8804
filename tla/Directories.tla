---------------------------- MODULE Directories ----------------------------
(***************************************************************************)
(* What the identity adapters make of the answers of the directories       *)
(* (crates/authz-identity/src/adapters.rs, idp.rs): the users and groups   *)
(* of a snapshot.  The commands of this version only ask the directories   *)
(* of the demo; a program that uses the crate may give the adapters real   *)
(* answers.  Names to display, addresses and times are left out.           *)
(***************************************************************************)
EXTENDS Naturals, Sequences, FiniteSets

CONSTANTS
    Parts,          \* what names are written of: commas, prefixes, and the text between
    Ranks,          \* roles
    Missing,        \* a field that is not there
    LdapPeople, LdapTeams,      \* entries of each directory
    GraphPeople, GraphTeams,
    PoolPeople, PoolTeams

\* A name, and a path of LDAP, is a sequence of parts.
Names == Seq(Parts)

ASSUME DirectoriesConstantsOK ==
    /\ Missing \notin Names \cup Ranks
    /\ {"uid=", "cn=", ","} \subseteq Parts
    /\ {"HR_HEAD", ""} \subseteq Ranks
    /\ LdapPeople \subseteq [dn : Names, uid : Names \cup {Missing},
                             employeeType : SUBSET Ranks, memberOf : SUBSET Names]
    /\ LdapTeams \subseteq [dn : Names, cn : Names \cup {Missing}, member : SUBSET Names]
    /\ GraphPeople \subseteq [id : Names \cup {Missing}]
    /\ GraphTeams \subseteq [id : Names \cup {Missing}, displayName : Names \cup {Missing}]
    /\ PoolPeople \subseteq [username : Names \cup {Missing}, roles : {Missing} \cup SUBSET Ranks]
    /\ PoolTeams \subseteq Names \cup {Missing}

\* Ids: "user:" and a name, or something else before it.
AsUser(x)     == <<"user", x>>
AsEmployee(x) == <<"employee", x>>

User(id, roles, groups, source) == [id |-> id, roles |-> roles, groups |-> groups, source |-> source]
Group(id, name, members, source) == [id |-> id, name |-> name, members |-> members, source |-> source]

Or(field, default) == IF field = Missing THEN default ELSE field

-----------------------------------------------------------------------------
(***************************************************************************)
(* Microsoft Graph gives users and groups, and says nothing of members.    *)
(***************************************************************************)
GraphUser(u)  == User(AsUser(Or(u.id, <<"unknown">>)), {}, {}, "entra_id")
GraphGroup(g) == Group(Or(g.id, <<"g">>), Or(g.displayName, Or(g.id, <<"g">>)), {}, "entra_id")

(***************************************************************************)
(* Cognito keeps the roles in an attribute; if it is there but empty, it   *)
(* splits into one empty role.                                             *)
(***************************************************************************)
CognitoUser(u) ==
    User(AsUser(Or(u.username, <<"unknown">>)),
         CASE u.roles = Missing -> {} [] u.roles = {} -> {""} [] OTHER -> u.roles,
         {}, "cognito")
CognitoGroup(name) == Group(Or(name, <<"group">>), Or(name, <<"group">>), {}, "cognito")

(***************************************************************************)
(* LDAP names everything by its path.  The code takes what stands before   *)
(* the first comma, one that belongs to a name included, and takes off the *)
(* prefixes it knows as often as they are repeated, in lower case only.    *)
(***************************************************************************)
\* How many parts at the beginning are among these.
LeadingRun(text, among) ==
    CHOOSE n \in 0..Len(text) : /\ \A i \in 1..n : text[i] \in among
                                /\ n = Len(text) \/ text[n+1] \notin among

FirstPiece(dn) == SubSeq(dn, 1, LeadingRun(dn, Parts \ {","}))

TrimStartMatches(text, prefix) == SubSeq(text, LeadingRun(text, {prefix}) + 1, Len(text))

LdapUser(e) ==
    User(AsUser(Or(e.uid, e.dn)), e.employeeType,
         {TrimStartMatches(FirstPiece(dn), "cn=") : dn \in e.memberOf}, "ldap")
LdapGroup(e) ==
    Group(Or(e.cn, e.dn), Or(e.cn, e.dn),
          {AsUser(TrimStartMatches(TrimStartMatches(FirstPiece(dn), "uid="), "cn=")) : dn \in e.member},
          "ldap")

-----------------------------------------------------------------------------
(***************************************************************************)
(* discover_all_stores asks Active Directory, Entra and Cognito; who       *)
(* fails is left out.  The first to know an id has it.                     *)
(***************************************************************************)
NoAnswer == [ok |-> FALSE, users |-> <<>>, groups |-> <<>>]

\* Defect: the last to know an id has it.
Replaced(map, x) == {y \in map : y.id # x.id} \cup {x}

\* or_insert
Inserted(map, x) == IF \E y \in map : y.id = x.id THEN map ELSE map \cup {x}

\* The map after each entry.
Merged(entries) ==
    LET map[n \in 0..Len(entries)] == IF n = 0 THEN {} ELSE Inserted(map[n-1], entries[n])
    IN  map

Deduplicated(entries) == Merged(entries)[Len(entries)]

Given(answer, part) == IF answer.ok THEN answer[part] ELSE <<>>

\* Relationships are left out: only those of the first source are kept, and it has none.
Discovered(answers) ==
    LET all(part) == Given(answers[1], part) \o Given(answers[2], part) \o Given(answers[3], part)
    IN  [users |-> Deduplicated(all("users")), groups |-> Deduplicated(all("groups"))]

(***************************************************************************)
(* The directories of the demo.                                            *)
(***************************************************************************)
MockDirectory(source) ==
    [ok |-> TRUE,
     users  |-> << User(AsUser(<<"hr-head">>), {"HR_HEAD"}, {<<"HR">>}, source) >>,
     groups |-> << Group(<<"HR">>, <<"HR">>, {AsUser(<<"hr-head">>)}, source),
                   Group(<<"EXECUTIVE">>, <<"EXECUTIVE">>, {AsEmployee(<<"CEO">>)}, source),
                   Group(<<"PAYROLL">>, <<"PAYROLL">>, {}, source) >>]

(***************************************************************************)
(* What the three may answer: nothing, the demo, or one user and one group *)
(* made of what a live directory says of them.                             *)
(***************************************************************************)
Answer1(user, group) == [ok |-> TRUE, users |-> <<user>>, groups |-> <<group>>]

\* ActiveDirectoryAdapter::sync asks LDAP unless it is a mock.
AdAnswers ==
    {NoAnswer, MockDirectory("active_directory")}
    \cup {Answer1(LdapUser(e), LdapGroup(g)) : e \in LdapPeople, g \in LdapTeams}

\* EntraIdAdapter::sync fails if the token or one of the two lists does.
EntraAnswers ==
    {NoAnswer, MockDirectory("entra_id")}
    \cup {Answer1(GraphUser(u), GraphGroup(g)) : u \in GraphPeople, g \in GraphTeams}

\* CognitoAdapter::sync knows a live pool by an endpoint for tests only.
CognitoAnswers ==
    {NoAnswer, MockDirectory("cognito")}
    \cup {Answer1(CognitoUser(u), CognitoGroup(n)) : u \in PoolPeople, n \in PoolTeams}

Answers ==
    {<<ad, entra, cognito>> : ad \in AdAnswers, entra \in EntraAnswers, cognito \in CognitoAnswers}

=============================================================================
