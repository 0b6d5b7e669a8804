---------------------------- MODULE MCAuditFile ----------------------------
(***************************************************************************)
(* Three decisions and one of an older version; two of them deny the same, *)
(* the others allow the same.  Three commands beside them.                 *)
(***************************************************************************)
EXTENDS Directory, TLC

CONSTANTS d1, d2, d3, old, c1, c2, c3, expense, salary

MCAbout == [d \in All |-> IF d \in {d3, old} THEN salary ELSE expense]

\* Commands are interchangeable.
Alike == Permutations(Commands)

MCParts == {",", "uid=", "cn=", "CN=", "ou=", "unknown", "hr-head", "CEO", "Doe\\", "Alex",
            "g", "group", "HR", "EXECUTIVE", "PAYROLL"}

\* Paths as the code expects them, in upper case, with a comma in the name, and twice prefixed.
byUid  == <<"uid=", "hr-head", ",", "ou=", "HR">>
byCN   == <<"CN=", "Alex", ",", "ou=", "HR">>
byName == <<"cn=", "Doe\\", ",", "Alex", ",", "ou=", "HR">>
twice  == <<"uid=", "cn=", "cn=", "Alex">>
hr     == <<"cn=", "HR", ",", "ou=", "HR">>

MCLdapPeople == {[dn |-> n, uid |-> u, employeeType |-> {"HR_HEAD"}, memberOf |-> {hr, byCN}] :
                    n \in {byUid, byName}, u \in {<<"hr-head">>, Missing}}
MCLdapTeams  == {[dn |-> hr, cn |-> n, member |-> {byUid, byCN, byName, twice}] :
                    n \in {<<"HR">>, Missing}}
MCGraphPeople == {[id |-> i] : i \in {Missing, <<"hr-head">>}}
MCGraphTeams  == {[id |-> <<"HR">>, displayName |-> Missing], [id |-> <<"g">>, displayName |-> <<"HR">>]}
MCPoolPeople  == {[username |-> Missing, roles |-> Missing], [username |-> <<"hr-head">>, roles |-> {}]}
MCPoolTeams   == {<<"HR">>, Missing}

=============================================================================
