--------------------------- MODULE PolicyLanguage ---------------------------
(***************************************************************************)
(* The policy language, from the text to the verdict: parse_dsl reads a    *)
(* text line by line (crates/authz-policy/src/dsl.rs), validate_dsl checks *)
(* it, and what PolicyRules decides with the result is compared with what  *)
(* the lines say.                                                          *)
(*                                                                         *)
(* Comments, blank lines, quotes and spelling are gone: a line is what the *)
(* parser makes of it, with names in the case it gives them.               *)
(***************************************************************************)
EXTENDS PolicyRules

CONSTANTS
    Lines,          \* lines a text may be made of
    Requests,       \* requests to decide
    MaxLines        \* bound on the length of a text

Header == [kind |-> "policy"]
Bad    == [kind |-> "bad"]      \* a line the parser knows no statement for

ASSUME LanguageConstantsOK ==
    /\ Lines \subseteq Statements \cup {Header, Bad}
    /\ Requests \subseteq AllRequests
    /\ MaxLines \in Nat

-----------------------------------------------------------------------------
(***************************************************************************)
(* The parser.                                                             *)
(***************************************************************************)
VARIABLES
    read,       \* the lines read so far
    current,    \* the policy under construction: <<>> or <<policy>>
    policies,   \* the finished ones
    status      \* reading, parsed, then valid; or refused

vars == <<read, current, policies, status>>

TypeOK ==
    /\ read \in Seq(Statements \cup {Header, Bad})
    /\ current \in Seq(Partials) /\ Len(current) <= 1
    /\ policies \in Seq(Policies)
    /\ status \in {"reading", "parsed", "valid", "refused"}

Init == read = <<>> /\ current = <<>> /\ policies = <<>> /\ status = "reading"

Refuse == status' = "refused" /\ UNCHANGED <<current, policies>>

\* finish: a policy needs its effect, and with it action and resource.
Finished == current # <<>> => current[1].effect # "none"

ReadHeader ==
    /\ status = "reading" /\ Len(read) < MaxLines
    /\ Header \in Lines /\ read' = Append(read, Header)
    /\ \/ /\ Finished
          /\ policies' = policies \o current
          /\ current' = <<NewPolicy>>
          /\ UNCHANGED status
       \/ ~Finished /\ Refuse

ReadStatement ==
    /\ status = "reading" /\ Len(read) < MaxLines
    /\ \E line \in Lines \ {Header} :
          /\ read' = Append(read, line)
          /\ \/ /\ current # <<>> /\ line # Bad
                /\ current' = <<Take(current[1], line)>>
                /\ UNCHANGED <<policies, status>>
             \/ (current = <<>> \/ line = Bad) /\ Refuse

EndOfText ==
    /\ status = "reading"
    /\ UNCHANGED read
    /\ \/ /\ Finished
          /\ policies' = policies \o current
          /\ current' = <<>>
          /\ status' = "parsed"
       \/ ~Finished /\ Refuse

Validate ==
    /\ status = "parsed"
    /\ status' = IF Valid(policies) THEN "valid" ELSE "refused"
    /\ UNCHANGED <<read, current, policies>>

Next == ReadHeader \/ ReadStatement \/ EndOfText \/ Validate

Spec == Init /\ [][Next]_vars

-----------------------------------------------------------------------------
(***************************************************************************)
(* What a text says, read off its lines: a rule is a header and the lines  *)
(* up to the next one, in any order.                                       *)
(***************************************************************************)
Headers    == {i \in DOMAIN read : read[i] = Header}
Block(i)   == {j \in i+1..Len(read) : \A k \in i+1..j : k \notin Headers}
Said(i, K) == {read[j] : j \in {k \in Block(i) : read[k].kind \in K}}

RolesSaid(i, kind) == UNION {line.roles : line \in Said(i, {kind})}
SubjectsSaid(i)    == {line.subject : line \in {l \in Said(i, {"where", "or"}) : "subject" \in DOMAIN l}}
GroupsSaid(i)      == {line.group : line \in {l \in Said(i, {"where", "or"}) : "group" \in DOMAIN l}}

EffectLines(i) == {j \in Block(i) : read[j].kind = "effect"}
EffectSaid(i)  == read[CHOOSE j \in EffectLines(i) : \A k \in EffectLines(i) : k <= j]

ReportsTo(q) ==
    \/ [kind |-> "direct_reports", from |-> q.principal, to |-> q.subject.id] \in q.relationships
    \/ [kind |-> "manager_of", from |-> q.principal, to |-> q.subject.id] \in q.relationships

Means(s, q) ==
    /\ q.subject # NoSubject
    /\ \/ s = "SELF" /\ q.subject.id = q.principal
       \/ s = "DIRECT_REPORTS" /\ ReportsTo(q)
       \/ s = q.subject.id

RolesFit(i, q) ==
    /\ RolesSaid(i, "when") # {} => RolesSaid(i, "when") \cap q.roles # {}
    /\ RolesSaid(i, "unless") \cap q.roles = {}

Applies(i, q) ==
    /\ EffectSaid(i).action = q.action /\ EffectSaid(i).resource = q.resource
    /\ RolesFit(i, q)
    /\ SubjectsSaid(i) # {} => \E s \in SubjectsSaid(i) : Means(s, q)
    /\ GroupsSaid(i) # {} => GroupsSaid(i) \cap q.subject.groups # {}

Allowing(q) == {i \in Headers : Applies(i, q) /\ EffectSaid(i).effect = "allow"}
Denying(q)  == {i \in Headers : Applies(i, q) /\ EffectSaid(i).effect # "allow"}

WellFormed ==
    /\ read # <<>> /\ 1 \in Headers
    /\ \A j \in DOMAIN read : read[j] # Bad
    /\ \A i \in Headers : /\ EffectLines(i) # {}
                          /\ EffectSaid(i).action \in SchemaActions
                          /\ SubjectsSaid(i) \cap Ids = {}

(***************************************************************************)
(* Properties.                                                             *)
(***************************************************************************)
\* A text is committed exactly if every rule of it is complete and known to the
\* schema: no statement of the previous rule leaks into the next, and no
\* unfinished rule is dropped (dsl.rs:44-109, store.rs:63-72).
AcceptsTheWellFormed ==
    /\ status = "valid" => WellFormed
    /\ status = "refused" => ~WellFormed

\* A request that brings no value of its own for what the rules read about action,
\* resource and subject; what it says of the principal's roles and groups is void.
BringsNothing(q) == Brings(q) \subseteq {"principal_roles", "principal_groups"}

\* The verdict of parser, translation and evaluation together is the one the
\* text states: allowed by some rule and denied by none (docs/POLICY_GUIDE.md:72-74),
\* unless the request brings values that take the place of computed ones
\* (evaluate.rs:103-105). Even then nothing is allowed but by a rule that allows the
\* action, to principals with these very roles.
MeansWhatItSays ==
    status = "valid" => \A q \in Requests : q.principal # "" /\ ~q.garbled =>
        /\ BringsNothing(q) =>
              (Decide(policies, q) = "ALLOW" <=> Allowing(q) # {} /\ Denying(q) = {})
        /\ Decide(policies, q) = "ALLOW" =>
              \E i \in Headers : /\ EffectSaid(i).effect = "allow"
                                 /\ EffectSaid(i).action = q.action /\ RolesFit(i, q)

\* No rule is skipped, whether or not the request has a subject (evaluate.rs:90-102),
\* but by a request that brings a value for what a rule takes for a flag or a list; a
\* deny rule that is skipped denies nothing.
NeverSkipsARule ==
    status = "valid" => \A q \in Requests : \A i \in DOMAIN policies :
        Skipped(policies[i], q) =>
            Brings(q) \cap {"subject_is_self", "subject_in_direct_reports",
                                   "subject_groups"} # {}

\* The evidence names the rules that decided, all of them, and no others
\* (evaluate.rs:159-172), for the same requests.
HeaderOf(k) == CHOOSE i \in Headers : Cardinality({h \in Headers : h <= i}) = k
EvidenceAsWritten ==
    status = "valid" => \A q \in Requests : BringsNothing(q) =>
        {HeaderOf(k) : k \in Reasons(policies, q)} =
            IF Denying(q) # {} THEN Denying(q) ELSE Allowing(q)

=============================================================================
