----------------------------- MODULE AuditFile -----------------------------
(***************************************************************************)
(* The audit file (crates/authz-suggest/src/audit.rs): one JSON record per *)
(* line, appended without a lock by the handlers of the gateway and by     *)
(* `authz check`, and read by the proxy's board, by `authz suggest` and    *)
(* by `authz explain`.                                                     *)
(*                                                                         *)
(* The file is opened for appending, so that a write adds to its end; but  *)
(* writeln! writes the record and the newline one after the other.         *)
(***************************************************************************)
EXTENDS Naturals, Sequences, FiniteSets

CONSTANTS
    Decisions,  \* decisions to be made, by their ids
    Legacy,     \* decisions an older version wrote, without a record around them
    Denials,    \* the decisions that deny
    About,      \* [decision -> action and resource of its request]
    Commands,   \* commands of the user, by their ids, that may be `authz suggest`
    MaxFaults,  \* bound on the file operations that fail
    MaxKills    \* bound on the processes that are killed

All     == Decisions \cup Legacy
Topics  == {About[d] : d \in All}
Newline == "newline"
Torn    == "torn"       \* a part of a record
Cut     == "cut"        \* one that ends inside a character

ASSUME FileConstantsOK ==
    /\ IsFiniteSet(All) /\ Decisions \cap Legacy = {}
    /\ {Newline, Torn, Cut} \cap All = {}
    /\ Denials \subseteq All
    /\ About = [d \in All |-> About[d]]
    /\ MaxFaults \in Nat /\ MaxKills \in Nat

VARIABLES
    file,       \* what has been written, in order
    pc,         \* where the task that makes each decision stands
    server,     \* who makes it: the gateway or a command
    known,      \* decisions in the memory of the gateway
    told,       \* decisions that were answered
    due,        \* what each `authz suggest` has yet to draft
    drafts,     \* what drafts of deny policies are about
    faults, kills,
    saved,      \* history: decisions whose append returned without an error
    crowded     \* history: decisions that were appended beside another one

history == <<saved, crowded>>
vars    == <<file, pc, server, known, told, due, drafts, faults, kills, history>>

TypeOK ==
    /\ file \in Seq(All \cup {Newline, Torn, Cut})
    /\ pc \in [Decisions -> {"new", "open", "text", "newline", "answer", "over"}]
    /\ server \in [Decisions -> {"none", "gateway", "command"}]
    /\ known \subseteq told /\ told \subseteq Decisions
    /\ due \in [Commands -> SUBSET Topics]
    /\ drafts \subseteq {About[d] : d \in Denials}
    /\ faults \in 0..MaxFaults /\ kills \in 0..MaxKills
    /\ saved \subseteq Decisions /\ crowded \subseteq Decisions

Init ==
    /\ file \in {<<>>} \cup {<<d, Newline>> : d \in Legacy}
    /\ pc = [d \in Decisions |-> "new"]
    /\ server = [d \in Decisions |-> "none"]
    /\ known = {} /\ told = {} /\ due = [c \in Commands |-> {}] /\ drafts = {}
    /\ faults = 0 /\ kills = 0
    /\ saved = {} /\ crowded = {}

Move(d, l) == pc' = [pc EXCEPT ![d] = l]
Fault      == faults < MaxFaults /\ faults' = faults + 1

-----------------------------------------------------------------------------
(***************************************************************************)
(* The readers take the whole file for one string, and read nothing if it  *)
(* is none.  A line is a record if there is one on it and nothing else.    *)
(***************************************************************************)
IsText == \A i \in DOMAIN file : file[i] # Cut

OnItsLine == {i \in DOMAIN file :
                 /\ file[i] \in All
                 /\ i = 1 \/ file[i-1] = Newline
                 /\ i = Len(file) \/ file[i+1] = Newline}

Readable == IF IsText THEN OnItsLine ELSE {}

Read == {file[i] : i \in Readable}

\* `authz explain` takes the line of the decision, but for an AuthzDecision.
Explained(d) == \E i \in Readable : file[i] = d /\ d \in Legacy

Denied(topic) == {i \in Readable : file[i] \in Denials /\ About[file[i]] = topic}

\* Defect: one denial is enough.
SuggestedAtOnce == {topic \in Topics : Denied(topic) # {}}

Suggested == {topic \in Topics : Cardinality(Denied(topic)) >= 2}

-----------------------------------------------------------------------------
(***************************************************************************)
(* The writers.  Every error of an append is dropped.                      *)
(***************************************************************************)
Decide(d) ==
    /\ pc[d] = "new"
    /\ \E s \in {"gateway", "command"} : server' = [server EXCEPT ![d] = s]
    /\ Move(d, "open")
    /\ UNCHANGED <<file, known, told, due, drafts, faults, kills, history>>

Open(d) ==
    /\ pc[d] = "open"
    /\ \/ Move(d, "text") /\ UNCHANGED faults
       \/ Move(d, "answer") /\ Fault
    /\ UNCHANGED <<file, server, known, told, due, drafts, kills, history>>

\* Those between their record and their newline.
Halfway    == {d \in Decisions : pc[d] = "newline"}
LineIsOpen == file # <<>> /\ file[Len(file)] # Newline

\* Defect: fs::write in place of an append.
Overwritten(text) == <<text>>

Extended(text) == Append(file, text)

WriteText(d) ==
    /\ pc[d] = "text"
    /\ file' = Extended(d)
    /\ Move(d, "newline")
    /\ crowded' = IF Halfway # {} \/ LineIsOpen THEN crowded \cup Halfway \cup {d} ELSE crowded
    /\ UNCHANGED <<server, known, told, due, drafts, faults, kills, saved>>

\* A write that fails or is killed leaves a part of the record or nothing.
BrokenOff ==
    \/ file' \in {Extended(Torn), Extended(Cut)} /\ crowded' = crowded \cup Halfway
    \/ UNCHANGED <<file, crowded>>

TextFails(d) ==
    /\ pc[d] = "text"
    /\ BrokenOff
    /\ Move(d, "answer")
    /\ Fault
    /\ UNCHANGED <<server, known, told, due, drafts, kills, saved>>

WriteNewline(d) ==
    /\ pc[d] = "newline"
    /\ \/ file' = Extended(Newline) /\ saved' = saved \cup {d} /\ UNCHANGED faults
       \/ Fault /\ UNCHANGED <<file, saved>>
    /\ Move(d, "answer")
    /\ UNCHANGED <<server, known, told, due, drafts, kills, crowded>>

\* The gateway keeps the decision in memory; the client learns its id.
Answer(d) ==
    /\ pc[d] = "answer"
    /\ told' = told \cup {d}
    /\ known' = IF server[d] = "gateway" THEN known \cup {d} ELSE known
    /\ Move(d, "over")
    /\ UNCHANGED <<file, server, due, drafts, faults, kills, history>>

UnderWay(d) == pc[d] \notin {"new", "over"}

\* The gateway ends with every handler and its memory; another one is started.
KillGateway ==
    /\ kills < MaxKills /\ kills' = kills + 1
    /\ known' = {}
    /\ pc' = [d \in Decisions |->
                IF UnderWay(d) /\ server[d] = "gateway" THEN "over" ELSE pc[d]]
    /\ \/ BrokenOff /\ \E d \in Decisions : pc[d] = "text" /\ server[d] = "gateway"
       \/ UNCHANGED <<file, crowded>>
    /\ UNCHANGED <<server, told, due, drafts, faults, saved>>

KillCommand(d) ==
    /\ kills < MaxKills /\ kills' = kills + 1
    /\ UnderWay(d) /\ server[d] = "command"
    /\ Move(d, "over")
    /\ \/ BrokenOff /\ pc[d] = "text"
       \/ UNCHANGED <<file, crowded>>
    /\ UNCHANGED <<server, known, told, due, drafts, faults, saved>>

\* `authz suggest` counts the denials of all records, then writes its drafts one
\* after the other; it may end in between.
Count(c) ==
    /\ IsText
    /\ due' = [due EXCEPT ![c] = Suggested]
    /\ UNCHANGED <<file, pc, server, known, told, drafts, faults, kills, history>>

WriteDraft(c) ==
    /\ \E topic \in due[c] : /\ drafts' = drafts \cup {topic}
                             /\ due' = [due EXCEPT ![c] = @ \ {topic}]
    /\ UNCHANGED <<file, pc, server, known, told, faults, kills, history>>

Next ==
    \/ \E d \in Decisions :
          \/ Decide(d) \/ Open(d) \/ WriteText(d) \/ TextFails(d) \/ WriteNewline(d)
          \/ Answer(d) \/ KillCommand(d)
    \/ \E c \in Commands : Count(c) \/ WriteDraft(c)
    \/ KillGateway

Spec == Init /\ [][Next]_vars

-----------------------------------------------------------------------------
\* A record whose append succeeded is read by everybody from then on, unless
\* another append was between its record and its newline at the same time, or an
\* earlier one broke off there, or any append at all broke off inside a character,
\* after which nobody reads anything (audit.rs:60-64, 78-90).
ReadUnlessCrowded == IsText => saved \ crowded \subseteq Read

\* Once a record has a line to itself, newline included, no later append, failure
\* or kill makes it unreadable, but one that breaks off inside a character; before
\* its newline a record that could be read may become unreadable.
Settled == {file[i] : i \in {j \in Readable : j < Len(file)}}
SettledStays == [][IsText' => Settled \subseteq Settled']_file

\* A draft that denies something was earned by two decisions that denied it,
\* whatever lines the file lost (authz-suggest/src/lib.rs:42-75).
SuggestionsEarned ==
    \A topic \in drafts :
        \E d, e \in Denials : d # e /\ About[d] = topic /\ About[e] = topic
                              /\ \A f \in {d, e} : f \in Legacy \/ pc[f] # "new"

(***************************************************************************)
(* What a comment says and the code does not do.                           *)
(***************************************************************************)
\* audit.rs:26, decision_full is the "Full decision evidence for `authz explain`":
\* a record that can be read can be explained.  The command looks for an
\* AuthzDecision on the line, which only an older version wrote.
ExplainsRecords == \A d \in Read : Explained(d)

=============================================================================
