----------------------------- MODULE Directory -----------------------------
(***************************************************************************)
(* The commands that share the user's files: `authz identity sync` and     *)
(* `discover` write the snapshot of a directory and drafts of policies,    *)
(* `authz suggest` and `authz check` read it (crates/authz-cli/src/main.rs,*)
(* crates/authz-identity/src/adapters.rs).                                 *)
(*                                                                         *)
(* fs::write empties a file and then fills it, and nothing keeps a second  *)
(* command from doing the same meanwhile.  A snapshot goes by the command  *)
(* that wrote it.  AuditFile says what becomes of the decisions.           *)
(***************************************************************************)
EXTENDS AuditFile, Directories

CONSTANTS
    Asked,      \* sources the user names
    MaxWork,    \* bound on the decisions and commands that are started
    MaxMishaps, \* bound on the commands that fail or are killed
    None

Idps    == {"ad", "entra", "cognito"}
Sources == Idps \cup {"ldap", "local", "all"}

\* The drafts of directories; what was denied is drafted in AuditFile.
DraftNames == {"ad-sync", "entra-sync", "cognito-sync", "ldap-sync", "auto-discovered",
               "ldap-group-drafts"}

ASSUME DirectoryConstantsOK ==
    /\ IsFiniteSet(Commands)
    /\ Asked \subseteq Sources /\ MaxWork \in Nat /\ MaxMishaps \in Nat
    /\ {None, "empty", "mixed"} \cap Commands = {} /\ None \notin {"empty", "mixed"}

VARIABLES
    snapshot,   \* None, "empty", "mixed" or the command whose directory it holds
    job,        \* what each command does: nothing yet, suggest, or the source it syncs
    drafting,   \* the commands that were asked for drafts
    at,         \* where each command stands
    view,       \* the directory a suggesting command has read
    drafted,    \* [draft -> the command whose directory it was made from]
    mishaps,    \* commands that failed or were killed
    opened,     \* history: the command that emptied the snapshot last
    kept,       \* history: commands whose snapshot was written without an error
    overlapped  \* history: commands that wrote theirs beside another one

dirVars == <<snapshot, job, drafting, at, view, drafted, mishaps, opened, kept, overlapped>>

Steps == {"new", "ask", "idp draft", "empty", "fill", "draft",
          "read", "count", "groups", "denials", "over"}

DirTypeOK ==
    /\ TypeOK
    /\ snapshot \in {None, "empty", "mixed"} \cup Commands
    /\ job \in [Commands -> {"none", "suggest"} \cup Sources]
    /\ drafting \subseteq Commands
    /\ at \in [Commands -> Steps]
    /\ view \in [Commands -> Commands \cup {None}]
    /\ drafted \in [DraftNames -> Commands \cup {None}]
    /\ mishaps \in 0..MaxMishaps
    /\ opened \in Commands \cup {None}
    /\ kept \subseteq Commands /\ overlapped \subseteq Commands

DirInit ==
    /\ Init
    /\ snapshot = None
    /\ job = [c \in Commands |-> "none"] /\ drafting = {}
    /\ at = [c \in Commands |-> "new"]
    /\ view = [c \in Commands |-> None]
    /\ drafted = [n \in DraftNames |-> None]
    /\ mishaps = 0 /\ opened = None /\ kept = {} /\ overlapped = {}

Goto(c, step) == at' = [at EXCEPT ![c] = step]

\* A command is killed or an operation on a file fails, and it ends there.
Ends(c) == mishaps < MaxMishaps /\ mishaps' = mishaps + 1 /\ Goto(c, "over")

Room == Cardinality({d \in Decisions : pc[d] # "new"} \cup {c \in Commands : at[c] # "new"}) < MaxWork

-----------------------------------------------------------------------------
(***************************************************************************)
(* authz identity sync, authz identity discover                            *)
(***************************************************************************)
StartSync(c) ==
    /\ at[c] = "new" /\ Room
    /\ \E source \in Asked : job' = [job EXCEPT ![c] = source]
    /\ drafting' \in {drafting, drafting \cup {c}}
    /\ Goto(c, "ask")
    /\ UNCHANGED <<vars, snapshot, view, drafted, mishaps, opened, kept, overlapped>>

\* The directories of the demo always answer; there may be no fixtures.json.
Ask(c) ==
    /\ at[c] = "ask"
    /\ \/ Goto(c, IF c \in drafting /\ job[c] \in Idps THEN "idp draft" ELSE "empty")
       \/ job[c] = "local" /\ Goto(c, "over")
    /\ UNCHANGED <<vars, snapshot, job, drafting, view, drafted, mishaps, opened, kept, overlapped>>

SourceDraft(c) == CASE job[c] = "ad" -> "ad-sync" [] job[c] = "entra" -> "entra-sync"
                    [] job[c] = "cognito" -> "cognito-sync"

Draft(c, name, of, next) ==
    /\ Goto(c, next) /\ drafted' = [drafted EXCEPT ![name] = of]
    /\ UNCHANGED <<vars, snapshot, job, drafting, view, mishaps, opened, kept, overlapped>>

\* The draft of an identity provider is written before its snapshot.
IdpDraft(c) == at[c] = "idp draft" /\ Draft(c, SourceDraft(c), c, "empty")

Filling == {c \in Commands : at[c] = "fill"}

\* Defect: the file is not emptied.
KeptAsItIs == snapshot

Emptied == "empty"

\* fs::write opens the file, which empties it,
Empty(c) ==
    /\ at[c] = "empty"
    /\ snapshot' = Emptied /\ opened' = c
    /\ overlapped' = IF Filling # {} THEN overlapped \cup Filling \cup {c} ELSE overlapped
    /\ Goto(c, "fill")
    /\ UNCHANGED <<vars, job, drafting, view, drafted, mishaps, kept>>

\* and puts the text at its beginning. What is there already shows behind it,
\* unless it is no longer; a part of the text may be all there is.
Written(c) == IF snapshot = "empty" THEN {c} ELSE {c, "mixed"}

Fill(c) ==
    /\ at[c] = "fill"
    /\ \/ /\ snapshot' \in Written(c)
          /\ kept' = kept \cup {c}
          /\ Goto(c, IF c \in drafting THEN "draft" ELSE "over")
          /\ UNCHANGED mishaps
       \/ Ends(c) /\ snapshot' = "mixed" /\ UNCHANGED kept
    /\ UNCHANGED <<vars, job, drafting, view, drafted, opened, overlapped>>

\* Whatever the source, the drafts of its groups are called ldap-sync.
GroupDraft(c) ==
    /\ at[c] = "draft"
    /\ Draft(c, IF job[c] = "all" THEN "auto-discovered" ELSE "ldap-sync", c, "over")

-----------------------------------------------------------------------------
(***************************************************************************)
(* authz suggest                                                           *)
(***************************************************************************)
StartSuggest(c) ==
    /\ at[c] = "new" /\ Room
    /\ job' = [job EXCEPT ![c] = "suggest"]
    /\ Goto(c, "read")
    /\ UNCHANGED <<vars, snapshot, drafting, view, drafted, mishaps, opened, kept, overlapped>>

\* Defect: whatever is there is taken for a snapshot.
ReadablyOrNot == TRUE

\* A file that is empty or mixed is no JSON, and ends the command.
Readably == snapshot \in Commands \cup {None}

ReadSnapshot(c) ==
    /\ at[c] = "read"
    /\ \/ Readably /\ view' = [view EXCEPT ![c] = snapshot] /\ Goto(c, "count")
       \/ ~Readably /\ Goto(c, "over") /\ UNCHANGED view
    /\ UNCHANGED <<vars, snapshot, job, drafting, drafted, mishaps, opened, kept, overlapped>>

\* No draft is written yet, and none will be if the audit file cannot be read.
CountDenials(c) ==
    /\ at[c] = "count"
    /\ \/ Count(c) /\ Goto(c, IF view[c] = None THEN "denials" ELSE "groups")
       \/ ~IsText /\ Goto(c, "over") /\ UNCHANGED vars
    /\ UNCHANGED <<snapshot, job, drafting, view, drafted, mishaps, opened, kept, overlapped>>

\* The draft of the directory is the first to be written, if there is one.
SuggestGroups(c) == at[c] = "groups" /\ Draft(c, "ldap-group-drafts", view[c], "denials")

SuggestDenial(c) ==
    /\ at[c] = "denials"
    /\ \/ WriteDraft(c) /\ UNCHANGED <<at, mishaps>>
       \/ due[c] = {} /\ Goto(c, "over") /\ UNCHANGED <<vars, mishaps>>
    /\ UNCHANGED <<snapshot, job, drafting, view, drafted, opened, kept, overlapped>>

\* Anywhere else, the snapshot is as it was.
Interrupt(c) ==
    /\ at[c] \notin {"new", "over"} /\ Ends(c)
    /\ UNCHANGED <<vars, snapshot, job, drafting, view, drafted, opened, kept, overlapped>>

Run(c) ==
    \/ StartSync(c) \/ Ask(c) \/ IdpDraft(c) \/ Empty(c) \/ Fill(c) \/ GroupDraft(c)
    \/ StartSuggest(c) \/ ReadSnapshot(c) \/ CountDenials(c) \/ SuggestGroups(c) \/ SuggestDenial(c)
    \/ Interrupt(c)

(***************************************************************************)
(* The decisions; authz check needs a snapshot it can read, or none.       *)
(***************************************************************************)
DecideBeside(d) ==
    /\ Room
    /\ Decide(d)
    /\ server'[d] = "command" => Readably

DecisionStep(d) ==
    DecideBeside(d) \/ Open(d) \/ WriteText(d) \/ TextFails(d) \/ WriteNewline(d) \/ Answer(d)
    \/ KillCommand(d)

DirNext ==
    \/ \E c \in Commands : Run(c)
    \/ (KillGateway \/ \E d \in Decisions : DecisionStep(d)) /\ UNCHANGED dirVars

DirSpec == DirInit /\ [][DirNext]_<<vars, dirVars>>

-----------------------------------------------------------------------------
\* The snapshot is that of the command that opened it last, whole, if that command
\* wrote it without an error and beside no other: what was there before never shows
\* through, and a snapshot that cannot be read comes from a command under way, an
\* error, a kill or two commands at once (adapters.rs save_snapshot).
ReadsTheLastSync == opened \in kept \ overlapped => snapshot = opened

\* The drafts of groups were made of directories whose snapshot was saved, never of
\* one that could not be written or read; only the drafts of identity providers may
\* be of a directory that was not saved (main.rs:254-350, 518-538).
DraftsOfSavedDirectories ==
    \A n \in {"ldap-sync", "auto-discovered", "ldap-group-drafts"} :
        drafted[n] # None => drafted[n] \in kept

Ids(entries) == {entries[i].id : i \in DOMAIN entries}
Know(answers, part, id) == {i \in DOMAIN answers : id \in Ids(answers[i][part])}

\* Nobody is lost or doubled when directories are merged, and everybody is as the
\* first directory to know them has it; one that fails takes nobody away from the
\* others (idp.rs:564-578).
MergeKeepsTheFirst ==
    \A answers \in Answers, part \in {"users", "groups"} :
        LET merged == Discovered(answers)[part] IN
        /\ {x.id : x \in merged} = UNION {Ids(answers[i][part]) : i \in DOMAIN answers}
        /\ \A x, y \in merged : x.id = y.id => x = y
        /\ \A x \in merged : \E i \in Know(answers, part, x.id) :
              /\ \A j \in Know(answers, part, x.id) : i <= j
              /\ x \in {answers[i][part][k] : k \in DOMAIN answers[i][part]}

\* It holds of all answers the directories may give, and needs to be looked at once.
AtFirst == file = <<>> /\ at = [c \in Commands |-> "new"] /\ pc = [d \in Decisions |-> "new"]

IdentitiesMerge == AtFirst => MergeKeepsTheFirst

=============================================================================
