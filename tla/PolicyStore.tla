---------------------------- MODULE PolicyStore ----------------------------
(***************************************************************************)
(* The policy directory of crates/authz-policy (store.rs, sign.rs) under   *)
(* concurrent runs of the authz command line: commit, sign and deploy.     *)
(*                                                                         *)
(* There is no lock.  A command is a sequence of file reads and of         *)
(* fs::write calls, and fs::write truncates the file before it fills it:   *)
(* every action below touches one file once.  A command may break off      *)
(* anywhere, inside a write too: it is killed, or an operation fails.      *)
(***************************************************************************)
EXTENDS Naturals

CONSTANTS
    Clis,       \* runs of the authz command going on side by side
    Contents,   \* policy texts an operator may put into active.dsl
    Invalid,    \* those validate_dsl refuses
    Keys,       \* key pairs LocalEd25519Signer::generate may draw
    Paths,      \* key files a command may be told to use, --key-path
    DefaultPath,\* data/keys/signing.json
    MaxClock,   \* bound on the seconds that pass
    MaxMishaps, \* bound on the commands that break off half way
    Absent,     \* the file does not exist
    Empty,      \* the file is truncated, and not yet or only partly filled
    Garbled,    \* two writers left a mixture of two JSON texts
    NoBundle,   \* a revision that is not signed
    NoSigner    \* a command that holds no key

\* A revision is named by the hash of its Cedar text, its message (one value
\* here) and the current second; what it holds is that text.
Seconds   == 0..MaxClock
RevIds    == (Contents \ Invalid) \X Seconds
Bundles   == [rev : RevIds, content : Contents, key : Keys]
Revisions == [id : RevIds, content : Contents, bundle : Bundles \cup {NoBundle}]

ASSUME StoreConstantsOK ==
    /\ Invalid \subseteq Contents
    /\ MaxClock \in Nat /\ MaxMishaps \in Nat
    /\ DefaultPath \in Paths
    /\ NoSigner \notin Keys
    /\ NoBundle \notin Bundles
    /\ {Absent, Empty, Garbled} \cap (Keys \cup Contents \cup RevIds \cup Revisions) = {}
    /\ Absent # Empty /\ Absent # Garbled /\ Empty # Garbled

VARIABLES
    active,     \* active.dsl
    head,       \* HEAD
    revs,       \* revisions/<id>.json
    deployed,   \* deployed/current.json
    keyfile,    \* [path -> what the key file there holds]
    drawn,      \* key pairs generated so far
    clock,      \* the current second
    mishaps,    \* commands that broke off so far
    pc,         \* what each command does next
    job,        \* which command it is
    id,         \* the revision it works on
    rev,        \* that revision as it will be written
    signer,     \* the key it signs with
    path,       \* the key file it was told to use
    overlapped  \* history: a file was truncated that another command was filling

files  == <<active, head, revs, deployed, keyfile>>
locals == <<job, id, rev, signer, path>>
vars   == <<files, drawn, clock, mishaps, pc, locals, overlapped>>

Jobs == {"commit", "sign", "deploy"}
PCs  == {"idle", "rev.trunc", "rev.fill", "head.trunc", "head.fill", "key.trunc",
         "key.fill", "sign.head", "load", "deploy.trunc", "deploy.fill"}

NoRev == [id |-> <<>>, content |-> <<>>, bundle |-> NoBundle]

TypeOK ==
    /\ active \in Contents \cup {Absent}
    /\ head \in RevIds \cup {Absent, Empty}
    /\ revs \in [RevIds -> Revisions \cup {Absent, Empty, Garbled}]
    /\ deployed \in Revisions \cup {Absent, Empty, Garbled}
    /\ keyfile \in [Paths -> Keys \cup {Absent, Empty}]
    /\ drawn \subseteq Keys
    /\ clock \in Seconds /\ mishaps \in 0..MaxMishaps
    /\ pc \in [Clis -> PCs]
    /\ job \in [Clis -> Jobs]
    /\ id \in [Clis -> RevIds \cup {<<>>}]
    /\ rev \in [Clis -> Revisions \cup {NoRev}]
    /\ signer \in [Clis -> Keys \cup {NoSigner}]
    /\ path \in [Clis -> Paths]
    /\ overlapped \in BOOLEAN

Init ==
    /\ active = Absent /\ head = Absent /\ deployed = Absent
    /\ keyfile = [p \in Paths |-> Absent]
    /\ revs = [i \in RevIds |-> Absent]
    /\ drawn = {}
    /\ clock = 0 /\ mishaps = 0
    /\ pc = [c \in Clis |-> "idle"]
    /\ job = [c \in Clis |-> "commit"]
    /\ id = [c \in Clis |-> <<>>]
    /\ rev = [c \in Clis |-> NoRev]
    /\ signer = [c \in Clis |-> NoSigner]
    /\ path = [c \in Clis |-> DefaultPath]
    /\ overlapped = FALSE

-----------------------------------------------------------------------------
Move(c, l) == pc' = [pc EXCEPT ![c] = l]

\* A command that ends, well or not, forgets what it held.
Stop(c) ==
    /\ Move(c, "idle")
    /\ job' = [job EXCEPT ![c] = "commit"]
    /\ id' = [id EXCEPT ![c] = <<>>]
    /\ rev' = [rev EXCEPT ![c] = NoRev]
    /\ signer' = [signer EXCEPT ![c] = NoSigner]
    /\ path' = [path EXCEPT ![c] = DefaultPath]

\* The commands that are about to fill a file.
Filling(l)  == {c \in Clis : pc[c] = l}
Writing(i)  == {c \in Filling("rev.fill") : id[c] = i}
KeyAt(p)    == {c \in Filling("key.fill") : path[c] = p}

Truncates(fillers) == overlapped' = (overlapped \/ fillers # {})

\* What a file of JSON holds after a fill: two writers that truncated it one
\* after the other may leave the end of the longer text behind the shorter.
Filled(old, new) == IF old = Empty THEN {new} ELSE {new, Garbled}

Bundle(i, content, k) == [rev |-> i, content |-> content, key |-> k]

(***************************************************************************)
(* The operator edits active.dsl, and time passes.                         *)
(***************************************************************************)
EditActive ==
    /\ \E t \in Contents \ {active} : active' = t
    /\ UNCHANGED <<head, revs, deployed, keyfile, drawn, clock, mishaps, pc, locals, overlapped>>

Tick ==
    /\ clock < MaxClock
    /\ clock' = clock + 1
    /\ UNCHANGED <<files, drawn, mishaps, pc, locals, overlapped>>

(***************************************************************************)
(* commit: validate active.dsl, write the revision, then name it in HEAD.  *)
(***************************************************************************)
\* Defect: HEAD names the revision and its file is left for later.
CommitHeadFirst(c) ==
    /\ pc[c] = "idle"
    /\ active \in Contents \ Invalid
    /\ id' = [id EXCEPT ![c] = <<active, clock>>]
    /\ Move(c, "head.trunc")
    /\ UNCHANGED <<files, drawn, clock, mishaps, job, rev, signer, path, overlapped>>

Commit(c) ==
    /\ pc[c] = "idle"
    /\ active \in Contents \ Invalid
    /\ job' = [job EXCEPT ![c] = "commit"]
    /\ id' = [id EXCEPT ![c] = <<active, clock>>]
    /\ rev' = [rev EXCEPT ![c] = [id |-> <<active, clock>>, content |-> active,
                                  bundle |-> NoBundle]]
    /\ Move(c, "rev.trunc")
    /\ UNCHANGED <<files, drawn, clock, mishaps, signer, path, overlapped>>

TruncateRevision(c) ==
    /\ pc[c] = "rev.trunc"
    /\ revs' = [revs EXCEPT ![id[c]] = Empty]
    /\ Move(c, "rev.fill")
    /\ Truncates(Writing(id[c]))
    /\ UNCHANGED <<active, head, deployed, keyfile, drawn, clock, mishaps, locals>>

FillRevision(c) ==
    /\ pc[c] = "rev.fill"
    /\ \E f \in Filled(revs[id[c]], rev[c]) : revs' = [revs EXCEPT ![id[c]] = f]
    /\ \/ job[c] = "commit" /\ Move(c, "head.trunc") /\ UNCHANGED locals
       \/ job[c] = "sign" /\ Stop(c)
    /\ UNCHANGED <<active, head, deployed, keyfile, drawn, clock, mishaps, overlapped>>

TruncateHead(c) ==
    /\ pc[c] = "head.trunc"
    /\ head' = Empty
    /\ Move(c, "head.fill")
    /\ Truncates(Filling("head.fill"))
    /\ UNCHANGED <<active, revs, deployed, keyfile, drawn, clock, mishaps, locals>>

FillHead(c) ==
    /\ pc[c] = "head.fill"
    /\ head' = id[c]
    /\ Stop(c)
    /\ UNCHANGED <<active, revs, deployed, keyfile, drawn, clock, mishaps, overlapped>>

(***************************************************************************)
(* sign: take the key of the key file, or make one; then sign what HEAD    *)
(* names and write the revision again.                                     *)
(***************************************************************************)
UseKey(c) ==
    /\ pc[c] = "idle"
    /\ \E p \in Paths : /\ keyfile[p] \in Keys
                       /\ signer' = [signer EXCEPT ![c] = keyfile[p]]
                       /\ path' = [path EXCEPT ![c] = p]
    /\ job' = [job EXCEPT ![c] = "sign"]
    /\ Move(c, "sign.head")
    /\ UNCHANGED <<files, drawn, clock, mishaps, id, rev, overlapped>>

GenerateKey(c) ==
    /\ pc[c] = "idle"
    /\ \E p \in Paths : keyfile[p] = Absent /\ path' = [path EXCEPT ![c] = p]
    /\ \E k \in Keys \ drawn : /\ drawn' = drawn \cup {k}
                               /\ signer' = [signer EXCEPT ![c] = k]
    /\ job' = [job EXCEPT ![c] = "sign"]
    /\ Move(c, "key.trunc")
    /\ UNCHANGED <<files, clock, mishaps, id, rev, overlapped>>

TruncateKey(c) ==
    /\ pc[c] = "key.trunc"
    /\ keyfile' = [keyfile EXCEPT ![path[c]] = Empty]
    /\ Move(c, "key.fill")
    /\ Truncates(KeyAt(path[c]))
    /\ UNCHANGED <<active, head, revs, deployed, drawn, clock, mishaps, locals>>

FillKey(c) ==
    /\ pc[c] = "key.fill"
    /\ keyfile' = [keyfile EXCEPT ![path[c]] = signer[c]]
    /\ Move(c, "sign.head")
    /\ UNCHANGED <<active, head, revs, deployed, drawn, clock, mishaps, locals, overlapped>>

\* A missing or empty HEAD ends the command.
SignHead(c) ==
    /\ pc[c] = "sign.head"
    /\ \/ /\ head \in RevIds
          /\ id' = [id EXCEPT ![c] = head]
          /\ Move(c, "load")
          /\ UNCHANGED <<job, rev, signer, path>>
       \/ head \notin RevIds /\ Stop(c)
    /\ UNCHANGED <<files, drawn, clock, mishaps, overlapped>>

(***************************************************************************)
(* deploy: copy the revision HEAD names, if it is signed.                  *)
(***************************************************************************)
Deploy(c) ==
    /\ pc[c] = "idle"
    /\ head \in RevIds
    /\ job' = [job EXCEPT ![c] = "deploy"]
    /\ id' = [id EXCEPT ![c] = head]
    /\ Move(c, "load")
    /\ UNCHANGED <<files, drawn, clock, mishaps, rev, signer, path, overlapped>>

\* Defect: the text that is signed is the one under edit, not the committed one.
SignActive(c) ==
    LET r == revs[id[c]] IN
    /\ pc[c] = "load" /\ job[c] = "sign"
    /\ r \in Revisions
    /\ rev' = [rev EXCEPT ![c] = [r EXCEPT !.bundle = Bundle(r.id, active, signer[c])]]
    /\ Move(c, "rev.trunc")
    /\ UNCHANGED <<files, drawn, clock, mishaps, job, id, signer, path, overlapped>>

\* load_revision fails on a file that is missing, empty or garbled.
LoadToSign(c) ==
    LET r == revs[id[c]] IN
    /\ pc[c] = "load" /\ job[c] = "sign"
    /\ \/ /\ r \in Revisions
          /\ rev' = [rev EXCEPT ![c] = [r EXCEPT !.bundle = Bundle(r.id, r.content, signer[c])]]
          /\ Move(c, "rev.trunc")
          /\ UNCHANGED <<job, id, signer, path>>
       \/ r \notin Revisions /\ Stop(c)
    /\ UNCHANGED <<files, drawn, clock, mishaps, overlapped>>

Deployable(r) == r \in Revisions /\ r.bundle # NoBundle

\* Defect: the target is opened for writing before the revision is examined.
OpenThenLoad(c) ==
    LET r == revs[id[c]] IN
    /\ pc[c] = "load" /\ job[c] = "deploy"
    /\ deployed' = Empty
    /\ \/ /\ Deployable(r)
          /\ rev' = [rev EXCEPT ![c] = r]
          /\ Move(c, "deploy.trunc")
          /\ UNCHANGED <<job, id, signer, path>>
       \/ ~Deployable(r) /\ Stop(c)
    /\ UNCHANGED <<active, head, revs, keyfile, drawn, clock, mishaps, overlapped>>

LoadToDeploy(c) ==
    LET r == revs[id[c]] IN
    /\ pc[c] = "load" /\ job[c] = "deploy"
    /\ \/ /\ Deployable(r)
          /\ rev' = [rev EXCEPT ![c] = r]
          /\ Move(c, "deploy.trunc")
          /\ UNCHANGED <<job, id, signer, path>>
       \/ ~Deployable(r) /\ Stop(c)
    /\ UNCHANGED <<files, drawn, clock, mishaps, overlapped>>

TruncateDeployed(c) ==
    /\ pc[c] = "deploy.trunc"
    /\ deployed' = Empty
    /\ Move(c, "deploy.fill")
    /\ Truncates(Filling("deploy.fill"))
    /\ UNCHANGED <<active, head, revs, keyfile, drawn, clock, mishaps, locals>>

FillDeployed(c) ==
    /\ pc[c] = "deploy.fill"
    /\ \E f \in Filled(deployed, rev[c]) : deployed' = f
    /\ Stop(c)
    /\ UNCHANGED <<active, head, revs, keyfile, drawn, clock, mishaps, overlapped>>

\* What a write leaves that breaks off where another command filled the file
\* meanwhile: a mixture of both texts, which names no revision and is no key.
Mixed(c) ==
    \/ /\ pc[c] = "rev.fill" /\ revs[id[c]] # Empty
       /\ revs' = [revs EXCEPT ![id[c]] = Garbled]
       /\ UNCHANGED <<active, head, deployed, keyfile>>
    \/ /\ pc[c] = "head.fill" /\ head # Empty /\ head' = Empty
       /\ UNCHANGED <<active, revs, deployed, keyfile>>
    \/ /\ pc[c] = "deploy.fill" /\ deployed # Empty /\ deployed' = Garbled
       /\ UNCHANGED <<active, head, revs, keyfile>>
    \/ /\ pc[c] = "key.fill" /\ keyfile[path[c]] # Empty
       /\ keyfile' = [keyfile EXCEPT ![path[c]] = Empty]
       /\ UNCHANGED <<active, head, revs, deployed>>

\* The command is killed, or an operation on a file fails and its error ends the
\* command: before it, or inside a write.  What was truncated stays truncated.
BreakOff(c) ==
    /\ pc[c] # "idle"
    /\ mishaps < MaxMishaps
    /\ mishaps' = mishaps + 1
    /\ Mixed(c) \/ UNCHANGED files
    /\ Stop(c)
    /\ UNCHANGED <<drawn, clock, overlapped>>

Command(c) ==
    \/ Commit(c) \/ TruncateRevision(c) \/ FillRevision(c) \/ TruncateHead(c) \/ FillHead(c)
    \/ UseKey(c) \/ GenerateKey(c) \/ TruncateKey(c) \/ FillKey(c) \/ SignHead(c)
    \/ Deploy(c) \/ LoadToSign(c) \/ LoadToDeploy(c) \/ TruncateDeployed(c)
    \/ FillDeployed(c) \/ BreakOff(c)

Next == EditActive \/ Tick \/ \E c \in Clis : Command(c)

Spec == Init /\ [][Next]_vars

-----------------------------------------------------------------------------
(***************************************************************************)
(* Properties.                                                             *)
(***************************************************************************)
\* commit writes the revision before it names it in HEAD (store.rs:92-93):
\* whatever the commands interleave or die at, HEAD never names a revision
\* whose file was never written.
HeadResolves == head \in RevIds => revs[head] # Absent

\* What deploy_head copies to deployed/current.json is a revision as commit
\* named it and as sign_head signed it: the signature covers this revision and
\* the very text the proxy will parse (rev.cedar, not bundle.cedar), whichever
\* commits, signatures and re-commits within one second ran beside it.
Signs(b, r) == b # NoBundle /\ b.rev = r.id /\ b.content = r.content

DeployedIsSigned ==
    deployed \in Revisions => deployed.content = deployed.id[1] /\ Signs(deployed.bundle, deployed)

\* While every command runs to its end, a file is seen truncated only between its
\* truncation and its fill: a torn file that stays is the work of a command that
\* was killed or met an error.  And two texts are mixed only if one command
\* truncated what another one was filling.
WholeUnlessBroken ==
    /\ mishaps = 0 =>
          /\ head = Empty => Filling("head.fill") # {}
          /\ \A p \in Paths : keyfile[p] = Empty => KeyAt(p) # {}
          /\ deployed = Empty => Filling("deploy.fill") # {}
          /\ \A i \in RevIds : revs[i] = Empty => Writing(i) # {}
    /\ ~overlapped => deployed # Garbled /\ \A i \in RevIds : revs[i] # Garbled

\* The strengthening of the first two: what the files and the commands hold is
\* well named and, where it is signed, signed as it stands; a command that
\* works on a revision does so after the revision's file was first written.
WellFormed(r) ==
    /\ r.content = r.id[1]
    /\ r.bundle # NoBundle => Signs(r.bundle, r)

RevsInv == \A i \in RevIds : revs[i] \in Revisions => revs[i].id = i /\ WellFormed(revs[i])

DeployInv == deployed \in Revisions => WellFormed(deployed) /\ deployed.bundle # NoBundle

JobInv(c) ==
    /\ pc[c] \notin {"idle", "key.trunc", "key.fill", "sign.head"} => id[c] \in RevIds
    /\ pc[c] \in {"rev.fill", "head.trunc", "head.fill", "load"} => revs[id[c]] # Absent
    /\ pc[c] \in {"rev.trunc", "rev.fill", "deploy.trunc", "deploy.fill"} =>
          rev[c] \in Revisions /\ rev[c].id = id[c] /\ WellFormed(rev[c])
    /\ pc[c] \in {"rev.trunc", "rev.fill"} => job[c] \in {"commit", "sign"}
    /\ pc[c] \in {"deploy.trunc", "deploy.fill"} => rev[c].bundle # NoBundle
    /\ pc[c] \in {"key.trunc", "key.fill", "sign.head"} => signer[c] \in Keys
    /\ pc[c] = "load" /\ job[c] = "sign" => signer[c] \in Keys

StoreInv == HeadResolves /\ RevsInv /\ DeployInv /\ \A c \in Clis : JobInv(c)

-----------------------------------------------------------------------------
(***************************************************************************)
(* What a command that is alone and does not break off amounts to. From its*)
(* first step on, the files are seen as it will leave them.                *)
(***************************************************************************)
\* The command, where there is no other.
Only == CHOOSE c \in Clis : TRUE

SignedBy(r, k) == [r EXCEPT !.bundle = Bundle(r.id, r.content, k)]

\* What it has begun to do.
Committing  == pc[Only] \in {"rev.trunc", "rev.fill", "head.trunc", "head.fill"} /\ job[Only] = "commit"
Rewriting   == pc[Only] \in {"rev.trunc", "rev.fill"}
ToSign      == \/ pc[Only] \in {"key.trunc", "key.fill", "sign.head"}
               \/ pc[Only] = "load" /\ job[Only] = "sign"
ToDeploy    == pc[Only] = "load" /\ job[Only] = "deploy" /\ Deployable(revs[id[Only]])

\* The files as the command will leave them.
HeadAfter == IF Committing THEN id[Only] ELSE head

RevsAfter ==
    IF Rewriting THEN [revs EXCEPT ![id[Only]] = rev[Only]]
    ELSE IF ToSign /\ head \in RevIds THEN [revs EXCEPT ![head] = SignedBy(@, signer[Only])]
    ELSE revs

DeployedAfter ==
    IF pc[Only] \in {"deploy.trunc", "deploy.fill"} THEN rev[Only]
    ELSE IF ToDeploy THEN revs[head]
    ELSE deployed

KeyAfter ==
    IF pc[Only] \in {"key.trunc", "key.fill"} THEN [keyfile EXCEPT ![path[Only]] = signer[Only]]
    ELSE keyfile

Commands == INSTANCE PolicyCommands
    WITH head <- HeadAfter, revs <- RevsAfter, deployed <- DeployedAfter, keys <- KeyAfter

\* The strengthening: the files are whole except the one under the hand of the
\* command, and what the command works on is what HEAD and the key file say.
SoloInv ==
    /\ head = Empty => pc[Only] = "head.fill"
    /\ \A p \in Paths : keyfile[p] = Empty <=> pc[Only] = "key.fill" /\ path[Only] = p
    /\ pc[Only] = "key.trunc" => keyfile[path[Only]] = Absent
    /\ \A i \in RevIds : revs[i] \in {Empty, Garbled} =>
          revs[i] = Empty /\ pc[Only] = "rev.fill" /\ id[Only] = i
    /\ pc[Only] = "rev.fill" => revs[id[Only]] = Empty
    /\ pc[Only] = "deploy.fill" => deployed = Empty
    /\ pc[Only] \in {"load", "rev.trunc", "rev.fill"} /\ job[Only] = "sign" => id[Only] = head
    /\ pc[Only] = "load" => id[Only] = head /\ job[Only] # "commit"
    /\ pc[Only] \in {"head.trunc", "head.fill"} => job[Only] = "commit"
    /\ pc[Only] \in {"sign.head", "key.trunc", "key.fill"} => job[Only] = "sign"

=============================================================================
