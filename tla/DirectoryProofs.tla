-------------------------- MODULE DirectoryProofs --------------------------
(***************************************************************************)
(* Whatever commands run beside each other: types are kept, what was       *)
(* proved of the audit file holds, a sync that writes alone is read whole, *)
(* and groups are only drafted from directories that were saved.  And      *)
(* whatever directories answer, merging them loses and doubles nobody.     *)
(***************************************************************************)
EXTENDS Directory, AuditFileProofs, SequenceTheorems, WellFoundedInduction

allVars == <<vars, dirVars>>

\* A step of a command or of a decision is a step of the audit file, or none.
LEMMA EveryStepIsOfTheFile == [DirNext]_allVars => [Next]_vars
<1> SUFFICES ASSUME [DirNext]_allVars
             PROVE  [Next]_vars
  OBVIOUS
<1>1. ASSUME NEW c \in Commands, Run(c)
      PROVE  [Next]_vars
  <2>1. CASE CountDenials(c) \/ SuggestDenial(c)
    BY <2>1 DEF CountDenials, SuggestDenial, Next
  <2>2. CASE ~(CountDenials(c) \/ SuggestDenial(c))
    BY <1>1, <2>2 DEF Run, StartSync, Ask, IdpDraft, Draft, Empty, Fill, GroupDraft, StartSuggest,
                      ReadSnapshot, SuggestGroups, Interrupt
  <2> QED
    BY <2>1, <2>2
<1>2. ASSUME NEW d \in Decisions, DecisionStep(d)
      PROVE  Next
  BY <1>2 DEF DecisionStep, DecideBeside, Next
<1>3. CASE KillGateway
  BY <1>3 DEF Next
<1>4. CASE UNCHANGED allVars
  BY <1>4 DEF allVars
<1> QED
  BY <1>1, <1>2, <1>3, <1>4 DEF DirNext

\* The system of all commands implements that of the audit file
\* (crates/authz-cli/src/main.rs: no command but check and the gateway writes there).
THEOREM DirectoryImplementsFile == DirSpec => Spec
<1>1. DirInit => Init
  BY DEF DirInit
<1> QED
  BY <1>1, EveryStepIsOfTheFile, PTL DEF DirSpec, Spec, allVars

\* With commands beside it: who appends alone is read (audit.rs:57-90), as long as no
\* append broke off inside a character, and what was denied once is not drafted
\* (authz-suggest/src/lib.rs:42-75).
THEOREM FileBesideCommands == DirSpec => [](ReadUnlessCrowded /\ SuggestionsEarned)
<1> QED
  BY DirectoryImplementsFile, AloneIsRead, SuggestionsAreEarned, PTL

-----------------------------------------------------------------------------
(***************************************************************************)
(* The snapshot.                                                           *)
(***************************************************************************)
Unwritten == {"new", "ask", "idp draft", "empty", "fill"}

SnapInv ==
    /\ at \in [Commands -> Steps]
    /\ kept \subseteq Commands
    /\ \A c \in Commands : at[c] \in Unwritten => c \notin kept
    /\ opened \notin overlapped =>
         /\ Filling \subseteq {opened}
         /\ opened \in Filling => snapshot = "empty"
         /\ opened \in kept => snapshot = opened

\* A step that neither opens nor writes the snapshot keeps it.
LEMMA OtherStepsKeepSnap ==
    ASSUME SnapInv, UNCHANGED <<snapshot, opened, kept, overlapped>>,
           NEW c \in Commands, NEW s \in Steps, at' = [at EXCEPT ![c] = s],
           s # "fill", s \in Unwritten => at[c] \in Unwritten
    PROVE  SnapInv'
<1>1. Filling' \subseteq Filling /\ at' \in [Commands -> Steps]
  BY DEF SnapInv, Filling
<1> QED
  BY <1>1 DEF SnapInv

\* Who truncates the snapshot opened it last, and overlaps whoever is about to fill it.
LEMMA EmptyKeepsSnap ==
    ASSUME SnapInv, NEW c \in Commands, Empty(c)
    PROVE  SnapInv'
<1>1. /\ at[c] = "empty" /\ at' = [at EXCEPT ![c] = "fill"]
      /\ snapshot' = "empty" /\ opened' = c /\ UNCHANGED kept
      /\ overlapped' = IF Filling # {} THEN overlapped \cup Filling \cup {c} ELSE overlapped
  BY DEF Empty, Goto, Emptied
<1>2. at' \in [Commands -> Steps] /\ Filling' = Filling \cup {c} /\ c \notin kept
  BY <1>1 DEF SnapInv, Filling, Steps, Unwritten
<1>3. \A e \in Commands : at'[e] \in Unwritten => e \notin kept'
  BY <1>1 DEF SnapInv, Unwritten
<1> QED
  BY <1>1, <1>2, <1>3 DEF SnapInv

\* Who fills the snapshot and overlapped nobody is the one who opened it.
LEMMA FillKeepsSnap ==
    ASSUME SnapInv, NEW c \in Commands, Fill(c)
    PROVE  SnapInv'
<1>1. at[c] = "fill" /\ UNCHANGED <<opened, overlapped>> /\ c \in Filling
  BY DEF Fill, Filling
<1>2. PICK s \in {"draft", "over"} : at' = [at EXCEPT ![c] = s]
  BY DEF Fill, Goto, Ends
<1>3. /\ at' \in [Commands -> Steps] /\ Filling' = Filling \ {c}
      /\ \A e \in Commands : at'[e] \in Unwritten => at[e] \in Unwritten /\ e # c
  BY <1>2 DEF SnapInv, Filling, Steps, Unwritten
<1>4. c \notin kept
  BY <1>1 DEF SnapInv, Unwritten
<1>5. CASE snapshot' \in Written(c) /\ kept' = kept \cup {c}
  <2>1. opened \notin overlapped => opened = c /\ snapshot' = c
    BY <1>1, <1>5 DEF SnapInv, Written
  <2>2. \A e \in Commands : at'[e] \in Unwritten => e \notin kept'
    BY <1>3, <1>5 DEF SnapInv
  <2> QED
    BY <1>1, <1>3, <1>5, <2>1, <2>2 DEF SnapInv
<1>6. CASE snapshot' = "mixed" /\ UNCHANGED kept
  <2>1. opened \notin overlapped => opened = c
    BY <1>1 DEF SnapInv
  <2> QED
    BY <1>1, <1>3, <1>4, <1>6, <2>1 DEF SnapInv
<1> QED
  BY <1>5, <1>6 DEF Fill

\* Every step of a command or a decision keeps what is known of the snapshot.
LEMMA StepKeepsSnap == SnapInv /\ [DirNext]_allVars => SnapInv'
<1> SUFFICES ASSUME SnapInv, [DirNext]_allVars
             PROVE  SnapInv'
  OBVIOUS
<1>1. ASSUME NEW c \in Commands, Run(c), ~Empty(c), ~Fill(c)
      PROVE  SnapInv'
  <2>1. UNCHANGED <<snapshot, opened, kept, overlapped>>
    BY <1>1 DEF Run, StartSync, Ask, IdpDraft, Draft, GroupDraft, StartSuggest, ReadSnapshot,
                CountDenials, SuggestGroups, SuggestDenial, Interrupt
  <2>2. CASE UNCHANGED at
    BY <2>1, <2>2 DEF SnapInv, Filling
  <2>3. CASE ~UNCHANGED at
    <3>1. PICK s \in Steps : /\ at' = [at EXCEPT ![c] = s] /\ s # "fill"
                             /\ s \in Unwritten => at[c] \in Unwritten
      BY <1>1, <2>3 DEF Run, StartSync, Ask, IdpDraft, Draft, GroupDraft, StartSuggest, ReadSnapshot,
                CountDenials, SuggestGroups, SuggestDenial, Interrupt, Ends, Goto, Steps, Unwritten
    <3> QED
      BY <2>1, <3>1, OtherStepsKeepSnap
  <2> QED
    BY <2>2, <2>3
<1>2. CASE UNCHANGED dirVars
  BY <1>2 DEF dirVars, SnapInv, Filling
<1>3. \/ UNCHANGED dirVars
      \/ \E c \in Commands : Run(c)
  BY DEF DirNext, allVars
<1> QED
  BY <1>1, <1>2, <1>3, EmptyKeepsSnap, FillKeepsSnap

\* For any number of commands, failures and kills: a sync that wrote beside no other
\* is what everybody reads until the next one begins (adapters.rs save_snapshot).
THEOREM TheLastSyncIsRead == DirSpec => []ReadsTheLastSync
<1>1. DirInit => SnapInv
  BY DEF DirInit, SnapInv, Filling, Steps, Unwritten
<1>2. SnapInv => ReadsTheLastSync
  BY DEF SnapInv, ReadsTheLastSync
<1> QED
  BY <1>1, <1>2, StepKeepsSnap, PTL DEF DirSpec, allVars

-----------------------------------------------------------------------------
(***************************************************************************)
(* The drafts.                                                             *)
(***************************************************************************)
GroupDraftNames == {"ldap-sync", "auto-discovered", "ldap-group-drafts"}

DraftInv ==
    /\ at \in [Commands -> Steps]
    /\ job \in [Commands -> {"none", "suggest"} \cup Sources]
    /\ view \in [Commands -> Commands \cup {None}]
    /\ drafted \in [DraftNames -> Commands \cup {None}]
    /\ \A c \in Commands : at[c] = "idp draft" => job[c] \in Idps
    /\ \A c \in Commands : at[c] = "draft" => c \in kept
    /\ \A c \in Commands : at[c] = "groups" => view[c] \in kept
    /\ \A c \in Commands : view[c] \in kept \cup {None}
    /\ snapshot \in Commands => snapshot \in kept
    /\ snapshot \in Commands \cup {None, "empty", "mixed"}
    /\ DraftsOfSavedDirectories

\* Every step keeps that what is read and drafted was saved.
LEMMA StepKeepsDrafts == DraftInv /\ [DirNext]_allVars => DraftInv'
<1> SUFFICES ASSUME DraftInv, [DirNext]_allVars
             PROVE  DraftInv'
  OBVIOUS
<1> USE DEF DraftInv, DraftsOfSavedDirectories, Goto, Steps, DraftNames
<1>1. ASSUME NEW c \in Commands, StartSync(c)
      PROVE  DraftInv'
  BY <1>1, DirectoryConstantsOK DEF StartSync
<1>2. ASSUME NEW c \in Commands, Ask(c)
      PROVE  DraftInv'
  BY <1>2 DEF Ask
<1>3. ASSUME NEW c \in Commands, IdpDraft(c)
      PROVE  DraftInv'
  <2>1. SourceDraft(c) \in {"ad-sync", "entra-sync", "cognito-sync"}
    BY <1>3 DEF IdpDraft, SourceDraft, Idps
  <2> QED
    BY <1>3, <2>1 DEF IdpDraft, Draft
<1>4. ASSUME NEW c \in Commands, Empty(c)
      PROVE  DraftInv'
  BY <1>4, DirectoryConstantsOK DEF Empty, Emptied
<1>5. ASSUME NEW c \in Commands, Fill(c)
      PROVE  DraftInv'
  BY <1>5, DirectoryConstantsOK DEF Fill, Written, Ends
<1>6. ASSUME NEW c \in Commands, GroupDraft(c)
      PROVE  DraftInv'
  BY <1>6 DEF GroupDraft, Draft
<1>7. ASSUME NEW c \in Commands, StartSuggest(c)
      PROVE  DraftInv'
  BY <1>7 DEF StartSuggest
<1>8. ASSUME NEW c \in Commands, ReadSnapshot(c)
      PROVE  DraftInv'
  <2>1. CASE ~Readably
    BY <1>8, <2>1 DEF ReadSnapshot
  <2>2. CASE Readably
    <3>1. /\ at' = [at EXCEPT ![c] = "count"] /\ at[c] = "read"
          /\ view' = [view EXCEPT ![c] = snapshot]
          /\ UNCHANGED <<snapshot, job, drafted, kept>>
      BY <1>8, <2>2 DEF ReadSnapshot
    <3>2. snapshot \in Commands \cup {None} /\ snapshot \in kept \cup {None}
      BY <2>2 DEF Readably
    <3>3. view' \in [Commands -> Commands \cup {None}] /\ at' \in [Commands -> Steps]
      BY <3>1, <3>2
    <3>4. /\ \A d \in Commands : view'[d] \in kept' \cup {None}
          /\ \A d \in Commands : at'[d] = "groups" => view'[d] \in kept'
      BY <3>1, <3>2
    <3>5. /\ \A d \in Commands : at'[d] = "idp draft" => job'[d] \in Idps
          /\ \A d \in Commands : at'[d] = "draft" => d \in kept'
      BY <3>1
    <3> QED
      BY <3>1, <3>3, <3>4, <3>5
  <2> QED
    BY <2>1, <2>2
<1>9. ASSUME NEW c \in Commands, CountDenials(c)
      PROVE  DraftInv'
  BY <1>9 DEF CountDenials
<1>10. ASSUME NEW c \in Commands, SuggestGroups(c)
       PROVE  DraftInv'
  BY <1>10 DEF SuggestGroups, Draft
<1>11. ASSUME NEW c \in Commands, SuggestDenial(c)
       PROVE  DraftInv'
  BY <1>11 DEF SuggestDenial
<1>12. ASSUME NEW c \in Commands, Interrupt(c)
       PROVE  DraftInv'
  BY <1>12 DEF Interrupt, Ends
<1>13. CASE UNCHANGED dirVars
  BY <1>13 DEF dirVars
<1>14. UNCHANGED dirVars \/ \E c \in Commands : Run(c)
  BY DEF DirNext, allVars
<1> QED
  BY <1>1, <1>2, <1>3, <1>4, <1>5, <1>6, <1>7, <1>8, <1>9, <1>10, <1>11, <1>12, <1>13, <1>14 DEF Run

\* The drafts of groups are of directories that were saved, whatever fails or is
\* killed in between (main.rs:254-350, 518-538).
THEOREM DraftsAreOfSavedDirectories == DirSpec => []DraftsOfSavedDirectories
<1>1. DirInit => DraftInv
  BY DirectoryConstantsOK DEF DirInit, DraftInv, DraftsOfSavedDirectories, Steps, DraftNames
<1>2. DraftInv => DraftsOfSavedDirectories
  BY DEF DraftInv
<1> QED
  BY <1>1, <1>2, StepKeepsDrafts, PTL DEF DirSpec, allVars

-----------------------------------------------------------------------------
(***************************************************************************)
(* Types.                                                                  *)
(***************************************************************************)
DirRestInv ==
    /\ drafting \subseteq Commands
    /\ mishaps \in 0..MaxMishaps
    /\ opened \in Commands \cup {None}
    /\ overlapped \subseteq Commands

\* No command takes a variable out of its range.
LEMMA DirRestKept == DirRestInv /\ [DirNext]_allVars => DirRestInv'
<1> SUFFICES ASSUME DirRestInv, [DirNext]_allVars
             PROVE  DirRestInv'
  OBVIOUS
<1> USE DEF DirRestInv
<1>0. mishaps < MaxMishaps /\ mishaps' = mishaps + 1 => mishaps' \in 0..MaxMishaps
  BY DirectoryConstantsOK
<1>1. ASSUME NEW c \in Commands, Fill(c) \/ Interrupt(c)
      PROVE  DirRestInv'
  BY <1>0, <1>1 DEF Fill, Interrupt, Ends
<1>2. ASSUME NEW c \in Commands, Empty(c)
      PROVE  DirRestInv'
  BY <1>2 DEF Empty, Filling
<1>3. ASSUME NEW c \in Commands, StartSync(c)
      PROVE  DirRestInv'
  BY <1>3 DEF StartSync
<1>4. ASSUME NEW c \in Commands, Run(c), ~(Fill(c) \/ Interrupt(c) \/ Empty(c) \/ StartSync(c))
      PROVE  DirRestInv'
  BY <1>4 DEF Run, Ask, IdpDraft, Draft, GroupDraft, StartSuggest, ReadSnapshot,
              CountDenials, SuggestGroups, SuggestDenial
<1>5. CASE UNCHANGED dirVars
  BY <1>5 DEF dirVars
<1>6. UNCHANGED dirVars \/ \E c \in Commands : Run(c)
  BY DEF DirNext, allVars
<1> QED
  BY <1>1, <1>2, <1>3, <1>4, <1>5, <1>6

\* Types hold of the file, of the snapshot and of every command, whatever fails
\* (main.rs:254-350, 501-580).
THEOREM DirectoryTypes == DirSpec => []DirTypeOK
<1>1. DirInit => SnapInv /\ DraftInv /\ DirRestInv
  BY DirectoryConstantsOK DEF DirInit, SnapInv, Filling, Unwritten, DraftInv,
     DraftsOfSavedDirectories, Steps, DraftNames, DirRestInv
<1>2. TypeOK /\ SnapInv /\ DraftInv /\ DirRestInv => DirTypeOK
  BY DEF SnapInv, DraftInv, DirRestInv, DirTypeOK
<1>3. DirSpec => [](SnapInv /\ DraftInv /\ DirRestInv)
  BY <1>1, StepKeepsSnap, StepKeepsDrafts, DirRestKept, PTL DEF DirSpec, allVars
<1>4. DirSpec => []TypeOK
  BY DirectoryImplementsFile, FileTypes, PTL
<1> QED
  BY <1>2, <1>3, <1>4, PTL

-----------------------------------------------------------------------------
(***************************************************************************)
(* The merge of three directories.  Its map is a recursive function; that  *)
(* there is one, and what it holds, follow from a least counterexample.    *)
(***************************************************************************)
\* Of numbers there is a least one.
LEMMA Least ==
    ASSUME NEW T \in SUBSET Nat, T # {}
    PROVE  \E n \in T : \A k \in T : n <= k
<1>1. \E n \in T : \A k \in T : <<k, n>> \notin OpToRel(<, Nat)
  BY NatLessThanWellFounded, WFMin, Zenon
<1>2. PICK n \in T : \A k \in T : <<k, n>> \notin OpToRel(<, Nat)
  BY <1>1
<1>3. \A k \in T : ~(k < n)
  BY <1>2 DEF OpToRel
<1> QED
  BY <1>3

\* What the map of the first n entries is, if there is one.
IsMap(s, n, m) ==
    m = [k \in 0..n |-> IF k = 0 THEN {} ELSE Inserted(m[k-1], s[k])]

\* There is a map of any number of entries.
LEMMA ThereIsAMap ==
    ASSUME NEW s, NEW n \in Nat
    PROVE  \E m : IsMap(s, n, m)
<1> DEFINE T == {k \in Nat : ~\E m : IsMap(s, k, m)}
<1>1. SUFFICES ASSUME T # {}
               PROVE  FALSE
  OBVIOUS
<1>2. PICK k \in T : \A j \in T : k <= j
  BY <1>1, Least
<1>3. CASE k = 0
  <2>1. IsMap(s, 0, [j \in 0..0 |-> {}])
    BY DEF IsMap
  <2> QED
    BY <1>2, <1>3, <2>1
<1>4. CASE k # 0
  <2>1. k-1 \in Nat /\ k-1 \notin T
    BY <1>2, <1>4
  <2>2. PICK m : IsMap(s, k-1, m)
    BY <2>1
  <2> DEFINE w == [j \in 0..k |-> IF j = k THEN Inserted(m[k-1], s[k]) ELSE m[j]]
  <2>3. ASSUME NEW j \in 0..k
        PROVE  w[j] = IF j = 0 THEN {} ELSE Inserted(w[j-1], s[j])
    <3>1. CASE j = k
      BY <1>4, <3>1
    <3>2. CASE j # k
      <4>1. j \in 0..(k-1) /\ w[j] = m[j]
        BY <3>2
      <4>2. m[j] = IF j = 0 THEN {} ELSE Inserted(m[j-1], s[j])
        BY <2>2, <4>1 DEF IsMap
      <4>3. j # 0 => w[j-1] = m[j-1]
        BY <4>1
      <4> QED
        BY <4>1, <4>2, <4>3
    <3> QED
      BY <3>1, <3>2
  <2>4. IsMap(s, k, w)
    <3> HIDE DEF w
    <3>1. w = [j \in 0..k |-> w[j]]
      BY DEF w
    <3> QED
      BY <2>3, <3>1 DEF IsMap
  <2> QED
    BY <1>2, <2>4
<1> QED
  BY <1>3, <1>4

\* So the map after an entry is the map before it with the entry inserted.
LEMMA MergedStepwise ==
    ASSUME NEW s, Len(s) \in Nat
    PROVE  /\ Merged(s)[0] = {}
           /\ \A n \in 1..Len(s) : Merged(s)[n] = Inserted(Merged(s)[n-1], s[n])
<1>1. \E m : IsMap(s, Len(s), m)
  BY ThereIsAMap
<1>2. Merged(s) = CHOOSE m : IsMap(s, Len(s), m)
  BY Zenon DEF Merged, IsMap
<1>3. IsMap(s, Len(s), Merged(s))
  BY <1>1, <1>2
<1> DEFINE map == Merged(s)
<1> HIDE DEF map
<1>4. map = [k \in 0..Len(s) |-> IF k = 0 THEN {} ELSE Inserted(map[k-1], s[k])]
  BY <1>3 DEF IsMap, map
<1>5. map[0] = {}
  BY <1>4
<1>6. ASSUME NEW n \in 1..Len(s)
      PROVE  map[n] = Inserted(map[n-1], s[n])
  <2>1. n \in 0..Len(s) /\ n # 0
    OBVIOUS
  <2> QED
    BY <1>4, <2>1
<1> QED
  BY <1>5, <1>6 DEF map

\* The first of the entries up to n that have the id of entry i.
FirstOf(s, n) == {i \in 1..n : \A j \in 1..n : s[j].id = s[i].id => i <= j}

\* Insertion keeps who is there and takes in who is new.
LEMMA FirstsAreMerged ==
    ASSUME NEW s, Len(s) \in Nat, NEW n \in 0..Len(s)
    PROVE  Merged(s)[n] = {s[i] : i \in FirstOf(s, n)}
<1> DEFINE T == {k \in Nat : k <= Len(s) /\ Merged(s)[k] # {s[i] : i \in FirstOf(s, k)}}
<1>1. SUFFICES ASSUME T # {}
               PROVE  FALSE
  BY DEF T
<1>2. PICK k \in T : \A j \in T : k <= j
  BY <1>1, Least
<1> HIDE DEF T
<1>k. k \in 0..Len(s) /\ Merged(s)[k] # {s[i] : i \in FirstOf(s, k)}
  BY <1>2 DEF T
<1>3. CASE k = 0
  BY <1>k, <1>3, MergedStepwise DEF FirstOf
<1>4. CASE k # 0
  <2>1. k-1 \in Nat /\ k-1 <= Len(s) /\ k-1 \notin T
    BY <1>2, <1>k, <1>4
  <2>2. Merged(s)[k-1] = {s[i] : i \in FirstOf(s, k-1)}
    BY <2>1 DEF T
  <2>3. Merged(s)[k] = Inserted(Merged(s)[k-1], s[k])
    BY <1>k, <1>4, MergedStepwise
  <2> DEFINE old == \E i \in 1..(k-1) : s[i].id = s[k].id
  <2>4. FirstOf(s, k) = IF old THEN FirstOf(s, k-1) ELSE FirstOf(s, k-1) \cup {k}
    BY <1>k, <1>4 DEF FirstOf
  <2>5. old <=> \E x \in Merged(s)[k-1] : x.id = s[k].id
    <3>1. ASSUME NEW i \in 1..(k-1), s[i].id = s[k].id
          PROVE  \E x \in Merged(s)[k-1] : x.id = s[k].id
      <4> DEFINE same == {j \in 1..(k-1) : s[j].id = s[k].id}
      <4>0. same \in SUBSET Nat /\ same # {}
        BY <3>1, <1>k
      <4>1. PICK f \in same : \A j \in same : f <= j
        <5> HIDE DEF same
        <5> QED
          BY <4>0, Least
      <4>2. f \in FirstOf(s, k-1)
        BY <4>1 DEF FirstOf
      <4> QED
        BY <2>2, <4>1, <4>2
    <3>2. ASSUME NEW i \in FirstOf(s, k-1), s[i].id = s[k].id
          PROVE  old
      BY <3>2 DEF FirstOf
    <3> QED
      BY <2>2, <3>1, <3>2
  <2> HIDE DEF old
  <2>6. Merged(s)[k] = {s[i] : i \in FirstOf(s, k)}
    <3>1. CASE old
      BY <2>2, <2>3, <2>4, <2>5, <3>1 DEF Inserted
    <3>2. CASE ~old
      <4>1. Merged(s)[k] = {s[i] : i \in FirstOf(s, k-1)} \cup {s[k]}
        BY <2>2, <2>3, <2>5, <3>2 DEF Inserted
      <4> QED
        BY <2>4, <3>2, <4>1
    <3> QED
      BY <3>1, <3>2
  <2> QED
    BY <1>k, <2>6
<1> QED
  BY <1>3, <1>4

\* Two sequences, one behind the other.
LEMMA Behind ==
    ASSUME NEW S, NEW a \in Seq(S), NEW b \in Seq(S)
    PROVE  /\ a \o b \in Seq(S) /\ Len(a \o b) = Len(a) + Len(b)
           /\ \A i \in 1..Len(a) : (a \o b)[i] = a[i]
           /\ \A i \in 1..Len(b) : (a \o b)[Len(a) + i] = b[i]
  OBVIOUS

\* Of three answers, one behind the other, the first that knows an id has it.
LEMMA ThreeMerged ==
    ASSUME NEW S, NEW a \in Seq(S), NEW b \in Seq(S), NEW c \in Seq(S)
    PROVE  LET merged == Deduplicated(a \o b \o c) IN
           /\ {x.id : x \in merged} = Ids(a) \cup Ids(b) \cup Ids(c)
           /\ \A x, y \in merged : x.id = y.id => x = y
           /\ \A x \in merged :
                 \/ x \in {a[i] : i \in DOMAIN a}
                 \/ x.id \notin Ids(a) /\ x \in {b[i] : i \in DOMAIN b}
                 \/ x.id \notin Ids(a) \cup Ids(b) /\ x \in {c[i] : i \in DOMAIN c}
<1> DEFINE s == a \o b \o c
           merged == Deduplicated(s)
           la == Len(a)
           lb == Len(b)
           lc == Len(c)
<1>1. la \in Nat /\ lb \in Nat /\ lc \in Nat
  OBVIOUS
<1>2. DOMAIN a = 1..la /\ DOMAIN b = 1..lb /\ DOMAIN c = 1..lc
  OBVIOUS
<1>3. /\ Len(s) = la + lb + lc
      /\ \A i \in 1..la : s[i] = a[i]
      /\ \A i \in 1..lb : s[la + i] = b[i]
      /\ \A i \in 1..lc : s[la + lb + i] = c[i]
  <2>1. /\ a \o b \in Seq(S) /\ Len(a \o b) = la + lb
        /\ \A i \in 1..la : (a \o b)[i] = a[i]
        /\ \A i \in 1..lb : (a \o b)[la + i] = b[i]
    BY Behind
  <2>2. /\ Len(s) = la + lb + lc
        /\ \A i \in 1..(la + lb) : s[i] = (a \o b)[i]
        /\ \A i \in 1..lc : s[la + lb + i] = c[i]
    BY <2>1, Behind
  <2>3. (\A i \in 1..la : i \in 1..(la + lb)) /\ (\A i \in 1..lb : la + i \in 1..(la + lb))
    BY <1>1
  <2> DEFINE ab == a \o b
  <2> HIDE DEF s, la, lb, lc, ab
  <2>4. \A i \in 1..la : s[i] = a[i]
    BY <2>1, <2>2, <2>3 DEF ab
  <2>5. \A i \in 1..lb : s[la + i] = b[i]
    BY <2>1, <2>2, <2>3 DEF ab
  <2> QED
    BY <2>2, <2>4, <2>5
<1> HIDE DEF s, la, lb, lc
<1>4. merged = {s[i] : i \in FirstOf(s, Len(s))}
  <2>1. Len(s) \in Nat /\ Len(s) \in 0..Len(s)
    BY <1>1, <1>3
  <2>2. Merged(s)[Len(s)] = {s[i] : i \in FirstOf(s, Len(s))}
    BY <2>1, FirstsAreMerged
  <2> QED
    BY <2>2 DEF Deduplicated
<1> HIDE DEF merged
<1>5. ASSUME NEW i \in 1..Len(s)
      PROVE  \/ i \in 1..la /\ s[i] = a[i]
             \/ \E j \in 1..lb : i = la + j /\ s[i] = b[j]
             \/ \E j \in 1..lc : i = la + lb + j /\ s[i] = c[j]
  <2>1. CASE i <= la
    BY <1>1, <1>3, <2>1
  <2>2. CASE i > la /\ i <= la + lb
    <3>1. i - la \in 1..lb /\ i = la + (i - la)
      BY <1>1, <2>2
    <3> QED
      BY <1>3, <3>1
  <2>3. CASE i > la + lb
    <3>1. i - (la + lb) \in 1..lc /\ i = la + lb + (i - (la + lb))
      BY <1>1, <1>3, <2>3
    <3> QED
      BY <1>3, <3>1
  <2> QED
    BY <1>1, <2>1, <2>2, <2>3
<1>6. \A x, y \in merged : x.id = y.id => x = y
  <2> SUFFICES ASSUME NEW i \in FirstOf(s, Len(s)), NEW j \in FirstOf(s, Len(s)), s[i].id = s[j].id
               PROVE  i = j
    BY <1>4
  <2> QED
    BY <1>1, <1>3 DEF FirstOf
<1>7. {x.id : x \in merged} = {s[i].id : i \in 1..Len(s)}
  <2>1. ASSUME NEW i \in 1..Len(s)
        PROVE  \E f \in FirstOf(s, Len(s)) : s[f].id = s[i].id
    <3> DEFINE same == {j \in 1..Len(s) : s[j].id = s[i].id}
    <3>1. same \in SUBSET Nat /\ same # {}
      OBVIOUS
    <3>2. PICK f \in same : \A j \in same : f <= j
      <4> HIDE DEF same
      <4> QED
        BY <3>1, Least
    <3> QED
      BY <3>2 DEF FirstOf
  <2>2. FirstOf(s, Len(s)) \subseteq 1..Len(s)
    BY DEF FirstOf
  <2>3. {x.id : x \in merged} = {s[i].id : i \in FirstOf(s, Len(s))}
    BY <1>4
  <2> QED
    BY <2>1, <2>2, <2>3
<1>8. {s[i].id : i \in 1..Len(s)} = Ids(a) \cup Ids(b) \cup Ids(c)
  <2>1. \A i \in 1..la : i \in 1..Len(s) /\ s[i].id = a[i].id
    BY <1>1, <1>3
  <2>2. \A i \in 1..lb : la + i \in 1..Len(s) /\ s[la + i].id = b[i].id
    BY <1>1, <1>3
  <2>3. \A i \in 1..lc : la + lb + i \in 1..Len(s) /\ s[la + lb + i].id = c[i].id
    BY <1>1, <1>3
  <2>4. {s[i].id : i \in 1..Len(s)} \subseteq Ids(a) \cup Ids(b) \cup Ids(c)
    <3>1. ASSUME NEW i \in 1..Len(s)
          PROVE  s[i].id \in Ids(a) \cup Ids(b) \cup Ids(c)
      BY <1>2, <1>5 DEF Ids
    <3> QED
      BY <3>1
  <2>5. Ids(a) \subseteq {s[i].id : i \in 1..Len(s)}
    BY <1>2, <2>1 DEF Ids
  <2>6. Ids(b) \subseteq {s[i].id : i \in 1..Len(s)}
    BY <1>2, <2>2 DEF Ids
  <2>7. Ids(c) \subseteq {s[i].id : i \in 1..Len(s)}
    BY <1>2, <2>3 DEF Ids
  <2> QED
    BY <2>4, <2>5, <2>6, <2>7
<1>9. ASSUME NEW x \in merged
      PROVE  \/ x \in {a[i] : i \in DOMAIN a}
             \/ x.id \notin Ids(a) /\ x \in {b[i] : i \in DOMAIN b}
             \/ x.id \notin Ids(a) \cup Ids(b) /\ x \in {c[i] : i \in DOMAIN c}
  <2>1. PICK f \in 1..Len(s) : x = s[f] /\ \A j \in 1..Len(s) : s[j].id = s[f].id => f <= j
    BY <1>4 DEF FirstOf
  <2>2. ASSUME f > la
        PROVE  x.id \notin Ids(a)
    <3> SUFFICES ASSUME NEW j \in 1..la, a[j].id = x.id
                 PROVE  FALSE
      BY <1>2 DEF Ids
    <3>1. j \in 1..Len(s) /\ j < f
      BY <1>1, <1>3, <2>2
    <3>2. s[j].id = s[f].id
      BY <1>3, <2>1
    <3>3. f <= j
      BY <2>1, <3>1, <3>2
    <3> QED
      BY <3>1, <3>3
  <2>3. ASSUME f > la + lb
        PROVE  x.id \notin Ids(b)
    <3> SUFFICES ASSUME NEW j \in 1..lb, b[j].id = x.id
                 PROVE  FALSE
      BY <1>2 DEF Ids
    <3>1. la + j \in 1..Len(s) /\ la + j < f
      BY <1>1, <1>3, <2>3
    <3>2. s[la + j].id = s[f].id
      BY <1>3, <2>1
    <3>3. f <= la + j
      BY <2>1, <3>1, <3>2
    <3> QED
      BY <1>1, <3>1, <3>3
  <2>4. CASE f \in 1..la /\ s[f] = a[f]
    BY <1>2, <2>1, <2>4
  <2>5. ASSUME NEW j \in 1..lb, f = la + j, s[f] = b[j]
        PROVE  x.id \notin Ids(a) /\ x \in {b[i] : i \in DOMAIN b}
    <3>1. f > la
      BY <1>1, <2>5
    <3> QED
      BY <1>2, <2>1, <2>2, <2>5, <3>1
  <2>6. ASSUME NEW j \in 1..lc, f = la + lb + j, s[f] = c[j]
        PROVE  x.id \notin Ids(a) \cup Ids(b) /\ x \in {c[i] : i \in DOMAIN c}
    <3>1. f > la /\ f > la + lb
      BY <1>1, <2>6
    <3> QED
      BY <1>2, <2>1, <2>2, <2>3, <2>6, <3>1
  <2> QED
    BY <1>5, <2>1, <2>4, <2>5, <2>6
<1> QED
  BY <1>6, <1>7, <1>8, <1>9 DEF merged, s

\* Users and groups of an answer are lists, empty ones if there was none.
LEMMA AnswersAreLists ==
    ASSUME NEW a \in AdAnswers \cup EntraAnswers \cup CognitoAnswers, NEW part \in {"users", "groups"}
    PROVE  Given(a, part) = a[part] /\ \E S : a[part] \in Seq(S)
<1>1. ASSUME a = NoAnswer
      PROVE  Given(a, part) = a[part] /\ \E S : a[part] \in Seq(S)
  <2>1. Given(a, part) = <<>> /\ a[part] = <<>>
    BY <1>1 DEF NoAnswer, Given
  <2> QED
    BY <2>1
<1>2. ASSUME NEW source, a = MockDirectory(source)
      PROVE  Given(a, part) = a[part] /\ \E S : a[part] \in Seq(S)
  <2> DEFINE u == User(AsUser(<<"hr-head">>), {"HR_HEAD"}, {<<"HR">>}, source)
             g1 == Group(<<"HR">>, <<"HR">>, {AsUser(<<"hr-head">>)}, source)
             g2 == Group(<<"EXECUTIVE">>, <<"EXECUTIVE">>, {AsEmployee(<<"CEO">>)}, source)
             g3 == Group(<<"PAYROLL">>, <<"PAYROLL">>, {}, source)
  <2>1. a = [ok |-> TRUE, users |-> <<u>>, groups |-> <<g1, g2, g3>>]
    BY <1>2 DEF MockDirectory
  <2> HIDE DEF u, g1, g2, g3
  <2>2. Given(a, part) = a[part] /\ a[part] \in {<<u>>, <<g1, g2, g3>>}
    BY <2>1 DEF Given
  <2>3. <<u>> \in Seq({u}) /\ <<g1, g2, g3>> \in Seq({g1, g2, g3})
    OBVIOUS
  <2> QED
    BY <2>2, <2>3
<1>3. ASSUME NEW u, NEW g, a = Answer1(u, g)
      PROVE  Given(a, part) = a[part] /\ \E S : a[part] \in Seq(S)
  <2>1. Given(a, part) = a[part] /\ a[part] \in {<<u>>, <<g>>}
    BY <1>3 DEF Given, Answer1
  <2>2. <<u>> \in Seq({u}) /\ <<g>> \in Seq({g})
    OBVIOUS
  <2> QED
    BY <2>1, <2>2
<1>4. \/ a = NoAnswer
      \/ \E source : a = MockDirectory(source)
      \/ \E u, g : a = Answer1(u, g)
  BY DEF AdAnswers, EntraAnswers, CognitoAnswers
<1> QED
  BY <1>1, <1>2, <1>3, <1>4

\* Whatever the three directories answer, merging loses and doubles nobody.
LEMMA MergingKeeps == MergeKeepsTheFirst
<1> SUFFICES ASSUME NEW answers \in Answers, NEW part \in {"users", "groups"}
             PROVE  LET merged == Discovered(answers)[part] IN
                    /\ {x.id : x \in merged} = UNION {Ids(answers[i][part]) : i \in DOMAIN answers}
                    /\ \A x, y \in merged : x.id = y.id => x = y
                    /\ \A x \in merged : \E i \in Know(answers, part, x.id) :
                          /\ \A j \in Know(answers, part, x.id) : i <= j
                          /\ x \in {answers[i][part][k] : k \in DOMAIN answers[i][part]}
  BY Zenon DEF MergeKeepsTheFirst
<1>0. PICK ad \in AdAnswers, entra \in EntraAnswers, cognito \in CognitoAnswers :
              answers = <<ad, entra, cognito>>
  BY DEF Answers
<1> DEFINE a == ad[part]
           b == entra[part]
           c == cognito[part]
           merged == Discovered(answers)[part]
<1>1. /\ Given(ad, part) = a /\ Given(entra, part) = b /\ Given(cognito, part) = c
      /\ \E S1, S2, S3 : a \in Seq(S1) /\ b \in Seq(S2) /\ c \in Seq(S3)
  BY AnswersAreLists
<1>2. PICK S1, S2, S3 : a \in Seq(S1) /\ b \in Seq(S2) /\ c \in Seq(S3)
  BY <1>1
<1> DEFINE S == S1 \cup S2 \cup S3
<1>3. a \in Seq(S) /\ b \in Seq(S) /\ c \in Seq(S)
  <2>1. \A R, T : R \subseteq T => Seq(R) \subseteq Seq(T)
    OBVIOUS
  <2> QED
    BY <1>2, <2>1
<1>4. /\ answers[1] = ad /\ answers[2] = entra /\ answers[3] = cognito
      /\ DOMAIN answers = {1, 2, 3}
  BY <1>0
<1>5. merged = Deduplicated(a \o b \o c)
  <2>1. merged = Deduplicated(Given(answers[1], part) \o Given(answers[2], part) \o Given(answers[3], part))
    BY DEF Discovered
  <2> QED
    BY <1>1, <1>4, <2>1
<1> HIDE DEF merged, a, b, c, S
<1>6. /\ {x.id : x \in merged} = Ids(a) \cup Ids(b) \cup Ids(c)
      /\ \A x, y \in merged : x.id = y.id => x = y
      /\ \A x \in merged :
            \/ x \in {a[i] : i \in DOMAIN a}
            \/ x.id \notin Ids(a) /\ x \in {b[i] : i \in DOMAIN b}
            \/ x.id \notin Ids(a) \cup Ids(b) /\ x \in {c[i] : i \in DOMAIN c}
  BY <1>3, <1>5, ThreeMerged
<1>7. answers[1][part] = a /\ answers[2][part] = b /\ answers[3][part] = c
  BY <1>4 DEF a, b, c
<1>8. Ids(a) \cup Ids(b) \cup Ids(c) = UNION {Ids(answers[i][part]) : i \in DOMAIN answers}
  BY <1>4, <1>7
<1>9. ASSUME NEW x \in merged
      PROVE  \E i \in Know(answers, part, x.id) :
                /\ \A j \in Know(answers, part, x.id) : i <= j
                /\ x \in {answers[i][part][k] : k \in DOMAIN answers[i][part]}
  <2>1. \A i : i \in Know(answers, part, x.id) <=>
                  \/ i = 1 /\ x.id \in Ids(a)
                  \/ i = 2 /\ x.id \in Ids(b)
                  \/ i = 3 /\ x.id \in Ids(c)
    BY <1>4, <1>7 DEF Know
  <2>2. CASE x \in {a[i] : i \in DOMAIN a}
    <3>1. x.id \in Ids(a)
      BY <2>2 DEF Ids
    <3> QED
      BY <1>7, <2>1, <2>2, <3>1
  <2>3. CASE x.id \notin Ids(a) /\ x \in {b[i] : i \in DOMAIN b}
    <3>1. x.id \in Ids(b)
      BY <2>3 DEF Ids
    <3> QED
      BY <1>7, <2>1, <2>3, <3>1
  <2>4. CASE x.id \notin Ids(a) \cup Ids(b) /\ x \in {c[i] : i \in DOMAIN c}
    <3>1. x.id \in Ids(c)
      BY <2>4 DEF Ids
    <3> QED
      BY <1>7, <2>1, <2>4, <3>1
  <2> QED
    BY <1>6, <2>2, <2>3, <2>4
<1> QED
  BY <1>6, <1>8, <1>9 DEF merged

\* Merging loses and doubles nobody and keeps the first to know an id, whatever
\* entries the directories give and whoever fails to answer (idp.rs:518-594).
THEOREM IdentitiesAlwaysMerge == DirSpec => []IdentitiesMerge
<1>1. IdentitiesMerge
  BY MergingKeeps DEF IdentitiesMerge
<1> QED
  BY <1>1, PTL

=============================================================================
