-------------------------- MODULE AuditFileProofs --------------------------
(***************************************************************************)
(* An append that runs alone is read by everybody, for any number of       *)
(* decisions, failures and kills; a settled record stays readable; and no  *)
(* denial is suggested that two decisions did not earn.                    *)
(***************************************************************************)
EXTENDS AuditFile, FiniteSetTheorems, TLAPS

Tokens == All \cup {Newline, Torn, Cut}

\* What has a line to itself, newline included, whether or not anybody can read it.
Fixed == {file[i] : i \in {j \in OnItsLine : j < Len(file)}}

\* A decision between its record and its newline that met nobody is the only one
\* there, its record is the last thing in the file, and has its line to itself.
HalfwayInv(d) ==
    d \in Halfway \ crowded =>
        /\ Halfway = {d}
        /\ Len(file) \in OnItsLine /\ file[Len(file)] = d

FileInv ==
    /\ file \in Seq(Tokens)
    /\ pc \in [Decisions -> {"new", "open", "text", "newline", "answer", "over"}]
    /\ saved \subseteq Decisions
    /\ \A d \in Decisions : HalfwayInv(d)
    /\ saved \ crowded \subseteq Fixed

-----------------------------------------------------------------------------
\* An append keeps what the file holds and puts the token behind it.
LEMMA Appended ==
    ASSUME file \in Seq(Tokens), NEW x \in Tokens, file' = Append(file, x)
    PROVE  /\ file' \in Seq(Tokens)
           /\ Len(file') = Len(file) + 1 /\ Len(file) \in Nat
           /\ \A i \in DOMAIN file : file'[i] = file[i]
           /\ file'[Len(file) + 1] = x
           /\ DOMAIN file = 1..Len(file) /\ DOMAIN file' = 1..Len(file)+1
  OBVIOUS

\* So a record with a line to itself keeps its line.
LEMMA SettledKept ==
    ASSUME file \in Seq(Tokens), NEW x \in Tokens, file' = Append(file, x)
    PROVE  Fixed \subseteq Fixed'
<1> SUFFICES ASSUME NEW i \in OnItsLine, i < Len(file)
             PROVE  i \in OnItsLine' /\ i < Len(file') /\ file'[i] = file[i]
  BY DEF Fixed
<1>1. i \in DOMAIN file /\ i \in Nat /\ i+1 \in DOMAIN file /\ (i = 1 \/ i-1 \in DOMAIN file)
  BY Appended DEF OnItsLine
<1>2. file'[i] = file[i] /\ file'[i+1] = file[i+1] /\ (i = 1 \/ file'[i-1] = file[i-1])
  BY <1>1, Appended
<1>3. file[i] \in All /\ file[i+1] = Newline /\ (i = 1 \/ file[i-1] = Newline)
  BY <1>1 DEF OnItsLine
<1>4. i \in DOMAIN file' /\ i < Len(file')
  BY <1>1, Appended
<1> QED
  BY <1>2, <1>3, <1>4 DEF OnItsLine

-----------------------------------------------------------------------------
\* A record written while nobody is halfway has its line to itself; whoever is
\* halfway meanwhile is crowded from then on.
LEMMA WriteTextKeeps ==
    ASSUME FileInv, NEW d \in Decisions, WriteText(d)
    PROVE  FileInv'
<1>t. file \in Seq(Tokens) /\ d \in Tokens /\ file' = Append(file, d)
  BY DEF FileInv, WriteText, Extended, Tokens, All
<1>1. file' \in Seq(Tokens) /\ Fixed \subseteq Fixed'
  BY <1>t, Appended, SettledKept
<1>2. /\ pc' = [pc EXCEPT ![d] = "newline"]
      /\ pc' \in [Decisions -> {"new", "open", "text", "newline", "answer", "over"}]
      /\ Halfway' = Halfway \cup {d}
  BY DEF FileInv, WriteText, Move, Halfway
<1>3. ASSUME NEW e \in Decisions, e \in Halfway' \ crowded'
      PROVE  /\ Halfway' = {e}
             /\ Len(file') \in OnItsLine' /\ file'[Len(file')] = e
  <2>1. Halfway = {} /\ ~LineIsOpen /\ e = d
    BY <1>2, <1>3 DEF WriteText
  <2>2. file = <<>> \/ file[Len(file)] = Newline
    BY <2>1 DEF LineIsOpen
  <2>3. /\ Len(file') \in DOMAIN file' /\ file'[Len(file')] = d
        /\ Len(file') = 1 \/ file'[Len(file') - 1] = Newline
    BY <2>2, <1>t, Appended
  <2>4. d \in All
    BY DEF All
  <2> QED
    BY <1>2, <2>1, <2>3, <2>4 DEF OnItsLine
<1>4. saved' \ crowded' \subseteq Fixed'
  BY <1>1 DEF FileInv, WriteText
<1> QED
  BY <1>1, <1>2, <1>3, <1>4 DEF FileInv, HalfwayInv, WriteText

\* Every other step leaves the file alone and brings nobody halfway.
LEMMA QuietKeeps ==
    ASSUME FileInv, UNCHANGED <<file, saved, crowded>>, Halfway' \subseteq Halfway,
           pc' \in [Decisions -> {"new", "open", "text", "newline", "answer", "over"}]
    PROVE  FileInv'
<1>1. OnItsLine' = OnItsLine /\ Fixed' = Fixed
  BY DEF OnItsLine, Fixed
<1>2. ASSUME NEW d \in Decisions
      PROVE  HalfwayInv(d)'
  BY <1>1 DEF FileInv, HalfwayInv
<1> QED
  BY <1>1, <1>2 DEF FileInv

\* A piece of a record can only spoil the line of somebody it crowds.
LEMMA BrokenOffKeeps ==
    ASSUME FileInv, BrokenOff, UNCHANGED saved, Halfway' \subseteq Halfway,
           pc' \in [Decisions -> {"new", "open", "text", "newline", "answer", "over"}]
    PROVE  FileInv'
<1>1. ASSUME NEW x \in {Torn, Cut}, file' = Extended(x), crowded' = crowded \cup Halfway
      PROVE  FileInv'
  <2>1. file \in Seq(Tokens) /\ x \in Tokens /\ file' = Append(file, x)
    BY <1>1 DEF FileInv, Extended, Tokens
  <2>2. file' \in Seq(Tokens) /\ Fixed \subseteq Fixed'
    BY <2>1, Appended, SettledKept
  <2> QED
    BY <1>1, <2>2 DEF FileInv, HalfwayInv
<1>2. CASE UNCHANGED <<file, crowded>>
  BY <1>2, QuietKeeps
<1> QED
  BY <1>1, <1>2 DEF BrokenOff

\* The newline of a decision that met nobody settles its record.
LEMMA WriteNewlineKeeps ==
    ASSUME FileInv, NEW d \in Decisions, WriteNewline(d)
    PROVE  FileInv'
<1>1. /\ pc' \in [Decisions -> {"new", "open", "text", "newline", "answer", "over"}]
      /\ d \in Halfway /\ Halfway' = Halfway \ {d}
      /\ crowded' = crowded
  BY DEF FileInv, WriteNewline, Move, Halfway
<1>2. \A e \in Decisions : HalfwayInv(e)'
  BY <1>1 DEF FileInv, HalfwayInv
<1>3. CASE file' = Extended(Newline) /\ saved' = saved \cup {d}
  <2>1. file \in Seq(Tokens) /\ Newline \in Tokens /\ file' = Append(file, Newline)
    BY <1>3 DEF FileInv, Extended, Tokens
  <2>2. file' \in Seq(Tokens) /\ Fixed \subseteq Fixed'
    BY <2>1, Appended, SettledKept
  <2>3. ASSUME d \notin crowded
        PROVE  d \in Fixed'
    <3>1. Len(file) \in OnItsLine /\ file[Len(file)] = d
      BY <1>1, <2>3 DEF FileInv, HalfwayInv
    <3>2. /\ Len(file) \in DOMAIN file /\ file[Len(file)] \in All
          /\ Len(file) = 1 \/ (Len(file)-1 \in DOMAIN file /\ file[Len(file)-1] = Newline)
      <4>1. /\ Len(file) \in DOMAIN file /\ file[Len(file)] \in All
            /\ Len(file) = 1 \/ file[Len(file)-1] = Newline
        BY <3>1 DEF OnItsLine
      <4>2. DOMAIN file = 1..Len(file) /\ Len(file) \in Nat
        BY <2>1, Appended
      <4> QED
        BY <4>1, <4>2
    <3>3. Len(file) \in OnItsLine' /\ Len(file) < Len(file') /\ file'[Len(file)] = d
      BY <3>1, <3>2, <2>1, Appended DEF OnItsLine
    <3> QED
      BY <3>3 DEF Fixed
  <2> QED
    BY <1>1, <1>2, <1>3, <2>2, <2>3 DEF FileInv
<1>4. CASE UNCHANGED <<file, saved>>
  <2>1. Fixed' = Fixed
    BY <1>4 DEF OnItsLine, Fixed
  <2> QED
    BY <1>1, <1>2, <1>4, <2>1 DEF FileInv
<1> QED
  BY <1>3, <1>4 DEF WriteNewline

\* Every step of the gateway and the commands keeps the invariant.
LEMMA StepKeeps == FileInv /\ [Next]_vars => FileInv'
<1> SUFFICES ASSUME FileInv, [Next]_vars
             PROVE  FileInv'
  OBVIOUS
<1>p. pc \in [Decisions -> {"new", "open", "text", "newline", "answer", "over"}]
  BY DEF FileInv
<1>1. ASSUME NEW d \in Decisions, Decide(d)
      PROVE  FileInv'
  BY <1>1, <1>p, QuietKeeps DEF Decide, Move, Halfway, history
<1>2. ASSUME NEW d \in Decisions, Open(d)
      PROVE  FileInv'
  BY <1>2, <1>p, QuietKeeps DEF Open, Move, Halfway, history
<1>3. ASSUME NEW d \in Decisions, Answer(d)
      PROVE  FileInv'
  BY <1>3, <1>p, QuietKeeps DEF Answer, Move, Halfway, history
<1>4. ASSUME NEW d \in Decisions, TextFails(d) \/ KillCommand(d)
      PROVE  FileInv'
  <2>1. /\ BrokenOff \/ UNCHANGED <<file, crowded>>
        /\ UNCHANGED saved /\ Halfway' \subseteq Halfway
        /\ pc' \in [Decisions -> {"new", "open", "text", "newline", "answer", "over"}]
    BY <1>4, <1>p DEF TextFails, KillCommand, Move, Halfway
  <2> QED
    BY <2>1, BrokenOffKeeps, QuietKeeps
<1>5. CASE KillGateway
  <2>1. /\ BrokenOff \/ UNCHANGED <<file, crowded>>
        /\ UNCHANGED saved /\ Halfway' \subseteq Halfway
        /\ pc' \in [Decisions -> {"new", "open", "text", "newline", "answer", "over"}]
    BY <1>5, <1>p DEF KillGateway, Halfway
  <2> QED
    BY <2>1, BrokenOffKeeps, QuietKeeps
<1>6. ASSUME NEW c \in Commands, Count(c) \/ WriteDraft(c)
      PROVE  FileInv'
  BY <1>6, <1>p, QuietKeeps DEF Count, WriteDraft, Halfway, history
<1>7. CASE UNCHANGED vars
  BY <1>7, <1>p, QuietKeeps DEF vars, Halfway, history
<1> QED
  BY <1>1, <1>2, <1>3, <1>4, <1>5, <1>6, <1>7, WriteTextKeeps, WriteNewlineKeeps
     DEF Next

\* What earlier versions left in the file is not yet about any decision.
LEMMA Initially == Init => FileInv
<1> SUFFICES ASSUME Init
             PROVE  FileInv
  OBVIOUS
<1>1. file \in Seq(Tokens)
  <2>1. CASE file = <<>>
    BY <2>1
  <2>2. ASSUME NEW d \in Legacy, file = <<d, Newline>>
        PROVE  file \in Seq(Tokens)
    <3>1. d \in Tokens /\ Newline \in Tokens
      BY DEF Tokens, All
    <3> QED
      BY <2>2, <3>1
  <2> QED
    BY <2>1, <2>2 DEF Init
<1> QED
  BY <1>1 DEF Init, FileInv, HalfwayInv, Halfway

\* While the file is text, whoever has a line to himself is read.
LEMMA TextIsRead == IsText => Fixed = Settled /\ Settled \subseteq Read
  BY DEF Fixed, Settled, Readable, Read

\* A record whose append succeeded and met no other is read from then on, as long as
\* nothing in the file breaks off inside a character, which ends the whole of it for
\* its readers (crates/authz-suggest/src/audit.rs:60-64, 78-90).
THEOREM AloneIsRead == Spec => []ReadUnlessCrowded
<1>1. FileInv => ReadUnlessCrowded
  BY TextIsRead DEF FileInv, ReadUnlessCrowded
<1> QED
  BY <1>1, Initially, StepKeeps, PTL DEF Spec

\* What has a line to itself keeps it, because the file only grows, and is read until
\* something breaks off inside a character.
THEOREM SettledForever == Spec => SettledStays
<1>1. FileInv /\ [Next]_vars => [IsText' => Settled \subseteq Settled']_file
  <2> SUFFICES ASSUME FileInv, Next, file' # file, IsText'
               PROVE  Settled \subseteq Settled'
    BY DEF vars
  <2>1. PICK x \in Tokens : file' = Append(file, x)
    BY DEF Next, Decide, Open, WriteText, TextFails, WriteNewline, Answer, KillCommand,
           KillGateway, BrokenOff, Count, WriteDraft, Extended, Tokens, All
  <2>2. file \in Seq(Tokens)
    BY DEF FileInv
  <2>3. IsText
    BY <2>1, <2>2, Appended DEF IsText
  <2>4. Fixed' = Settled'
    BY DEF Fixed, Settled, Readable
  <2> QED
    BY <2>1, <2>2, <2>3, <2>4, SettledKept, TextIsRead
<1> QED
  BY <1>1, Initially, StepKeeps, PTL DEF Spec, SettledStays

-----------------------------------------------------------------------------
(***************************************************************************)
(* Suggestions.  No record is written twice, so that two lines that deny   *)
(* are two decisions.                                                      *)
(***************************************************************************)
Begun(d) == d \in Legacy \/ pc[d] # "new"

Earned(topic) ==
    \E d, e \in Denials : /\ d # e /\ About[d] = topic /\ About[e] = topic
                          /\ Begun(d) /\ Begun(e)

Once ==
    /\ file \in Seq(Tokens)
    /\ \A i, j \in DOMAIN file : file[i] \in Decisions /\ file[i] = file[j] => i = j
    /\ \A i \in DOMAIN file : file[i] \in Legacy => i = 1
    /\ \A i \in DOMAIN file : file[i] \in Decisions => pc[file[i]] \notin {"new", "open", "text"}

EarnedInv ==
    /\ pc \in [Decisions -> {"new", "open", "text", "newline", "answer", "over"}]
    /\ due \in [Commands -> SUBSET Topics]
    /\ Once
    /\ \A c \in Commands, topic \in Topics : topic \in due[c] => Earned(topic)
    /\ \A topic \in drafts : Earned(topic)

\* Two lines that deny the same are two decisions that began.
LEMMA CountIsEarned ==
    ASSUME Once, NEW topic \in Suggested
    PROVE  Earned(topic)
<1> DEFINE D == Denied(topic)
<1>1. /\ D \subseteq 1..Len(file) /\ Len(file) \in Nat /\ Cardinality(D) >= 2
      /\ DOMAIN file = 1..Len(file)
  BY DEF Suggested, Once, Denied, Readable, OnItsLine
<1> HIDE DEF D
<1>2. IsFiniteSet(D)
  <2>1. IsFiniteSet(1..Len(file))
    BY <1>1, FS_Interval
  <2> QED
    BY <1>1, <2>1, FS_Subset
<1>3. D # {}
  BY <1>1, FS_EmptySet
<1>4. PICK i \in D : TRUE
  BY <1>3
<1>5. PICK j \in D : j # i
  <2>1. D # {i}
    <3>1. Cardinality({i}) = 1
      BY FS_Singleton
    <3>2. Cardinality(D) # 1
      BY <1>1
    <3> QED
      BY <3>1, <3>2, Zenon
  <2> QED
    BY <1>4, <2>1
<1>6. /\ i \in DOMAIN file /\ j \in DOMAIN file
      /\ file[i] \in Denials /\ file[j] \in Denials
      /\ About[file[i]] = topic /\ About[file[j]] = topic
  BY <1>1, <1>4, <1>5 DEF D, Denied, Readable, OnItsLine
<1>7. file[i] \in Decisions \cup Legacy /\ file[j] \in Decisions \cup Legacy
  BY <1>6, FileConstantsOK DEF All
<1>8. file[i] # file[j]
  BY <1>5, <1>6, <1>7 DEF Once
<1>9. Begun(file[i]) /\ Begun(file[j])
  BY <1>6, <1>7 DEF Once, Begun
<1> QED
  BY <1>6, <1>8, <1>9 DEF Earned

\* Who began has begun ever after.
LEMMA EarnedKept ==
    ASSUME NEW topic, Earned(topic), \A d \in Decisions : pc[d] # "new" => pc'[d] # "new"
    PROVE  Earned(topic)'
<1>1. PICK d \in Denials, e \in Denials : /\ d # e /\ About[d] = topic /\ About[e] = topic
                                          /\ Begun(d) /\ Begun(e)
  BY DEF Earned
<1>2. Begun(d)' /\ Begun(e)'
  BY <1>1, FileConstantsOK DEF Begun, All
<1> QED
  BY <1>1, <1>2 DEF Earned

\* A step that leaves the file alone and takes nobody back keeps Once.
LEMMA OnceKept ==
    ASSUME Once, UNCHANGED file,
           \A d \in Decisions : pc[d] \notin {"new", "open", "text"}
                                  => pc'[d] \notin {"new", "open", "text"}
    PROVE  Once'
  BY DEF Once

\* Newlines and pieces of records are no decisions.
LEMMA OnceMarked ==
    ASSUME Once, NEW x \in {Torn, Cut, Newline}, file' = Append(file, x),
           \A d \in Decisions : pc[d] \notin {"new", "open", "text"}
                                  => pc'[d] \notin {"new", "open", "text"}
    PROVE  Once'
<1>1. x \in Tokens /\ x \notin Decisions /\ x \notin Legacy
  BY FileConstantsOK DEF Tokens, All
<1>2. file \in Seq(Tokens)
  BY DEF Once
<1>3. \A i \in DOMAIN file' : (i \in DOMAIN file /\ file'[i] = file[i]) \/ file'[i] = x
  BY <1>1, <1>2, Appended
<1> QED
  BY <1>1, <1>2, <1>3, Appended DEF Once

\* A decision writes its record when it has written none, so it stays the only one.
LEMMA OnceWritten ==
    ASSUME EarnedInv, NEW d \in Decisions, WriteText(d) \/ WriteNewline(d)
    PROVE  Once'
<1>p. /\ pc' \in [Decisions -> {"new", "open", "text", "newline", "answer", "over"}]
      /\ \A e \in Decisions : pc[e] \notin {"new", "open", "text"} => pc'[e] = pc[e] \/ pc'[e] = "answer"
  BY DEF EarnedInv, WriteText, WriteNewline, Move
<1>1. CASE UNCHANGED file
  BY <1>1, <1>p, OnceKept DEF EarnedInv
<1>2. CASE file' = Append(file, Newline)
  BY <1>2, <1>p, OnceMarked DEF EarnedInv
<1>3. CASE file' = Append(file, d) /\ WriteText(d)
  <2>1. d \in Tokens /\ d \notin Legacy /\ file \in Seq(Tokens)
    BY FileConstantsOK DEF Tokens, All, EarnedInv, Once
  <2>2. pc[d] = "text" /\ pc'[d] = "newline"
    BY <1>3 DEF WriteText, Move, EarnedInv
  <2>3. \A i \in DOMAIN file : file[i] # d
    BY <2>2 DEF EarnedInv, Once
  <2>4. \A i \in DOMAIN file' : \/ i \in DOMAIN file /\ file'[i] = file[i]
                                \/ i = Len(file) + 1 /\ file'[i] = d
    BY <1>3, <2>1, Appended
  <2>5. file' \in Seq(Tokens) /\ \A i \in DOMAIN file : file'[i] = file[i]
    BY <1>3, <2>1, Appended
  <2>6. \A i, j \in DOMAIN file' : file'[i] \in Decisions /\ file'[i] = file'[j] => i = j
    <3>1. \A i, j \in DOMAIN file : file[i] \in Decisions /\ file[i] = file[j] => i = j
      BY DEF EarnedInv, Once
    <3> QED
      BY <2>3, <2>4, <3>1
  <2>7. \A i \in DOMAIN file' : file'[i] \in Legacy => i = 1
    BY <2>1, <2>4 DEF EarnedInv, Once
  <2>8. \A i \in DOMAIN file' : file'[i] \in Decisions => pc'[file'[i]] \notin {"new", "open", "text"}
    <3>1. \A i \in DOMAIN file : file[i] \in Decisions => pc[file[i]] \notin {"new", "open", "text"}
      BY DEF EarnedInv, Once
    <3>2. \A i \in DOMAIN file : file[i] \in Decisions => pc'[file[i]] \notin {"new", "open", "text"}
      BY <1>p, <3>1
    <3> QED
      BY <2>2, <2>4, <3>2
  <2> QED
    BY <2>5, <2>6, <2>7, <2>8 DEF Once
<1> QED
  BY <1>1, <1>2, <1>3 DEF WriteText, WriteNewline, Extended

\* Every step keeps what suggestions are earned by.
LEMMA EarnedStep == EarnedInv /\ [Next]_vars => EarnedInv'
<1> SUFFICES ASSUME EarnedInv, [Next]_vars
             PROVE  EarnedInv'
  OBVIOUS
<1>k. ASSUME Once',
             pc' \in [Decisions -> {"new", "open", "text", "newline", "answer", "over"}],
             \A d \in Decisions : pc[d] # "new" => pc'[d] # "new",
             UNCHANGED <<due, drafts>>
      PROVE  EarnedInv'
  BY <1>k, EarnedKept DEF EarnedInv
<1>b. ASSUME BrokenOff \/ UNCHANGED file, UNCHANGED <<due, drafts>>,
             pc' \in [Decisions -> {"new", "open", "text", "newline", "answer", "over"}],
             \A e \in Decisions : pc[e] # "new" => pc'[e] # "new",
             \A e \in Decisions : pc[e] \notin {"new", "open", "text"}
                                    => pc'[e] \notin {"new", "open", "text"}
      PROVE  EarnedInv'
  <2>1. Once'
    BY <1>b, OnceKept, OnceMarked DEF EarnedInv, BrokenOff, Extended
  <2> QED
    BY <1>b, <1>k, <2>1
<1>1. ASSUME NEW d \in Decisions, WriteText(d) \/ WriteNewline(d)
      PROVE  EarnedInv'
  BY <1>1, <1>k, OnceWritten DEF EarnedInv, WriteText, WriteNewline, Move
<1>2. ASSUME NEW d \in Decisions, Decide(d) \/ Open(d) \/ TextFails(d) \/ Answer(d) \/ KillCommand(d)
      PROVE  EarnedInv'
  <2>1. /\ BrokenOff \/ UNCHANGED file
        /\ UNCHANGED <<due, drafts>>
        /\ pc' \in [Decisions -> {"new", "open", "text", "newline", "answer", "over"}]
        /\ \A e \in Decisions : pc[e] # "new" => pc'[e] # "new"
        /\ \A e \in Decisions : pc[e] \notin {"new", "open", "text"}
                                  => pc'[e] \notin {"new", "open", "text"}
    BY <1>2 DEF EarnedInv, Decide, Open, TextFails, Answer, KillCommand, Move
  <2> QED
    BY <1>b, <2>1
<1>3. CASE KillGateway
  <2>1. /\ BrokenOff \/ UNCHANGED file
        /\ UNCHANGED <<due, drafts>>
        /\ pc' \in [Decisions -> {"new", "open", "text", "newline", "answer", "over"}]
        /\ \A e \in Decisions : pc[e] # "new" => pc'[e] # "new"
        /\ \A e \in Decisions : pc[e] \notin {"new", "open", "text"}
                                  => pc'[e] \notin {"new", "open", "text"}
    BY <1>3 DEF EarnedInv, KillGateway
  <2> QED
    BY <1>b, <2>1
<1>4. ASSUME NEW c \in Commands, Count(c)
      PROVE  EarnedInv'
  <2>1. UNCHANGED <<file, pc, drafts>> /\ due' = [due EXCEPT ![c] = Suggested]
    BY <1>4 DEF Count
  <2>2. Once' /\ \A topic : Earned(topic) => Earned(topic)'
    BY <2>1, OnceKept, EarnedKept DEF EarnedInv
  <2>3. Suggested \subseteq Topics /\ \A topic \in Suggested : Earned(topic)
    BY CountIsEarned DEF EarnedInv, Suggested
  <2> QED
    BY <2>1, <2>2, <2>3 DEF EarnedInv
<1>5. ASSUME NEW c \in Commands, WriteDraft(c)
      PROVE  EarnedInv'
  <2>1. PICK topic \in due[c] : /\ drafts' = drafts \cup {topic}
                                /\ due' = [due EXCEPT ![c] = @ \ {topic}]
    BY <1>5 DEF WriteDraft
  <2>2. UNCHANGED <<file, pc>> /\ topic \in Topics /\ Earned(topic)
    BY <1>5, <2>1 DEF WriteDraft, EarnedInv
  <2>3. Once' /\ \A t : Earned(t) => Earned(t)'
    BY <2>2, OnceKept, EarnedKept DEF EarnedInv
  <2> QED
    BY <2>1, <2>2, <2>3 DEF EarnedInv
<1>6. CASE UNCHANGED vars
  <2>1. UNCHANGED <<file, pc, due, drafts>>
    BY <1>6 DEF vars
  <2> QED
    BY <1>k, <2>1, OnceKept DEF EarnedInv
<1> QED
  BY <1>1, <1>2, <1>3, <1>4, <1>5, <1>6 DEF Next

\* At the start there is at most one line, of an older version, and no draft.
LEMMA EarnedInitially == Init => EarnedInv
<1> SUFFICES ASSUME Init
             PROVE  EarnedInv
  OBVIOUS
<1>1. Once
  <2>1. CASE file = <<>>
    BY <2>1 DEF Once
  <2>2. ASSUME NEW d \in Legacy, file = <<d, Newline>>
        PROVE  Once
    <3>1. d \in Tokens /\ Newline \in Tokens /\ d \notin Decisions
          /\ Newline \notin Decisions /\ Newline \notin Legacy
      BY FileConstantsOK DEF Tokens, All
    <3>2. DOMAIN file = {1, 2} /\ file[1] = d /\ file[2] = Newline /\ file \in Seq(Tokens)
      BY <2>2, <3>1
    <3> QED
      BY <3>1, <3>2 DEF Once
  <2> QED
    BY <2>1, <2>2 DEF Init
<1> QED
  BY <1>1 DEF Init, EarnedInv

\* Every draft that denies something was earned by two decisions that denied it
\* (crates/authz-suggest/src/lib.rs:42-75), however many decisions and commands there
\* are and whatever the file has lost.
THEOREM SuggestionsAreEarned == Spec => []SuggestionsEarned
<1>1. EarnedInv => SuggestionsEarned
  BY DEF EarnedInv, SuggestionsEarned, Earned, Begun
<1> QED
  BY <1>1, EarnedInitially, EarnedStep, PTL DEF Spec

-----------------------------------------------------------------------------
(***************************************************************************)
(* Types.  A draft is of what some decision denied, because it was counted *)
(* in the file: the types follow from the two invariants above.            *)
(***************************************************************************)
RestInv ==
    /\ server \in [Decisions -> {"none", "gateway", "command"}]
    /\ known \subseteq told /\ told \subseteq Decisions
    /\ faults \in 0..MaxFaults /\ kills \in 0..MaxKills
    /\ crowded \subseteq Decisions

\* No step takes a variable out of its range.
LEMMA RestKept == RestInv /\ [Next]_vars => RestInv'
<1> SUFFICES ASSUME RestInv, [Next]_vars
             PROVE  RestInv'
  OBVIOUS
<1> USE DEF RestInv, history, Move
<1>f. MaxFaults \in Nat /\ MaxKills \in Nat
  BY FileConstantsOK
<1>g. Fault => faults' \in 0..MaxFaults
  BY <1>f DEF Fault
<1>k. kills < MaxKills /\ kills' = kills + 1 => kills' \in 0..MaxKills
  BY <1>f
<1>1. ASSUME NEW d \in Decisions, Decide(d)
      PROVE  RestInv'
  BY <1>1 DEF Decide
<1>2. ASSUME NEW d \in Decisions, Open(d)
      PROVE  RestInv'
  BY <1>2, <1>g DEF Open
<1>3. ASSUME NEW d \in Decisions, WriteText(d)
      PROVE  RestInv'
  BY <1>3 DEF WriteText, Halfway
<1>4. ASSUME NEW d \in Decisions, TextFails(d)
      PROVE  RestInv'
  BY <1>4, <1>g DEF TextFails, BrokenOff, Halfway
<1>5. ASSUME NEW d \in Decisions, WriteNewline(d)
      PROVE  RestInv'
  BY <1>5, <1>g DEF WriteNewline
<1>6. ASSUME NEW d \in Decisions, Answer(d)
      PROVE  RestInv'
  BY <1>6 DEF Answer
<1>7. ASSUME NEW d \in Decisions, KillCommand(d)
      PROVE  RestInv'
  BY <1>7, <1>k DEF KillCommand, BrokenOff, Halfway
<1>8. CASE KillGateway
  BY <1>8, <1>k DEF KillGateway, BrokenOff, Halfway
<1>9. ASSUME NEW c \in Commands, Count(c) \/ WriteDraft(c)
      PROVE  RestInv'
  BY <1>9 DEF Count, WriteDraft
<1>10. CASE UNCHANGED vars
  BY <1>10 DEF vars
<1> QED
  BY <1>1, <1>2, <1>3, <1>4, <1>5, <1>6, <1>7, <1>8, <1>9, <1>10 DEF Next

\* Types hold whatever fails and is killed; above all, nothing is drafted that was
\* never denied (audit.rs:57-90, authz-suggest/src/lib.rs:42-75).
THEOREM FileTypes == Spec => []TypeOK
<1>1. Init => RestInv
  BY FileConstantsOK DEF Init, RestInv
<1>2. FileInv /\ EarnedInv /\ RestInv => TypeOK
  <2> SUFFICES ASSUME FileInv, EarnedInv, RestInv
               PROVE  TypeOK
    OBVIOUS
  <2>1. drafts \subseteq {About[d] : d \in Denials}
    BY DEF EarnedInv, Earned
  <2>2. due \in [Commands -> SUBSET Topics]
    BY DEF EarnedInv
  <2> QED
    BY <2>1, <2>2 DEF FileInv, RestInv, TypeOK, Tokens
<1>3. Spec => [](FileInv /\ RestInv)
  BY <1>1, Initially, StepKeeps, RestKept, PTL DEF Spec
<1>4. Spec => []EarnedInv
  BY EarnedInitially, EarnedStep, PTL DEF Spec
<1> QED
  BY <1>2, <1>3, <1>4, PTL

=============================================================================
