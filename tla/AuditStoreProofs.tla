-------------------------- MODULE AuditStoreProofs -------------------------
(***************************************************************************)
(* Proofs that the audit path keeps the promise of AuditLog, whatever its  *)
(* writer thread, the handlers and SQLite interleave or fail at, and       *)
(* wherever the process ends: the rows are a history, a row has its        *)
(* evidence, nothing is lost without a cause, and the board never goes     *)
(* back.                                                                   *)
(***************************************************************************)
EXTENDS AuditStore, FiniteSetTheorems, SequenceTheorems, TLAPS

-----------------------------------------------------------------------------
(***************************************************************************)
(* A decision moves from the channel to the batch, from there into the     *)
(* transaction and from there to the rows.  Each of the four is ordered,   *)
(* and none holds a decision that is older than one that is further on.    *)
(***************************************************************************)
\* What the batch still holds of decisions whose row was not attempted.
Rest == IF writer = "evidence" THEN Tail(batch) ELSE batch

Increasing(s) == \A i, j \in DOMAIN s : i < j => s[i] < s[j]

Older(S, T) == \A x \in S : \A y \in T : x < y

Ordered ==
    /\ Increasing(rows) /\ Increasing(txRows) /\ Increasing(batch) /\ Increasing(channel)
    /\ Older(ToSet(rows), OnItsWay)
    /\ Older(ToSet(txRows), ToSet(Rest) \cup ToSet(channel))
    /\ Older(ToSet(batch), ToSet(channel))
    /\ ToSet(rows) \cup ToSet(batch) \cup OnItsWay \subseteq 1..sent

\* Where the writer thread is says what it holds; while the store is opened
\* there is nobody to hand over a decision.
Phases ==
    /\ writer \in {"open", "recv", "dead"} => batch = <<>>
    /\ writer = "drain" => Len(batch) \in 1..(MaxBatch - 1)
    /\ writer = "evidence" => batch # <<>>
    /\ writer = "dead" => channel = <<>>
    /\ writer \in {"open", "recv", "drain", "begin", "dead"} => ~inTx
    /\ start \in {"migrations", "version", "tables", "number"} =>
          channel = <<>> /\ writer \in {"open", "recv", "dead"}

\* The tables are there before their number is recorded, and the number is read
\* before they are made: only a failed call can make them a second time.
Migrated ==
    /\ start \in {"number", "serving"} \/ version = 1 => made = ToSet(TableNames)
    /\ faults = 0 =>
          /\ start \notin {"refused", "unstored"} /\ writer # "dead"
          /\ start \in {"tables", "number"} => version = 0

\* Without failing calls every batch is written inside a transaction, and the
\* evidence in it belongs to its rows.
Paired ==
    faults = 0 =>
        /\ ToSet(rows) = evidence
        /\ writer \in {"row", "evidence"} => inTx
        /\ ToSet(txRows) = txEvidence \cup (IF writer = "evidence" THEN {Head(batch)} ELSE {})

Shown == ToSet(board) \subseteq ToSet(rows)

\* The inductive invariant of the audit path.
IInv == TypeOK /\ Phases /\ Ordered /\ Migrated /\ Paired /\ NothingLostQuietly /\ Shown

-----------------------------------------------------------------------------
(***************************************************************************)
(* The sequences of the model and what they hold.                          *)
(***************************************************************************)
\* Nothing is in an empty queue, and it is ordered.
LEMMA EmptyQueue == ToSet(<<>>) = {} /\ Increasing(<<>>)
BY DEF ToSet, Increasing

\* A newer decision at the end keeps a queue ordered.
LEMMA Appending ==
    ASSUME NEW S \in SUBSET Nat, NEW s \in Seq(S), NEW x \in S
    PROVE  /\ Append(s, x) \in Seq(S) /\ Len(Append(s, x)) = Len(s) + 1
           /\ ToSet(Append(s, x)) = ToSet(s) \cup {x}
           /\ Increasing(s) /\ Older(ToSet(s), {x}) => Increasing(Append(s, x))
<1> DEFINE t == Append(s, x)
<1>1. /\ t \in Seq(S) /\ Len(t) = Len(s) + 1
      /\ DOMAIN s = 1..Len(s) /\ DOMAIN t = 1..(Len(s) + 1) /\ Len(s) \in Nat
  OBVIOUS
<1>2. (\A i \in DOMAIN s : t[i] = s[i]) /\ t[Len(s) + 1] = x
  OBVIOUS
<1> HIDE DEF t
<1>3. ToSet(t) = ToSet(s) \cup {x}
  <2>1. \A i \in DOMAIN t : i \in DOMAIN s \/ i = Len(s) + 1
    BY <1>1
  <2>2. \A i \in DOMAIN s : i \in DOMAIN t
    BY <1>1
  <2>3. Len(s) + 1 \in DOMAIN t
    BY <1>1
  <2>4. ASSUME NEW y \in ToSet(t)
        PROVE  y \in ToSet(s) \cup {x}
    BY <2>1, <1>2 DEF ToSet
  <2>5. ASSUME NEW y \in ToSet(s) \cup {x}
        PROVE  y \in ToSet(t)
    BY <2>2, <2>3, <1>2 DEF ToSet
  <2> QED
    BY <2>4, <2>5
<1>4. ASSUME Increasing(s), Older(ToSet(s), {x}), NEW i \in DOMAIN t, NEW j \in DOMAIN t, i < j
      PROVE  t[i] < t[j]
  <2>1. CASE j \in DOMAIN s
    <3>1. i \in DOMAIN s
      BY <1>1, <1>4, <2>1
    <3> QED
      BY <1>2, <1>4, <2>1, <3>1 DEF Increasing
  <2>2. CASE j \notin DOMAIN s
    <3>1. i \in DOMAIN s /\ j = Len(s) + 1
      BY <1>1, <1>4, <2>2
    <3>2. s[i] \in ToSet(s)
      BY <3>1 DEF ToSet
    <3> QED
      BY <1>2, <1>4, <3>1, <3>2 DEF Older
  <2> QED
    BY <2>1, <2>2
<1>5. Increasing(s) /\ Older(ToSet(s), {x}) => Increasing(t)
  BY <1>4 DEF Increasing
<1> QED
  BY <1>1, <1>3, <1>5 DEF t

\* Taking the first decision leaves the newer ones.
LEMMA Taking ==
    ASSUME NEW S \in SUBSET Nat, NEW s \in Seq(S), s # <<>>
    PROVE  /\ Head(s) \in S /\ Tail(s) \in Seq(S) /\ Len(Tail(s)) = Len(s) - 1
           /\ ToSet(s) = {Head(s)} \cup ToSet(Tail(s))
           /\ Increasing(s) => Increasing(Tail(s)) /\ Older({Head(s)}, ToSet(Tail(s)))
<1> DEFINE t == Tail(s)
<1>1. /\ Head(s) \in S /\ t \in Seq(S) /\ Len(t) = Len(s) - 1 /\ Head(s) = s[1]
      /\ DOMAIN s = 1..Len(s) /\ DOMAIN t = 1..(Len(s) - 1) /\ Len(s) \in Nat /\ Len(s) >= 1
  OBVIOUS
<1>2. \A i \in DOMAIN t : t[i] = s[i + 1]
  OBVIOUS
<1> HIDE DEF t
<1>3. \A i \in DOMAIN t : i + 1 \in DOMAIN s /\ i \in Nat /\ i >= 1
  BY <1>1
<1>4. ToSet(s) = {Head(s)} \cup ToSet(t)
  <2>1. ASSUME NEW y \in ToSet(s)
        PROVE  y \in {Head(s)} \cup ToSet(t)
    <3>1. PICK i \in DOMAIN s : y = s[i]
      BY DEF ToSet
    <3>2. CASE i = 1
      BY <1>1, <3>1, <3>2
    <3>3. CASE i # 1
      <4>1. i - 1 \in DOMAIN t /\ (i - 1) + 1 = i
        BY <1>1, <3>3
      <4>2. t[i - 1] = y
        BY <1>2, <3>1, <4>1
      <4> QED
        BY <4>1, <4>2 DEF ToSet
    <3> QED
      BY <3>2, <3>3
  <2>2. ASSUME NEW y \in {Head(s)} \cup ToSet(t)
        PROVE  y \in ToSet(s)
    <3>1. 1 \in DOMAIN s
      BY <1>1
    <3> QED
      BY <1>1, <1>2, <1>3, <3>1 DEF ToSet
  <2> QED
    BY <2>1, <2>2
<1>5. ASSUME Increasing(s)
      PROVE  Increasing(t) /\ Older({Head(s)}, ToSet(t))
  <2>1. Increasing(t)
    <3> SUFFICES ASSUME NEW i \in DOMAIN t, NEW j \in DOMAIN t, i < j
                 PROVE  t[i] < t[j]
      BY DEF Increasing
    <3>1. i + 1 < j + 1
      BY <1>1
    <3> QED
      BY <1>2, <1>3, <1>5, <3>1 DEF Increasing
  <2>2. ASSUME NEW i \in DOMAIN t
        PROVE  s[1] < t[i]
    <3>1. 1 \in DOMAIN s /\ i + 1 \in DOMAIN s /\ 1 < i + 1
      BY <1>1, <1>3
    <3> QED
      BY <1>2, <1>5, <3>1 DEF Increasing
  <2> QED
    BY <1>1, <2>1, <2>2 DEF Older, ToSet
<1> QED
  BY <1>1, <1>4, <1>5 DEF t

\* Rows that become visible together go to the end.
LEMMA Joining ==
    ASSUME NEW S \in SUBSET Nat, NEW s \in Seq(S), NEW u \in Seq(S)
    PROVE  /\ s \o u \in Seq(S)
           /\ ToSet(s \o u) = ToSet(s) \cup ToSet(u)
           /\ Increasing(s) /\ Increasing(u) /\ Older(ToSet(s), ToSet(u)) => Increasing(s \o u)
<1> DEFINE t == s \o u
<1>1. /\ t \in Seq(S) /\ DOMAIN s = 1..Len(s) /\ DOMAIN u = 1..Len(u)
      /\ DOMAIN t = 1..(Len(s) + Len(u)) /\ Len(s) \in Nat /\ Len(u) \in Nat
  OBVIOUS
<1>2. \A i \in DOMAIN s : i \in DOMAIN t /\ t[i] = s[i]
  BY <1>1
<1>3. \A i \in DOMAIN u : Len(s) + i \in DOMAIN t /\ t[Len(s) + i] = u[i]
  BY <1>1
<1> HIDE DEF t
<1>4. ASSUME NEW i \in DOMAIN t
      PROVE  i \in DOMAIN s \/ (\E k \in DOMAIN u : i = Len(s) + k /\ t[i] = u[k])
  <2>1. CASE i <= Len(s)
    BY <1>1, <2>1
  <2>2. CASE i > Len(s)
    <3>1. i - Len(s) \in DOMAIN u /\ i = Len(s) + (i - Len(s))
      BY <1>1, <2>2
    <3> QED
      BY <1>3, <3>1
  <2> QED
    BY <1>1, <2>1, <2>2
<1>5. ToSet(t) = ToSet(s) \cup ToSet(u)
  <2>1. ASSUME NEW y \in ToSet(t)
        PROVE  y \in ToSet(s) \cup ToSet(u)
    BY <1>2, <1>4 DEF ToSet
  <2>2. ASSUME NEW y \in ToSet(s) \cup ToSet(u)
        PROVE  y \in ToSet(t)
    BY <1>2, <1>3 DEF ToSet
  <2> QED
    BY <2>1, <2>2
<1>6. ASSUME Increasing(s), Increasing(u), Older(ToSet(s), ToSet(u)),
             NEW i \in DOMAIN t, NEW j \in DOMAIN t, i < j
      PROVE  t[i] < t[j]
  <2>1. CASE i \in DOMAIN s /\ j \in DOMAIN s
    BY <1>2, <1>6, <2>1 DEF Increasing
  <2>2. CASE i \in DOMAIN s /\ \E k \in DOMAIN u : j = Len(s) + k /\ t[j] = u[k]
    BY <1>2, <1>6, <2>2 DEF Older, ToSet
  <2>3. CASE (\E k \in DOMAIN u : i = Len(s) + k /\ t[i] = u[k]) /\ j \in DOMAIN s
    BY <1>1, <1>6, <2>3
  <2>4. ASSUME NEW k \in DOMAIN u, i = Len(s) + k /\ t[i] = u[k],
               NEW l \in DOMAIN u, j = Len(s) + l /\ t[j] = u[l]
        PROVE  t[i] < t[j]
    <3>1. k < l
      BY <1>1, <1>6, <2>4
    <3> QED
      BY <1>6, <2>4, <3>1 DEF Increasing
  <2> QED
    BY <1>4, <2>1, <2>2, <2>3, <2>4
<1>7. Increasing(s) /\ Increasing(u) /\ Older(ToSet(s), ToSet(u)) => Increasing(t)
  BY <1>6 DEF Increasing
<1> QED
  BY <1>1, <1>5, <1>7 DEF t

-----------------------------------------------------------------------------
(***************************************************************************)
(* The writer thread, one step after the other.                            *)
(***************************************************************************)
\* Decisions are numbers.
LEMMA Numbers == Decisions \in SUBSET Nat /\ MaxSent \in Nat
BY AuditConstantsOK DEF Decisions

\* So a newer decision at the end of a queue of decisions keeps it ordered.
LEMMA AppendingDecision ==
    ASSUME NEW s \in Seq(Decisions), NEW x \in Decisions
    PROVE  /\ Append(s, x) \in Seq(Decisions) /\ Len(Append(s, x)) = Len(s) + 1
           /\ ToSet(Append(s, x)) = ToSet(s) \cup {x}
           /\ Increasing(s) /\ Older(ToSet(s), {x}) => Increasing(Append(s, x))
<1>1. Decisions \in SUBSET Nat
  BY Numbers
<1> QED
  BY <1>1, Appending

\* What is on its way, wherever the writer thread is.
Queued == ToSet(channel) \cup ToSet(txRows) \cup ToSet(Rest)

\* That is what AuditLog is told of by the refinement mapping, before and after a step.
LEMMA QueuedIsOnItsWay == OnItsWay = Queued /\ (OnItsWay = Queued)'
BY DEF OnItsWay, Queued, Rest

\* The failed calls are counted, within their bound.
LEMMA Failing ==
    ASSUME TypeOK, Fault \/ UNCHANGED faults
    PROVE  /\ faults' \in 0..MaxFaults /\ (faults' = 0 => faults = 0)
           /\ Fault => faults' # 0
BY AuditConstantsOK DEF TypeOK, Fault

\* The thread opens its connection before anything is handed over, or what was
\* handed over is lost with the channel.
LEMMA OpenConnectionKeeps ==
    ASSUME IInv, OpenConnection, UNCHANGED <<start, schema, board>>
    PROVE  IInv' /\ OnItsWay' \subseteq OnItsWay /\ UNCHANGED <<rows, sent>>
<1> USE EmptyQueue DEF OpenConnection, IInv, schema, tables
<1>0. batch = <<>> /\ batch' = batch /\ UNCHANGED <<rows, txRows, sent>>
      /\ (channel' = channel \/ channel' = <<>>) /\ Rest = batch /\ Rest' = batch
  BY DEF Phases, Rest
<1>1. TypeOK'
  <2>1. faults' \in 0..MaxFaults
    BY Failing
  <2>2. <<>> \in Seq(Decisions)
    OBVIOUS
  <2> QED
    BY <1>0, <2>1, <2>2 DEF TypeOK
<1>2. Phases'
  BY DEF Phases
<1>3. OnItsWay' \subseteq OnItsWay
  BY <1>0, QueuedIsOnItsWay DEF Queued
<1>4. Ordered'
  BY <1>0, <1>3 DEF Ordered, Older
<1>5. Migrated'
  BY DEF Migrated, Fault, TypeOK
<1>6. Paired'
  BY DEF Paired, Fault, TypeOK
<1>7. NothingLostQuietly'
  BY <1>0, QueuedIsOnItsWay DEF NothingLostQuietly, Fault, TypeOK, Queued
<1>8. Shown'
  BY DEF Shown
<1> QED
  BY <1>0, <1>1, <1>2, <1>3, <1>4, <1>5, <1>6, <1>7, <1>8

\* The oldest decision of the channel opens a batch.
LEMMA ReceiveKeeps ==
    ASSUME IInv, Receive, UNCHANGED <<start, schema, board>>
    PROVE  IInv' /\ OnItsWay' \subseteq OnItsWay /\ UNCHANGED <<rows, sent>>
<1> USE EmptyQueue DEF Receive, IInv, schema, tables
<1> DEFINE b == Head(channel)
<1>0. /\ batch = <<>> /\ Rest = <<>> /\ Rest' = <<b>> /\ UNCHANGED <<rows, txRows, sent>>
      /\ channel \in Seq(Decisions)
  BY DEF Phases, Rest, TypeOK
<1>a. /\ b \in Decisions /\ channel' \in Seq(Decisions)
      /\ ToSet(channel) = {b} \cup ToSet(channel')
      /\ Increasing(channel') /\ Older({b}, ToSet(channel'))
  BY <1>0, Numbers, Taking DEF Ordered
<1>b. batch' = <<b>> /\ ToSet(batch') = {b} /\ Increasing(batch')
      /\ batch' \in Seq(Decisions) /\ Len(batch') = 1
  BY <1>a DEF ToSet, Increasing
<1>1. TypeOK'
  BY <1>a, <1>b, AuditConstantsOK DEF TypeOK
<1>2. Phases'
  BY <1>b, AuditConstantsOK DEF Phases
<1>3. OnItsWay' = OnItsWay
  BY <1>0, <1>a, <1>b, QueuedIsOnItsWay DEF Queued
<1>4. Ordered'
  <2>1. ToSet(channel) \subseteq OnItsWay
    BY QueuedIsOnItsWay DEF Queued
  <2> QED
    BY <1>0, <1>3, <1>a, <1>b, <2>1 DEF Ordered, Older
<1>5. Migrated'
  BY DEF Migrated
<1>6. Paired'
  BY DEF Paired
<1>7. NothingLostQuietly'
  BY <1>0, <1>3 DEF NothingLostQuietly
<1>8. Shown'
  BY DEF Shown
<1> QED
  BY <1>0, <1>1, <1>2, <1>3, <1>4, <1>5, <1>6, <1>7, <1>8

\* The batch takes the next decision while it is not full.
LEMMA DrainKeeps ==
    ASSUME IInv, Drain, UNCHANGED <<start, schema, board>>
    PROVE  IInv' /\ OnItsWay' \subseteq OnItsWay /\ UNCHANGED <<rows, sent>>
<1> USE DEF Drain, IInv, schema, tables
<1> DEFINE b == Head(channel)
<1>0. /\ Rest = batch /\ Rest' = batch' /\ UNCHANGED <<rows, txRows, sent>>
      /\ channel \in Seq(Decisions) /\ batch \in Seq(Decisions)
      /\ Len(batch) \in 1..(MaxBatch - 1)
  BY DEF Phases, Rest, TypeOK
<1>a. /\ b \in Decisions /\ channel' \in Seq(Decisions)
      /\ ToSet(channel) = {b} \cup ToSet(channel')
      /\ Increasing(channel') /\ Older({b}, ToSet(channel'))
  BY <1>0, Numbers, Taking DEF Ordered
<1>b. /\ batch' \in Seq(Decisions) /\ Len(batch') = Len(batch) + 1
      /\ ToSet(batch') = ToSet(batch) \cup {b}
      /\ Increasing(batch')
  <2>1. Older(ToSet(batch), {b}) /\ Increasing(batch)
    BY <1>0, <1>a DEF Ordered, Older
  <2>2. batch' = Append(batch, b)
    OBVIOUS
  <2> HIDE DEF b, Drain, IInv, schema, tables
  <2> QED
    BY <1>0, <1>a, <2>1, <2>2, AppendingDecision
<1>1. TypeOK'
  <2>1. Len(batch') <= MaxBatch
    BY <1>0, <1>b, AuditConstantsOK
  <2>2. writer' \in {"drain", "begin"} /\ UNCHANGED <<inTx, txRows, txEvidence, rows, evidence, faults, crashes>>
    OBVIOUS
  <2>3. TypeOK
    OBVIOUS
  <2> HIDE DEF b, Drain, IInv
  <2> QED
    BY <1>0, <1>a, <1>b, <2>1, <2>2, <2>3 DEF TypeOK
<1>2. Phases'
  BY <1>0, <1>b, AuditConstantsOK DEF Phases
<1>3. OnItsWay' = OnItsWay
  BY <1>0, <1>a, <1>b, QueuedIsOnItsWay DEF Queued
<1>4. Ordered'
  <2>1. ToSet(channel) \subseteq OnItsWay
    BY QueuedIsOnItsWay DEF Queued
  <2> QED
    BY <1>0, <1>3, <1>a, <1>b, <2>1 DEF Ordered, Older
<1>5. Migrated'
  BY DEF Migrated
<1>6. Paired'
  BY DEF Paired
<1>7. NothingLostQuietly'
  BY <1>0, <1>3 DEF NothingLostQuietly
<1>8. Shown'
  BY DEF Shown
<1> QED
  BY <1>0, <1>1, <1>2, <1>3, <1>4, <1>5, <1>6, <1>7, <1>8

\* Ending the batch, and beginning its transaction or failing to, moves nothing.
LEMMA BeginKeeps ==
    ASSUME IInv, Drained \/ Begin, UNCHANGED <<start, schema, board>>
    PROVE  IInv' /\ OnItsWay' \subseteq OnItsWay /\ UNCHANGED <<rows, sent>>
<1> USE DEF Drained, Begin, IInv, schema, tables
<1>0. /\ Rest = batch /\ Rest' = batch /\ UNCHANGED <<rows, txRows, txEvidence, sent, channel, batch>>
      /\ writer \in {"drain", "begin"} /\ writer' \in {"begin", "row"}
      /\ txRows = <<>> /\ txEvidence = {}
  BY DEF Rest, TypeOK, Phases
<1>1. TypeOK'
  <2>1. faults' \in 0..MaxFaults /\ inTx' \in BOOLEAN
    BY Failing DEF TypeOK
  <2> QED
    BY <1>0, <2>1 DEF TypeOK
<1>2. Phases'
  BY DEF Phases
<1>3. OnItsWay' = OnItsWay
  BY <1>0, QueuedIsOnItsWay DEF Queued
<1>4. Ordered'
  BY <1>0, <1>3 DEF Ordered
<1>5. Migrated'
  BY Failing DEF Migrated
<1>6. Paired'
  BY <1>0, Failing DEF Paired
<1>7. NothingLostQuietly'
  BY <1>0, <1>3, Failing DEF NothingLostQuietly
<1>8. Shown'
  BY DEF Shown
<1> QED
  BY <1>0, <1>1, <1>2, <1>3, <1>4, <1>5, <1>6, <1>7, <1>8

\* A row is written into the transaction, or at once, or not at all.
LEMMA InsertRowKeeps ==
    ASSUME IInv, InsertRow, UNCHANGED <<start, schema, board>>
    PROVE  IInv'
<1> USE DEF InsertRow, IInv, schema
<1> DEFINE h == Head(batch)
<1>0. /\ Rest = batch /\ Rest' = Tail(batch) /\ batch \in Seq(Decisions) /\ batch # <<>>
      /\ UNCHANGED <<sent, channel, batch, inTx, txEvidence, evidence>>
      /\ rows \in Seq(Decisions) /\ txRows \in Seq(Decisions)
      /\ faults' \in 0..MaxFaults /\ (faults' = 0 => faults = 0) /\ (faults' = 0 => inTx)
  <2>1. faults' \in 0..MaxFaults /\ (faults' = 0 => faults = 0)
    BY Failing
  <2> QED
    BY <2>1 DEF Rest, TypeOK, Paired
<1>a. /\ h \in Decisions /\ ToSet(batch) = {h} \cup ToSet(Rest')
      /\ Older({h}, ToSet(Rest'))
  BY <1>0, Numbers, Taking DEF Ordered
<1>b. Older(ToSet(txRows), {h}) /\ Older(ToSet(rows), {h})
  BY <1>0, <1>a, QueuedIsOnItsWay DEF Ordered, Older, Queued
<1>c. \/ /\ inTx /\ UNCHANGED <<rows, faults>>
         /\ txRows' \in Seq(Decisions) /\ Increasing(txRows') /\ ToSet(txRows') = ToSet(txRows) \cup {h}
      \/ /\ ~inTx /\ UNCHANGED <<txRows, faults>>
         /\ rows' \in Seq(Decisions) /\ Increasing(rows') /\ ToSet(rows') = ToSet(rows) \cup {h}
      \/ Fault /\ UNCHANGED <<rows, txRows>>
  <2>0. Increasing(txRows) /\ Increasing(rows)
    BY DEF Ordered
  <2>1. CASE inTx /\ txRows' = Append(txRows, h) /\ UNCHANGED <<rows, faults>>
    <3> HIDE DEF h, InsertRow, IInv, schema
    <3> QED
      BY <1>0, <1>a, <1>b, <2>0, <2>1, AppendingDecision
  <2>2. CASE ~inTx /\ rows' = Append(rows, h) /\ UNCHANGED <<txRows, faults>>
    <3> HIDE DEF h, InsertRow, IInv, schema
    <3> QED
      BY <1>0, <1>a, <1>b, <2>0, <2>2, AppendingDecision
  <2>3. CASE Fault /\ UNCHANGED <<rows, txRows>>
    BY <2>3
  <2> QED
    BY <2>1, <2>2, <2>3
<1>1. TypeOK'
  BY <1>0, <1>c DEF TypeOK
<1>2. Phases'
  BY <1>0 DEF Phases
<1>3. /\ OnItsWay = ToSet(channel) \cup ToSet(txRows) \cup {h} \cup ToSet(Rest')
      /\ OnItsWay' = ToSet(channel) \cup ToSet(txRows') \cup ToSet(Rest')
  BY <1>0, <1>a, QueuedIsOnItsWay DEF Queued
<1>4. Ordered'
  <2>1. /\ Increasing(rows') /\ Increasing(txRows')
        /\ Increasing(batch') /\ Increasing(channel')
    BY <1>0, <1>c DEF Ordered
  <2>2. Older(ToSet(rows'), OnItsWay')
    <3>1. ~inTx => ToSet(txRows) = {}
      BY EmptyQueue DEF TypeOK
    <3>2. ToSet(batch) \subseteq OnItsWay /\ Older({h}, ToSet(channel))
      BY <1>a, <1>3 DEF Ordered, Older
    <3> QED
      BY <1>0, <1>a, <1>b, <1>c, <1>3, <3>1, <3>2 DEF Ordered, Older
  <2>3. Older(ToSet(txRows'), ToSet(Rest') \cup ToSet(channel'))
    BY <1>0, <1>a, <1>b, <1>c DEF Ordered, Older
  <2>4. ToSet(rows') \cup ToSet(batch') \cup OnItsWay' \subseteq 1..sent'
    BY <1>0, <1>a, <1>c, <1>3 DEF Ordered
  <2> QED
    BY <1>0, <2>1, <2>2, <2>3, <2>4 DEF Ordered
<1>5. Migrated'
  BY <1>0 DEF Migrated
<1>6. Paired'
  BY <1>0, <1>c, Failing DEF Paired
<1>7. NothingLostQuietly'
  BY <1>0, <1>3, <1>c, Failing DEF NothingLostQuietly
<1>8. Shown'
  BY <1>c DEF Shown
<1> QED
  BY <1>1, <1>2, <1>4, <1>5, <1>6, <1>7, <1>8

\* Its evidence follows, and the decision leaves the batch.
LEMMA InsertEvidenceKeeps ==
    ASSUME IInv, InsertEvidence, UNCHANGED <<start, schema, board>>
    PROVE  IInv' /\ OnItsWay' \subseteq OnItsWay /\ UNCHANGED <<rows, sent>>
<1> USE DEF InsertEvidence, IInv, schema
<1> DEFINE h == Head(batch)
<1>0. /\ batch' = Tail(batch) /\ Rest = Tail(batch) /\ Rest' = Tail(batch)
      /\ batch \in Seq(Decisions) /\ batch # <<>> /\ Len(batch) \in Nat /\ Len(batch) <= MaxBatch
      /\ UNCHANGED <<sent, channel, inTx, txRows, rows, crashes>>
      /\ faults' \in 0..MaxFaults /\ (faults' = 0 => faults = 0 /\ inTx /\ ~Fault)
  <2>1. faults' \in 0..MaxFaults /\ (faults' = 0 => faults = 0 /\ ~Fault)
    BY Failing
  <2> QED
    BY <2>1 DEF Rest, TypeOK, Paired, Phases
<1>a. /\ h \in Decisions /\ ToSet(batch) = {h} \cup ToSet(batch')
      /\ batch' \in Seq(Decisions) /\ Len(batch') = Len(batch) - 1
      /\ Increasing(batch')
  BY <1>0, Numbers, Taking DEF Ordered
<1>1. TypeOK'
  BY <1>0, <1>a, AuditConstantsOK DEF TypeOK
<1>2. Phases'
  BY <1>0 DEF Phases
<1>3. OnItsWay' = OnItsWay
  BY <1>0, QueuedIsOnItsWay DEF Queued
<1>4. Ordered'
  BY <1>0, <1>3, <1>a DEF Ordered, Older
<1>5. Migrated'
  BY <1>0 DEF Migrated
<1>6. Paired'
  <2> SUFFICES ASSUME faults' = 0
               PROVE  Paired'
    BY DEF Paired
  <2>1. /\ faults = 0 /\ writer = "evidence" /\ writer' = "row"
        /\ txEvidence' = txEvidence \cup {h} /\ UNCHANGED <<evidence, rows, txRows, inTx>>
    BY <1>0
  <2>2. inTx /\ ToSet(rows) = evidence /\ ToSet(txRows) = txEvidence \cup {h}
    BY <2>1 DEF Paired
  <2> QED
    BY <2>1, <2>2 DEF Paired
<1>7. NothingLostQuietly'
  BY <1>0, <1>3 DEF NothingLostQuietly
<1>8. Shown'
  BY <1>0 DEF Shown
<1> QED
  BY <1>0, <1>1, <1>2, <1>3, <1>4, <1>5, <1>6, <1>7, <1>8

\* The transaction becomes visible as a whole, or is gone as a whole.
LEMMA EndOfBatchKeeps ==
    ASSUME IInv, EndOfBatch, UNCHANGED <<start, schema, board>>
    PROVE  IInv'
<1> USE EmptyQueue DEF EndOfBatch, IInv, schema, tables
<1>0. /\ batch = <<>> /\ batch' = <<>> /\ Rest = <<>> /\ Rest' = <<>> /\ txRows' = <<>>
      /\ rows \in Seq(Decisions) /\ txRows \in Seq(Decisions)
      /\ UNCHANGED <<sent, channel, crashes>>
      /\ faults' \in 0..MaxFaults /\ (faults' = 0 => faults = 0) /\ (Fault => faults' # 0)
  <2>1. faults' \in 0..MaxFaults /\ (faults' = 0 => faults = 0) /\ (Fault => faults' # 0)
    BY Failing
  <2> QED
    BY <2>1 DEF Rest, TypeOK
<1>3. /\ OnItsWay = ToSet(channel) \cup ToSet(txRows)
      /\ OnItsWay' = ToSet(channel)
  BY <1>0, QueuedIsOnItsWay DEF Queued
<1>b. \/ /\ rows' \in Seq(Decisions) /\ Increasing(rows') /\ UNCHANGED faults
         /\ ToSet(rows') = ToSet(rows) \cup ToSet(txRows) /\ evidence' = evidence \cup txEvidence
      \/ Fault /\ UNCHANGED <<rows, evidence>>
  <2>1. Older(ToSet(rows), ToSet(txRows))
    BY <1>3 DEF Ordered, Older
  <2>2. CASE rows' = rows \o txRows /\ evidence' = evidence \cup txEvidence /\ UNCHANGED faults
    BY <1>0, <2>1, <2>2, Numbers, Joining DEF Ordered
  <2> QED
    BY <2>2
<1>1. TypeOK'
  <2>1. <<>> \in Seq(Decisions)
    OBVIOUS
  <2> QED
    BY <1>0, <1>b, <2>1 DEF TypeOK
<1>2. Phases'
  BY <1>0 DEF Phases
<1>4. Ordered'
  BY <1>0, <1>3, <1>b DEF Ordered, Older
<1>5. Migrated'
  BY <1>0 DEF Migrated
<1>6. Paired'
  BY <1>0, <1>b DEF Paired
<1>7. NothingLostQuietly'
  BY <1>0, <1>3, <1>b DEF NothingLostQuietly
<1>8. Shown'
  BY <1>b DEF Shown
<1> QED
  BY <1>1, <1>2, <1>4, <1>5, <1>6, <1>7, <1>8

-----------------------------------------------------------------------------
(***************************************************************************)
(* The handlers, the opening of the store and the end of the process.      *)
(***************************************************************************)
\* A decision is handed over at the end of the channel, newer than all others.
LEMMA EnqueueKeeps ==
    ASSUME IInv, EnqueueAudit, UNCHANGED <<start, schema, board>>
    PROVE  IInv'
<1> USE DEF EnqueueAudit, IInv, schema, tables
<1> DEFINE d == sent + 1
<1>0. /\ UNCHANGED <<writer, batch, inTx, txRows, txEvidence, rows, evidence, faults, crashes>>
      /\ Rest' = Rest /\ sent \in Nat /\ d \in Decisions /\ channel \in Seq(Decisions)
      /\ start \in {"serving", "unstored"} /\ sent' = d /\ d \in 0..MaxSent
      /\ d \in 1..d /\ 1..d = 1..sent \cup {d} /\ (\A e \in 1..sent : e < d)
  BY AuditConstantsOK DEF Rest, TypeOK, Decisions
<1>a. \/ channel' = channel /\ writer = "dead"
      \/ /\ writer # "dead"
         /\ channel' \in Seq(Decisions) /\ ToSet(channel') = ToSet(channel) \cup {d}
         /\ Increasing(channel')
  <2>1. Older(ToSet(channel), {d})
    BY <1>0, QueuedIsOnItsWay DEF Ordered, Older, Queued
  <2> QED
    BY <1>0, <2>1, Numbers, Appending DEF Ordered
<1>1. TypeOK'
  BY <1>0, <1>a DEF TypeOK
<1>2. Phases'
  BY <1>0, <1>a DEF Phases
<1>3. /\ OnItsWay = ToSet(channel) \cup ToSet(txRows) \cup ToSet(Rest)
      /\ OnItsWay' = ToSet(channel') \cup ToSet(txRows) \cup ToSet(Rest)
  BY <1>0, QueuedIsOnItsWay DEF Queued
<1>4. Ordered'
  <2>1. /\ ToSet(rows) \subseteq 1..sent /\ ToSet(txRows) \subseteq 1..sent
        /\ ToSet(batch) \subseteq 1..sent
    BY <1>3 DEF Ordered
  <2>2. Older(ToSet(rows), {d}) /\ Older(ToSet(txRows), {d}) /\ Older(ToSet(batch), {d})
    BY <1>0, <2>1 DEF Older
  <2> QED
    BY <1>0, <1>3, <1>a, <2>1, <2>2 DEF Ordered, Older
<1>5. Migrated'
  BY <1>0 DEF Migrated
<1>6. Paired'
  BY <1>0 DEF Paired
<1>7. NothingLostQuietly'
  BY <1>0, <1>3, <1>a DEF NothingLostQuietly, Migrated
<1>8. Shown'
  BY <1>0 DEF Shown
<1> QED
  BY <1>1, <1>2, <1>4, <1>5, <1>6, <1>7, <1>8

\* Opening the store touches no decision; when it fails, nobody handed over any.
LEMMA OpeningKeeps ==
    ASSUME IInv, Opening
    PROVE  IInv' /\ OnItsWay' \subseteq OnItsWay /\ UNCHANGED <<rows, sent>>
<1> USE DEF IInv, schema, tables, memory
<1>0. /\ UNCHANGED <<sent, channel, batch, inTx, txRows, txEvidence, rows, evidence, board, crashes>>
      /\ start \in {"migrations", "version", "tables", "number"}
      /\ (writer' = writer \/ (writer' = "dead" /\ faults' # 0)) /\ writer \in {"open", "recv", "dead"}
      /\ faults' \in 0..MaxFaults /\ (faults' = 0 => faults = 0) /\ (Fault => faults' # 0)
      /\ start' \in Starts
  <2>1. /\ UNCHANGED <<sent, channel, batch, inTx, txRows, txEvidence, rows, evidence, board, crashes>>
        /\ start \in {"migrations", "version", "tables", "number"}
        /\ (Fault \/ UNCHANGED faults) /\ start' \in Starts
    BY DEF Opening, OpenStore, ReadVersion, MakeTables, RecordVersion, OpenFails, Starts
  <2>2. faults' \in 0..MaxFaults /\ (faults' = 0 => faults = 0) /\ (Fault => faults' # 0)
    BY <2>1, Failing
  <2>3. writer' = writer \/ (writer' = "dead" /\ (Fault \/ (start = "number" /\ version = 1 /\ UNCHANGED faults)))
    BY DEF Opening, OpenStore, ReadVersion, MakeTables, RecordVersion, OpenFails
  <2>4. writer' = writer \/ (writer' = "dead" /\ faults' # 0)
    BY <2>2, <2>3 DEF Migrated
  <2> QED
    BY <2>1, <2>2, <2>4 DEF Phases
<1>a. /\ made \subseteq made' /\ made' \subseteq ToSet(TableNames) /\ version' \in 0..1
      /\ start' \in {"number", "serving"} \/ version' = 1 => made' = ToSet(TableNames)
      /\ faults' = 0 =>
            /\ start' \notin {"refused", "unstored"}
            /\ start' \in {"tables", "number"} => version' = 0
  <2>1. CASE OpenStore
    BY <2>1, <1>0 DEF OpenStore, Migrated, TypeOK
  <2>2. CASE ReadVersion
    BY <2>2, <1>0 DEF ReadVersion, Migrated, TypeOK
  <2>3. CASE MakeTables
    <3>1. \A i \in DOMAIN TableNames : TableNames[i] \in ToSet(TableNames)
      BY DEF ToSet
    <3> QED
      BY <2>3, <3>1, <1>0 DEF MakeTables, Migrated, TypeOK
  <2>4. CASE RecordVersion
    BY <2>4, <1>0 DEF RecordVersion, Migrated, TypeOK
  <2>5. CASE OpenFails
    BY <2>5, <1>0 DEF OpenFails, Migrated, TypeOK
  <2> QED
    BY <2>1, <2>2, <2>3, <2>4, <2>5 DEF Opening
<1>b. Rest' = Rest
  BY <1>0 DEF Rest
<1>1. TypeOK'
  BY <1>0, <1>a DEF TypeOK
<1>2. Phases'
  BY <1>0 DEF Phases
<1>3. OnItsWay' = OnItsWay
  BY <1>0, <1>b, QueuedIsOnItsWay DEF Queued
<1>4. Ordered'
  BY <1>0, <1>3, <1>b DEF Ordered
<1>5. Migrated'
  BY <1>0, <1>a DEF Migrated
<1>6. Paired'
  BY <1>0 DEF Paired
<1>7. NothingLostQuietly'
  BY <1>0, <1>3 DEF NothingLostQuietly
<1>8. Shown'
  BY <1>0 DEF Shown
<1> QED
  BY <1>0, <1>1, <1>2, <1>3, <1>4, <1>5, <1>6, <1>7, <1>8

\* With the process goes what is in memory, and nothing else.
LEMMA CrashKeeps ==
    ASSUME IInv, Crash
    PROVE  IInv' /\ OnItsWay' \subseteq OnItsWay /\ UNCHANGED <<rows, sent>>
<1> USE EmptyQueue DEF Crash, IInv, schema, tables
<1>0. /\ Rest' = <<>> /\ UNCHANGED <<made, version, sent, rows, evidence, board, faults>>
      /\ crashes' \in 0..MaxCrashes /\ crashes' # 0
  BY AuditConstantsOK DEF Rest, TypeOK
<1>1. TypeOK'
  <2>1. <<>> \in Seq(Decisions) /\ Len(<<>>) = 0
    OBVIOUS
  <2>2. Len(batch') <= MaxBatch
    BY <2>1, AuditConstantsOK
  <2> QED
    BY <1>0, <2>1, <2>2 DEF TypeOK, Starts
<1>2. Phases'
  BY DEF Phases
<1>3. OnItsWay' = {}
  BY <1>0, QueuedIsOnItsWay DEF Queued
<1>4. Ordered'
  BY <1>0, <1>3 DEF Ordered, Older
<1>5. Migrated'
  BY <1>0 DEF Migrated
<1>6. Paired'
  BY <1>0 DEF Paired
<1>7. NothingLostQuietly'
  BY <1>0 DEF NothingLostQuietly
<1>8. Shown'
  BY <1>0 DEF Shown
<1> QED
  BY <1>0, <1>1, <1>2, <1>3, <1>4, <1>5, <1>6, <1>7, <1>8

\* How many rows the board lists.
Listed(m, n) == m \in Nat /\ ((m = n /\ n < Len(rows)) \/ (m = Len(rows) /\ m <= n))

\* What the board lists: the last rows, the newest first.
LEMMA NewestRows ==
    ASSUME rows \in Seq(Decisions), NEW n \in Nat, n >= 1
    PROVE  \E m \in Nat :
              /\ Listed(m, n)
              /\ Newest(n) \in Seq(Decisions) /\ Len(Newest(n)) = m
              /\ \A i \in 1..m : /\ Len(rows) - i + 1 \in 1..Len(rows)
                                 /\ Newest(n)[i] = rows[Len(rows) - i + 1]
<1>1. Len(rows) \in Nat
  OBVIOUS
<1>2. PICK k \in Nat : /\ k >= 1
                       /\ k = (IF Len(rows) > n THEN Len(rows) - n + 1 ELSE 1)
                       /\ Listed(Len(rows) - k + 1, n)
  <2>1. CASE Len(rows) > n
    <3>1. /\ Len(rows) - n + 1 \in Nat /\ Len(rows) - n + 1 >= 1
          /\ Len(rows) - (Len(rows) - n + 1) + 1 = n
      BY <1>1, <2>1
    <3> QED
      BY <2>1, <3>1 DEF Listed
  <2>2. CASE ~(Len(rows) > n)
    <3>1. Len(rows) - 1 + 1 = Len(rows) /\ Len(rows) <= n
      BY <1>1, <2>2
    <3> QED
      BY <1>1, <2>2, <3>1 DEF Listed
  <2> QED
    BY <2>1, <2>2
<1> DEFINE w == SubSeq(rows, k, Len(rows))
<1>3. PICK m \in Nat : m = Len(rows) - k + 1 /\ Listed(m, n) /\ m <= Len(rows)
  BY <1>1, <1>2 DEF Listed
<1>4. /\ w \in Seq(Decisions) /\ Len(w) = m
      /\ \A i \in 1..m : w[i] = rows[k + i - 1]
  <2>1. \A i \in k..Len(rows) : rows[i] \in Decisions
    BY <1>1, <1>2
  <2>2. /\ w \in Seq(Decisions)
        /\ Len(w) = IF k <= Len(rows) THEN Len(rows) - k + 1 ELSE 0
        /\ \A i \in 1..(Len(rows) - k + 1) : w[i] = rows[k + i - 1]
    BY <1>1, <2>1, SubSeqProperties
  <2>3. Len(w) = m
    BY <1>1, <1>3, <2>2
  <2> QED
    BY <1>3, <2>2, <2>3
<1>5. Newest(n) = [i \in 1..m |-> w[(m - i) + 1]]
  BY <1>2, <1>4 DEF Newest, Reverse
<1> HIDE DEF w
<1>6. \A i \in 1..m : (m - i) + 1 \in 1..m
  OBVIOUS
<1>7. Newest(n) \in Seq(Decisions) /\ Len(Newest(n)) = m
  BY <1>4, <1>5, <1>6
<1>8. ASSUME NEW i \in 1..m
      PROVE  Len(rows) - i + 1 \in 1..Len(rows) /\ Newest(n)[i] = rows[Len(rows) - i + 1]
  <2>1. Len(rows) - i + 1 \in 1..Len(rows)
    BY <1>1, <1>3
  <2>2. k + ((m - i) + 1) - 1 = Len(rows) - i + 1
    BY <1>1, <1>3
  <2>3. Newest(n)[i] = rows[k + ((m - i) + 1) - 1]
    BY <1>4, <1>5, <1>6
  <2> QED
    BY <2>1, <2>2, <2>3
<1> QED
  BY <1>3, <1>7, <1>8

\* Every row is on the new board, or is older than all that is on it, which is
\* full then.
LEMMA BoardOrOlder ==
    ASSUME IInv, RecentAudit, NEW x \in ToSet(rows)
    PROVE  \/ x \in ToSet(board')
           \/ Len(board') = BoardRows /\ \A j \in DOMAIN board' : board'[j] > x
<1>0. /\ rows \in Seq(Decisions) /\ Increasing(rows) /\ board' = Newest(BoardRows)
      /\ BoardRows \in Nat /\ BoardRows >= 1
  BY AuditConstantsOK DEF IInv, TypeOK, Ordered, RecentAudit
<1>1. PICK m \in Nat :
          /\ Listed(m, BoardRows)
          /\ board' \in Seq(Decisions) /\ Len(board') = m
          /\ \A i \in 1..m : /\ Len(rows) - i + 1 \in 1..Len(rows)
                             /\ board'[i] = rows[Len(rows) - i + 1]
  BY <1>0, NewestRows
<1>2. Len(rows) \in Nat /\ DOMAIN rows = 1..Len(rows) /\ DOMAIN board' = 1..m
  BY <1>0, <1>1
<1>3. PICK p \in 1..Len(rows) : x = rows[p]
  BY <1>2 DEF ToSet
<1>4. CASE p >= Len(rows) - m + 1
  <2>1. Len(rows) - p + 1 \in 1..m /\ Len(rows) - (Len(rows) - p + 1) + 1 = p
    BY <1>0, <1>4
  <2>2. board'[Len(rows) - p + 1] = x
    BY <1>1, <1>3, <2>1
  <2> QED
    BY <1>2, <2>1, <2>2 DEF ToSet
<1>5. CASE p < Len(rows) - m + 1
  <2>1. m = BoardRows
    BY <1>0, <1>1, <1>5 DEF Listed
  <2>2. ASSUME NEW j \in 1..m
        PROVE  board'[j] > x
    <3>1. p < Len(rows) - j + 1
      BY <1>0, <1>5
    <3>2. Len(rows) - j + 1 \in 1..Len(rows)
      BY <1>1
    <3>3. rows[p] < rows[Len(rows) - j + 1]
      BY <1>0, <1>2, <3>1, <3>2 DEF Increasing
    <3>4. rows[p] \in Decisions /\ rows[Len(rows) - j + 1] \in Decisions
      BY <1>0, <3>2, ElementOfSeq
    <3> QED
      BY <1>1, <1>3, <3>3, <3>4, Numbers
  <2> QED
    BY <1>1, <1>2, <2>1, <2>2
<1> QED
  BY <1>2, <1>4, <1>5

\* The board reads and changes nothing else.
LEMMA RecentAuditKeeps ==
    ASSUME IInv, RecentAudit
    PROVE  IInv' /\ OnItsWay' \subseteq OnItsWay /\ UNCHANGED <<rows, sent>>
<1> USE DEF IInv, schema, tables, memory
<1>0. /\ UNCHANGED <<start, made, version, sent, channel, writer, batch, inTx, txRows, txEvidence>>
      /\ UNCHANGED <<rows, evidence, faults, crashes>> /\ Rest' = Rest
      /\ board' = Newest(BoardRows)
  BY DEF RecentAudit, Rest
<1>a. /\ board' \in Seq(Decisions) /\ Len(board') <= BoardRows /\ ToSet(board') \subseteq ToSet(rows)
  <2>1. rows \in Seq(Decisions) /\ BoardRows \in Nat /\ BoardRows >= 1
    BY AuditConstantsOK DEF TypeOK
  <2>2. PICK m \in Nat :
            /\ Listed(m, BoardRows)
            /\ board' \in Seq(Decisions) /\ Len(board') = m
            /\ \A i \in 1..m : /\ Len(rows) - i + 1 \in 1..Len(rows)
                               /\ board'[i] = rows[Len(rows) - i + 1]
    BY <1>0, <2>1, NewestRows
  <2>3. m <= BoardRows
    BY <2>1, <2>2 DEF Listed
  <2>4. DOMAIN board' = 1..m /\ DOMAIN rows = 1..Len(rows)
    BY <2>1, <2>2
  <2>5. ToSet(board') \subseteq ToSet(rows)
    BY <2>2, <2>4 DEF ToSet
  <2> QED
    BY <2>2, <2>3, <2>5
<1>1. TypeOK'
  BY <1>0, <1>a DEF TypeOK
<1>2. Phases'
  BY <1>0 DEF Phases
<1>3. OnItsWay' = OnItsWay
  BY <1>0, QueuedIsOnItsWay DEF Queued
<1>4. Ordered'
  BY <1>0, <1>3 DEF Ordered
<1>5. Migrated'
  BY <1>0 DEF Migrated
<1>6. Paired'
  BY <1>0 DEF Paired
<1>7. NothingLostQuietly'
  BY <1>0, <1>3 DEF NothingLostQuietly
<1>8. Shown'
  BY <1>0, <1>a DEF Shown
<1> QED
  BY <1>0, <1>1, <1>2, <1>3, <1>4, <1>5, <1>6, <1>7, <1>8

-----------------------------------------------------------------------------
(***************************************************************************)
(* The invariant, and the properties that follow from it.                  *)
(***************************************************************************)
\* A process that starts on an empty database has nothing in memory.
LEMMA Initially == Init => IInv
<1> SUFFICES ASSUME Init
             PROVE  IInv
  OBVIOUS
<1> USE EmptyQueue DEF Init
<1>1. OnItsWay = {}
  BY DEF OnItsWay
<1>2. TypeOK
  <2>1. <<>> \in Seq(Decisions) /\ Len(<<>>) = 0
    OBVIOUS
  <2>2. Len(board) <= BoardRows /\ Len(batch) <= MaxBatch
    BY <2>1, AuditConstantsOK
  <2>3. /\ start \in Starts /\ made \subseteq ToSet(TableNames) /\ version \in 0..1
        /\ sent \in 0..MaxSent /\ faults \in 0..MaxFaults /\ crashes \in 0..MaxCrashes
    BY AuditConstantsOK DEF Starts
  <2> QED
    BY <2>1, <2>2, <2>3 DEF TypeOK
<1>3. Phases
  BY DEF Phases
<1>4. Ordered
  BY <1>1 DEF Ordered, Older, Rest
<1>5. Migrated /\ Paired /\ Shown
  BY DEF Migrated, Paired, Shown
<1>6. NothingLostQuietly
  BY <1>1 DEF NothingLostQuietly
<1> QED
  BY <1>2, <1>3, <1>4, <1>5, <1>6 DEF IInv

\* A step that writes no row and takes no decision.
Quiet == OnItsWay' \subseteq OnItsWay /\ UNCHANGED <<rows, sent>>

\* Every step keeps the invariant, and only three are not quiet: a decision is
\* handed over, a row is inserted, a batch ends.
LEMMA Steps ==
    ASSUME IInv, [Next]_vars
    PROVE  /\ IInv'
           /\ EnqueueAudit \/ InsertRow \/ EndOfBatch \/ Quiet
<1>1. CASE Opening
  BY <1>1, OpeningKeeps DEF Quiet
<1>2. CASE Handler
  BY <1>2, EnqueueKeeps, RecentAuditKeeps DEF Handler, Quiet
<1>3. CASE Writer
  BY <1>3, OpenConnectionKeeps, ReceiveKeeps, DrainKeeps, BeginKeeps, InsertRowKeeps,
     InsertEvidenceKeeps, EndOfBatchKeeps DEF Writer, Quiet
<1>4. CASE Crash
  BY <1>4, CrashKeeps DEF Quiet
<1>5. CASE UNCHANGED vars
  <2>0. UNCHANGED <<start, made, version, sent, channel, writer, batch, inTx, txRows,
                    txEvidence, rows, evidence, board, faults, crashes>>
    BY <1>5 DEF vars, memory, schema, tables
  <2>1. OnItsWay' = OnItsWay /\ Rest' = Rest
    BY <2>0 DEF OnItsWay, Rest
  <2>2. TypeOK' /\ Phases'
    BY <2>0 DEF IInv, TypeOK, Phases
  <2>3. Ordered' /\ NothingLostQuietly'
    BY <2>0, <2>1 DEF IInv, Ordered, NothingLostQuietly
  <2>4. Migrated' /\ Paired' /\ Shown'
    BY <2>0 DEF IInv, Migrated, Paired, Shown
  <2> QED
    BY <2>0, <2>1, <2>2, <2>3, <2>4 DEF IInv, Quiet
<1> QED
  BY <1>1, <1>2, <1>3, <1>4, <1>5 DEF Next

\* The invariant is inductive.
LEMMA Stepwise == IInv /\ [Next]_vars => IInv'
BY Steps

\* The channel, the batch and the transaction hold decisions that were made, and
\* a batch never outgrows its limit (db.rs:53-61).
THEOREM TypeCorrect == Spec => []TypeOK
<1>1. IInv => TypeOK
  BY DEF IInv
<1> QED
  BY Initially, Stepwise, <1>1, PTL DEF Spec

\* A proxy with a store has its tables, and no place where an earlier process
\* ended while it made them keeps a later one from starting (db.rs:36-119).
THEOREM AlwaysStartsWithTables == Spec => []StartsWithItsTables
<1>1. IInv => StartsWithItsTables
  BY DEF IInv, Migrated, StartsWithItsTables
<1> QED
  BY Initially, Stepwise, <1>1, PTL DEF Spec

\* Batching loses nothing by itself: what has no row is on its way, unless the
\* process ended or SQLite failed (db.rs:53-92).
THEOREM NeverLostQuietly == Spec => []NothingLostQuietly
<1>1. IInv => NothingLostQuietly
  BY DEF IInv
<1> QED
  BY Initially, Stepwise, <1>1, PTL DEF Spec

\* A row has its evidence and evidence its row, whatever the writer thread was
\* at when the process ended (db.rs:62-91).
THEOREM RowsAlwaysHaveEvidence == Spec => []RowsHaveEvidence
<1>1. IInv => RowsHaveEvidence
  BY DEF IInv, Paired, RowsHaveEvidence, Explained
<1> QED
  BY Initially, Stepwise, <1>1, PTL DEF Spec

\* Rows are in the order the decisions were made, each at most once, so reading
\* them by id reads the history (db.rs:183-242).
THEOREM RowsAreAHistory == Spec => []Log!InOrder
<1>1. IInv => Log!InOrder
  BY DEF IInv, Ordered, Increasing, Log!InOrder
<1> QED
  BY Initially, Stepwise, <1>1, PTL DEF Spec

\* Who looks at the board again finds what was on it, or a board that is full of
\* newer rows (recent_audit, db.rs:213-242).
THEOREM BoardNeverGoesBack == Spec => BoardKeepsItsRows
<1> DEFINE Keeps == \A i \in DOMAIN board :
                       \/ board[i] \in ToSet(board')
                       \/ /\ Len(board') = BoardRows
                          /\ \A j \in DOMAIN board' : board'[j] > board[i]
<1>1. IInv /\ [Next]_vars => [Keeps]_vars
  <2> SUFFICES ASSUME IInv, Next
               PROVE  Keeps
    BY DEF vars
  <2>1. CASE RecentAudit
    <3> SUFFICES ASSUME NEW i \in DOMAIN board
                 PROVE  \/ board[i] \in ToSet(board')
                        \/ /\ Len(board') = BoardRows
                           /\ \A j \in DOMAIN board' : board'[j] > board[i]
      OBVIOUS
    <3>1. board[i] \in ToSet(rows)
      BY DEF IInv, Shown, ToSet
    <3> QED
      BY <2>1, <3>1, BoardOrOlder
  <2>2. CASE UNCHANGED board
    BY <2>2 DEF ToSet
  <2>3. RecentAudit \/ UNCHANGED board
    BY DEF Next, Handler, Writer, Opening, OpenStore, ReadVersion, MakeTables, RecordVersion,
           OpenFails, Crash
  <2> QED
    BY <2>1, <2>2, <2>3
<1> QED
  BY Initially, Stepwise, <1>1, PTL DEF Spec, BoardKeepsItsRows

-----------------------------------------------------------------------------
(***************************************************************************)
(* The audit path implements AuditLog.  What is on its way is pending      *)
(* there; a step without a new row may lose some of it, and rows become    *)
(* visible in the order of the decisions.                                  *)
(***************************************************************************)
\* What AuditLog calls pending is what is on its way, and that has no row.
LEMMA PendingIsOnItsWay ==
    ASSUME IInv
    PROVE  /\ Log!Recorded = ToSet(rows) /\ Log!Pending = OnItsWay
           /\ OnItsWay \cap ToSet(rows) = {} /\ OnItsWay \subseteq 1..sent /\ sent \in Nat
<1>1. /\ ToSet(rows) \subseteq 1..sent /\ OnItsWay \subseteq 1..sent /\ sent \in Nat
      /\ Older(ToSet(rows), OnItsWay)
  BY AuditConstantsOK DEF IInv, Ordered, TypeOK
<1>2. OnItsWay \cap ToSet(rows) = {}
  BY <1>1 DEF Older
<1>3. Log!Recorded = ToSet(rows)
  BY DEF Log!Recorded, ToSet
<1>4. Log!Pending = OnItsWay
  BY <1>1, <1>2, <1>3 DEF Log!Pending
<1> QED
  BY <1>1, <1>2, <1>3, <1>4

\* What AuditLog calls gone.
Gone == 1..sent \ (ToSet(rows) \cup OnItsWay)

\* What leaves the way without a row is gone.
LEMMA Dropped ==
    ASSUME NEW A, NEW R, NEW W \in SUBSET A, W \cap R = {}, NEW V \in SUBSET W
    PROVE  A \ (R \cup V) = (A \ (R \cup W)) \cup (W \ V)
OBVIOUS

\* What a quiet step drops is lost.
LEMMA QuietStepsLose ==
    ASSUME IInv, Quiet
    PROVE  Log!Lose
<1>1. OnItsWay \ OnItsWay' \in SUBSET Log!Pending
  BY PendingIsOnItsWay
<1>2. UNCHANGED <<rows, sent>> /\ OnItsWay' \in SUBSET OnItsWay
  BY DEF Quiet
<1>3. Gone' = 1..sent \ (ToSet(rows) \cup OnItsWay')
  BY <1>2 DEF Gone
<1>4. Gone' = Gone \cup (OnItsWay \ OnItsWay')
  BY <1>2, <1>3, PendingIsOnItsWay, Dropped DEF Gone
<1> QED
  BY <1>1, <1>2, <1>4 DEF Log!Lose, Gone

\* A decision that is handed over is pending, or lost to a writer that ended.
LEMMA EnqueueSends ==
    ASSUME IInv, EnqueueAudit
    PROVE  Log!Send
<1> DEFINE d == sent + 1
<1>1. /\ sent < MaxSent /\ sent' = d /\ rows' = rows /\ ToSet(rows)' = ToSet(rows)
      /\ UNCHANGED <<writer, batch, txRows>> /\ channel \in Seq(Decisions) /\ d \in Decisions
  BY AuditConstantsOK DEF EnqueueAudit, tables, ToSet, IInv, TypeOK, Decisions
<1>2. sent \in Nat /\ d \notin 1..sent /\ 1..d = 1..sent \cup {d}
  BY PendingIsOnItsWay
<1>3. OnItsWay' = OnItsWay \/ OnItsWay' = OnItsWay \cup {d}
  <2>1. channel' = channel \/ ToSet(channel') = ToSet(channel) \cup {d}
    <3>1. channel' = channel \/ channel' = Append(channel, d)
      BY DEF EnqueueAudit
    <3> HIDE DEF d
    <3>2. ToSet(Append(channel, d)) = ToSet(channel) \cup {d}
      BY <1>1, AppendingDecision
    <3> QED
      BY <3>1, <3>2
  <2> QED
    BY <1>1, <2>1 DEF OnItsWay
<1>4. Gone' = Gone \/ Gone' = Gone \cup {d}
  <2> DEFINE A == 1..sent
  <2>1. ToSet(rows) \subseteq A /\ OnItsWay \subseteq A /\ d \notin A
    BY <1>2 DEF IInv, Ordered
  <2>2. Gone' = (A \cup {d}) \ (ToSet(rows) \cup OnItsWay') /\ Gone = A \ (ToSet(rows) \cup OnItsWay)
    BY <1>1, <1>2 DEF Gone
  <2> HIDE DEF A, d
  <2> QED
    BY <1>3, <2>1, <2>2
<1> QED
  BY <1>1, <1>4 DEF Log!Send, Gone

\* As many decisions in order as there are numbers to choose from, at most.
LEMMA NoMoreThanSent ==
    ASSUME NEW n \in Nat, NEW s \in Seq(Nat), Increasing(s), ToSet(s) \subseteq 1..n
    PROVE  Len(s) <= n
<1>1. Len(s) \in Nat /\ DOMAIN s = 1..Len(s)
  OBVIOUS
<1>2. s \in Injection(1..Len(s), 1..n)
  <2>1. s \in [1..Len(s) -> 1..n]
    BY <1>1 DEF ToSet
  <2>2. ASSUME NEW i \in 1..Len(s), NEW j \in 1..Len(s), s[i] = s[j]
        PROVE  i = j
    <3>1. i \in Nat /\ j \in Nat /\ i \in DOMAIN s /\ j \in DOMAIN s
      BY <1>1
    <3>2. s[i] \in Nat
      BY <2>1
    <3>3. ~(s[i] < s[j]) /\ ~(s[j] < s[i])
      BY <2>2, <3>2
    <3>4. ~(i < j)
      BY <3>1, <3>3 DEF Increasing
    <3>5. ~(j < i)
      BY <3>1, <3>3 DEF Increasing
    <3> QED
      BY <3>1, <3>4, <3>5
  <2> QED
    BY <2>1, <2>2 DEF Injection, IsInjective
<1>3. IsFiniteSet(1..n) /\ Cardinality(1..n) = n
  BY FS_Interval
<1>4. Cardinality(1..Len(s)) = Len(s)
  <2> DEFINE l == Len(s)
  <2>1. l \in Int /\ l >= 0
    BY <1>1
  <2> HIDE DEF l
  <2>2. Cardinality(1..l) = IF 1 > l THEN 0 ELSE l - 1 + 1
    BY <2>1, FS_Interval
  <2>3. Cardinality(1..l) = l
    BY <2>1, <2>2
  <2> QED
    BY <2>3 DEF l
<1> QED
  BY <1>2, <1>3, <1>4, FS_Injection

\* New rows are the oldest of what is pending.
LEMMA NewRowsRecord ==
    ASSUME IInv, NEW new \in Seq(Decisions), new # <<>>, rows' = rows \o new, sent' = sent,
           Increasing(new), ToSet(new) \subseteq OnItsWay,
           OnItsWay' = OnItsWay \ ToSet(new), Older(ToSet(new), OnItsWay')
    PROVE  Log!Record
<1> DEFINE n == Len(new)
<1>0. /\ rows \in Seq(Decisions) /\ sent \in Nat /\ Log!Pending = OnItsWay
      /\ OnItsWay \subseteq 1..sent
  BY PendingIsOnItsWay DEF IInv, TypeOK
<1>1. n \in Nat /\ n >= 1 /\ DOMAIN new = 1..n /\ new \in Seq(Nat)
  <2>1. new \in Seq(Nat)
    BY Numbers, SeqMonotonic
  <2>2. n \in Nat /\ n # 0 /\ DOMAIN new = 1..n
    BY EmptySeq
  <2> QED
    BY <2>1, <2>2
<1>2. n \in 1..sent
  <2>1. ToSet(new) \subseteq 1..sent
    BY <1>0
  <2> QED
    BY <1>0, <1>1, <2>1, NoMoreThanSent
<1>3. new \in [1..n -> Log!Pending]
  BY <1>0, <1>1 DEF ToSet
<1>4. \A i, j \in 1..n : i < j => new[i] < new[j]
  BY <1>1 DEF Increasing
<1>5. ASSUME NEW p \in Log!Pending, p < new[n]
      PROVE  \E i \in 1..n : new[i] = p
  <2>1. n \in 1..n /\ p \in Nat
    BY <1>0, <1>1
  <2>2. new[n] \in ToSet(new) /\ new[n] \in Nat
    BY <1>1, <2>1 DEF ToSet
  <2>3. p \notin OnItsWay'
    BY <1>5, <2>1, <2>2 DEF Older
  <2> QED
    BY <1>0, <1>1, <2>3 DEF ToSet
<1>6. Gone' = Gone
  <2>1. ToSet(rows)' = ToSet(rows) \cup ToSet(new)
    BY <1>0, Numbers, Joining
  <2> QED
    BY <2>1 DEF Gone
<1> HIDE DEF n
<1> QED
  BY <1>2, <1>3, <1>4, <1>5, <1>6 DEF Log!Record, Gone

\* A row outside a transaction is visible at once; a row that fails is lost.
LEMMA InsertRowRecords ==
    ASSUME IInv, InsertRow
    PROVE  Log!Record \/ Log!Lose
<1> DEFINE h == Head(batch)
<1>0. /\ writer = "row" /\ writer' = "evidence" /\ batch # <<>> /\ batch \in Seq(Decisions)
      /\ UNCHANGED <<sent, channel, batch>> /\ rows \in Seq(Decisions) /\ txRows \in Seq(Decisions)
      /\ ~inTx => txRows = <<>>
  BY DEF InsertRow, IInv, TypeOK
<1>a. /\ h \in Decisions /\ ToSet(batch) = {h} \cup ToSet(Tail(batch))
      /\ Older({h}, ToSet(Tail(batch)))
  BY <1>0, Numbers, Taking DEF IInv, Ordered
<1>b. /\ OnItsWay = ToSet(channel) \cup ToSet(txRows) \cup {h} \cup ToSet(Tail(batch))
      /\ OnItsWay' = ToSet(channel) \cup ToSet(txRows') \cup ToSet(Tail(batch))
  BY <1>0, <1>a DEF OnItsWay
<1>1. CASE inTx /\ txRows' = Append(txRows, h) /\ rows' = rows
  <2>1. ToSet(txRows') = ToSet(txRows) \cup {h}
    <3>1. ToSet(Append(txRows, h)) = ToSet(txRows) \cup {h}
      <4> HIDE DEF h
      <4> QED
        BY <1>0, <1>a, AppendingDecision
    <3> QED
      BY <1>1, <3>1
  <2>2. Quiet
    BY <1>0, <1>1, <1>b, <2>1 DEF Quiet
  <2> QED
    BY <2>2, QuietStepsLose
<1>2. CASE ~inTx /\ rows' = Append(rows, h) /\ txRows' = txRows
  <2>1. rows' = rows \o <<h>> /\ <<h>> \in Seq(Decisions) /\ <<h>> # <<>>
    BY <1>0, <1>a, <1>2, AppendIsConcat
  <2>2. Increasing(<<h>>) /\ ToSet(<<h>>) = {h}
    BY DEF Increasing, ToSet
  <2>3. /\ OnItsWay = ToSet(channel) \cup {h} \cup ToSet(Tail(batch))
        /\ OnItsWay' = ToSet(channel) \cup ToSet(Tail(batch))
    BY <1>0, <1>2, <1>b, EmptyQueue
  <2>4. Older({h}, OnItsWay')
    BY <1>a, <2>3 DEF IInv, Ordered, Older
  <2>5. h \notin OnItsWay'
    <3>1. h \in Nat
      BY <1>a, Numbers
    <3> QED
      BY <2>4, <3>1 DEF Older
  <2> QED
    BY <1>0, <2>1, <2>2, <2>3, <2>4, <2>5, NewRowsRecord
<1>3. CASE rows' = rows /\ txRows' = txRows
  BY <1>0, <1>3, <1>b, QuietStepsLose DEF Quiet
<1> QED
  BY <1>1, <1>2, <1>3 DEF InsertRow

\* A commit makes the rows of its transaction visible; one that fails loses them.
LEMMA EndOfBatchRecords ==
    ASSUME IInv, EndOfBatch
    PROVE  Log!Record \/ Log!Lose
<1>0. /\ writer = "row" /\ writer' = "recv" /\ batch = <<>> /\ batch' = <<>> /\ txRows' = <<>>
      /\ UNCHANGED <<sent, channel>> /\ rows \in Seq(Decisions) /\ txRows \in Seq(Decisions)
  BY DEF EndOfBatch, IInv, TypeOK
<1>1. OnItsWay = ToSet(channel) \cup ToSet(txRows) /\ OnItsWay' = ToSet(channel)
  BY <1>0, EmptyQueue DEF OnItsWay
<1>2. CASE rows' = rows \o txRows /\ txRows # <<>>
  <2>1. Increasing(txRows) /\ Older(ToSet(txRows), OnItsWay')
    BY <1>1 DEF IInv, Ordered, Older
  <2>2. ToSet(txRows) \cap OnItsWay' = {}
    <3>1. OnItsWay \subseteq 1..sent
      BY PendingIsOnItsWay
    <3> QED
      BY <1>1, <2>1, <3>1 DEF Older
  <2> QED
    BY <1>0, <1>1, <1>2, <2>1, <2>2, NewRowsRecord
<1>3. CASE rows' = rows \/ (rows' = rows \o txRows /\ txRows = <<>>)
  BY <1>0, <1>1, <1>3, QuietStepsLose DEF Quiet
<1> QED
  BY <1>2, <1>3 DEF EndOfBatch, tables

\* enqueue_audit and the writer thread keep the promise of AuditLog: rows are in
\* the order of the decisions, each at most once, and none is taken back
\* (db.rs:43-100, db.rs:183-211).
THEOREM PromiseIsKept == Spec => KeepsThePromise
<1>1. Init => Log!Init
  BY EmptyQueue DEF Init, Log!Init, OnItsWay
<1>2. IInv /\ [Next]_vars => [Log!Next]_(Log!vars)
  <2> SUFFICES ASSUME IInv, [Next]_vars
               PROVE  Log!Next
    OBVIOUS
  <2> QED
    BY Steps, EnqueueSends, InsertRowRecords, EndOfBatchRecords, QuietStepsLose DEF Log!Next
<1> QED
  BY Initially, Stepwise, <1>1, <1>2, PTL DEF Spec, KeepsThePromise, Log!Spec

=============================================================================
