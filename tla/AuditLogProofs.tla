--------------------------- MODULE AuditLogProofs --------------------------
(***************************************************************************)
(* Proofs that a store that keeps the promise of AuditLog shows a history: *)
(* rows in the order of the decisions, each once, none taken back.         *)
(***************************************************************************)
EXTENDS AuditLog, TLAPS

Sequential == log \in Seq(1..sent) /\ gone \subseteq 1..sent /\ sent \in Nat

\* Nothing on its way is older than what is recorded: without this, InOrder
\* says nothing of the next row.
Frontier == \A i \in DOMAIN log : \A p \in Pending : log[i] < p

\* The inductive invariant of the log.
IInv == Sequential /\ InOrder /\ Settled /\ Frontier

-----------------------------------------------------------------------------
\* A new row is a pending decision, newer than all rows before it.
LEMMA Appended ==
    ASSUME IInv, NEW n \in 1..sent, NEW new \in [1..n -> Pending],
           \A i, j \in 1..n : i < j => new[i] < new[j],
           \A p \in Pending : p < new[n] => \E i \in 1..n : new[i] = p,
           log' = log \o new, UNCHANGED <<sent, gone>>
    PROVE  IInv'
<1>1. new \in Seq(1..sent) /\ Len(new) = n /\ n \in Nat /\ n >= 1
  BY DEF Pending, IInv, Sequential
<1>2. /\ log' \in Seq(1..sent')
      /\ Len(log') = Len(log) + n
      /\ \A i \in DOMAIN log : log'[i] = log[i]
      /\ \A i \in 1..n : log'[Len(log) + i] = new[i]
      /\ DOMAIN log = 1..Len(log) /\ DOMAIN log' = 1..(Len(log) + n)
      /\ Len(log) \in Nat
  <2>1. log \in Seq(1..sent) /\ log' = log \o new /\ sent' = sent
    BY DEF IInv, Sequential
  <2> DEFINE D == 1..sent
  <2>2. log \in Seq(D) /\ new \in Seq(D)
    BY <1>1, <2>1
  <2> HIDE DEF D
  <2>3. log \o new \in Seq(D) /\ Len(log \o new) = Len(log) + Len(new)
    BY <2>2
  <2>4. \A i \in 1..Len(log) : (log \o new)[i] = log[i]
    BY <2>2
  <2>5. \A i \in 1..Len(new) : (log \o new)[Len(log) + i] = new[i]
    BY <2>2
  <2>6. DOMAIN log = 1..Len(log) /\ Len(log) \in Nat
        /\ DOMAIN (log \o new) = 1..Len(log \o new)
    BY <2>2, <2>3
  <2>7. log' \in Seq(1..sent')
    BY <2>1, <2>3 DEF D
  <2> QED
    BY <1>1, <2>1, <2>3, <2>4, <2>5, <2>6, <2>7
<1>3. ASSUME NEW i \in DOMAIN log'
      PROVE  i \in DOMAIN log \/ (\E k \in 1..n : i = Len(log) + k /\ log'[i] = new[k])
  <2>1. CASE i <= Len(log)
    BY <1>2, <2>1
  <2>2. CASE i > Len(log)
    <3>1. i - Len(log) \in 1..n /\ i = Len(log) + (i - Len(log))
      BY <1>2, <1>1, <2>2
    <3> QED
      BY <1>2, <3>1
  <2> QED
    BY <1>1, <1>2, <2>1, <2>2
<1>4. Recorded' = Recorded \cup {new[k] : k \in 1..n}
  <2>1. ASSUME NEW r \in Recorded'
        PROVE  r \in Recorded \cup {new[k] : k \in 1..n}
    BY <1>2, <1>3, <2>1 DEF Recorded
  <2>2. ASSUME NEW r \in Recorded
        PROVE  r \in Recorded'
    BY <1>1, <1>2, <2>2 DEF Recorded
  <2>3. ASSUME NEW k \in 1..n
        PROVE  new[k] \in Recorded'
    <3>1. Len(log) + k \in DOMAIN log'
      BY <1>1, <1>2
    <3> QED
      BY <1>2, <3>1 DEF Recorded
  <2> QED
    BY <2>1, <2>2, <2>3
<1>5. Pending' = Pending \ {new[k] : k \in 1..n}
  BY <1>4 DEF Pending
<1>6. Sequential'
  BY <1>2 DEF IInv, Sequential
<1>7. InOrder'
  <2> SUFFICES ASSUME NEW i \in DOMAIN log', NEW j \in DOMAIN log', i < j
               PROVE  log'[i] < log'[j]
    BY DEF InOrder
  <2>1. CASE i \in DOMAIN log /\ j \in DOMAIN log
    BY <1>2, <2>1 DEF IInv, InOrder
  <2>2. CASE i \in DOMAIN log /\ \E k \in 1..n : j = Len(log) + k /\ log'[j] = new[k]
    BY <1>2, <2>2 DEF IInv, Frontier
  <2>3. CASE (\E k \in 1..n : i = Len(log) + k /\ log'[i] = new[k]) /\ j \in DOMAIN log
    BY <1>2, <2>3
  <2>4. ASSUME NEW k \in 1..n, i = Len(log) + k /\ log'[i] = new[k],
               NEW l \in 1..n, j = Len(log) + l /\ log'[j] = new[l]
        PROVE  log'[i] < log'[j]
    BY <1>2, <2>4
  <2> QED
    BY <1>3, <2>1, <2>2, <2>3, <2>4
<1>8. Settled'
  BY <1>4 DEF IInv, Settled, Pending
<1>9. Frontier'
  <2> SUFFICES ASSUME NEW i \in DOMAIN log', NEW p \in Pending'
               PROVE  log'[i] < p
    BY DEF Frontier
  <2>1. p \in Pending /\ \A k \in 1..n : new[k] # p
    BY <1>5
  <2>2. CASE i \in DOMAIN log
    BY <1>2, <2>1, <2>2 DEF IInv, Frontier
  <2>3. ASSUME NEW k \in 1..n, log'[i] = new[k]
        PROVE  log'[i] < p
    <3>1. new[k] \in Int /\ new[n] \in Int /\ p \in Int /\ n \in 1..n
      BY <1>1, <2>1 DEF Pending, IInv, Sequential
    <3>2. ~(p < new[n]) /\ p # new[n]
      BY <2>1, <3>1
    <3>3. new[k] <= new[n]
      BY <1>1, <3>1
    <3> QED
      BY <2>3, <3>1, <3>2, <3>3
  <2> QED
    BY <1>3, <2>2, <2>3
<1> QED
  BY <1>6, <1>7, <1>8, <1>9 DEF IInv

\* A step that records nothing keeps the order: what is pending is either what
\* was pending, or the decision that was just made.
LEMMA Unappended ==
    ASSUME IInv, Send \/ Lose \/ UNCHANGED vars
    PROVE  IInv'
<1> USE DEF IInv, Sequential, InOrder, Settled, Frontier, Recorded, Pending
<1>1. CASE Send
  <2>1. log' = log /\ sent' = sent + 1 /\ sent \in Nat
        /\ gone' \in {gone, gone \cup {sent + 1}} /\ log \in Seq(1..sent)
    BY <1>1 DEF Send
  <2>2. \A i \in DOMAIN log : log[i] \in 1..sent
    BY <2>1
  <2>3. log \in Seq(1..(sent + 1)) /\ gone' \subseteq 1..(sent + 1)
    BY <2>1, <2>2
  <2>4. Sequential' /\ InOrder'
    BY <2>1, <2>3
  <2>5. Settled'
    BY <2>1, <2>2
  <2>6. Frontier'
    <3> SUFFICES ASSUME NEW i \in DOMAIN log, NEW p \in Pending'
                 PROVE  log[i] < p
      BY <2>1
    <3>1. p \in Pending \/ p = sent + 1
      BY <2>1
    <3> QED
      BY <2>1, <2>2, <3>1
  <2> QED
    BY <2>4, <2>5, <2>6
<1>2. CASE Lose
  BY <1>2 DEF Lose
<1>3. CASE UNCHANGED vars
  BY <1>3 DEF vars
<1> QED
  BY <1>1, <1>2, <1>3

\* The invariant is inductive.
LEMMA Stepwise == IInv /\ [Next]_vars => IInv'
<1> SUFFICES ASSUME IInv, [Next]_vars
             PROVE  IInv'
  OBVIOUS
<1>1. CASE Record
  BY <1>1, Appended DEF Record
<1>2. CASE Send \/ Lose \/ UNCHANGED vars
  BY <1>2, Unappended
<1> QED
  BY <1>1, <1>2 DEF Next

\* An empty log satisfies it.
LEMMA Initially == Init => IInv
BY DEF Init, IInv, Sequential, InOrder, Settled, Frontier, Recorded, Pending

\* Rows are in the order of the decisions, each at most once, and no decision
\* is both recorded and given up, for every number of decisions.
THEOREM History == Spec => [](InOrder /\ Settled)
<1>1. IInv => InOrder /\ Settled
  BY DEF IInv
<1> QED
  BY Initially, Stepwise, <1>1, PTL DEF Spec

\* No row is ever taken back or moved, and no lost decision comes back.
THEOREM Lasting == Spec => NeverUndone
<1>1. IInv /\ [Next]_vars => [SubSeq(log', 1, Len(log)) = log /\ gone \subseteq gone']_vars
  <2> SUFFICES ASSUME IInv, [Next]_vars
               PROVE  (SubSeq(log', 1, Len(log)) = log /\ gone \subseteq gone') \/ UNCHANGED vars
    OBVIOUS
  <2>0. log \in Seq(1..sent)
    BY DEF IInv, Sequential
  <2>1. CASE Record
    <3>1. PICK n \in 1..sent : \E new \in [1..n -> Pending] :
               log' = log \o new /\ UNCHANGED <<sent, gone>>
      BY <2>1 DEF Record
    <3>2. PICK new \in [1..n -> Pending] : log' = log \o new /\ gone' = gone
      BY <3>1
    <3>3. new \in Seq(1..sent)
      BY DEF Pending, IInv, Sequential
    <3>4. SubSeq(log \o new, 1, Len(log)) = log
      BY <2>0, <3>3
    <3> QED
      BY <3>2, <3>4
  <2>2. CASE Send
    BY <2>0, <2>2 DEF Send
  <2>3. CASE Lose
    BY <2>0, <2>3 DEF Lose
  <2> QED
    BY <2>1, <2>2, <2>3 DEF Next
<1> QED
  BY Initially, Stepwise, <1>1, PTL DEF Spec, NeverUndone

=============================================================================
