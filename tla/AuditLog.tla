----------------------------- MODULE AuditLog ------------------------------
(***************************************************************************)
(* What the audit store promises to those who call it, whatever its writer *)
(* thread does inside: decisions are numbered in the order they are handed *)
(* over; each is recorded at most once, in that order, and for good, or it *)
(* is lost for good.                                                       *)
(***************************************************************************)
EXTENDS Integers, Sequences

CONSTANT MaxSent    \* bound on the decisions handed over

VARIABLES
    sent,   \* decisions handed over so far: 1..sent
    log,    \* those that are recorded, in the order of their rows
    gone    \* those that never will be

Recorded == {log[i] : i \in DOMAIN log}
Pending  == 1..sent \ (Recorded \cup gone)

Init == sent = 0 /\ log = <<>> /\ gone = {}

\* A decision handed over to a store that no longer listens is lost at once.
Send ==
    /\ sent < MaxSent
    /\ sent' = sent + 1
    /\ gone' \in {gone, gone \cup {sent + 1}}
    /\ UNCHANGED log

\* A few decisions become visible together; none of those left behind is older.
Record ==
    \E n \in 1..sent : \E new \in [1..n -> Pending] :
        /\ \A i, j \in 1..n : i < j => new[i] < new[j]
        /\ \A p \in Pending : p < new[n] => \E i \in 1..n : new[i] = p
        /\ log' = log \o new
        /\ UNCHANGED <<sent, gone>>

\* At any time some of those on their way are lost: a statement or a commit
\* fails, or the process ends with them in memory.
Lose ==
    \E S \in SUBSET Pending :
        /\ gone' = gone \cup S
        /\ UNCHANGED <<sent, log>>

Next == Send \/ Record \/ Lose

vars == <<sent, log, gone>>

Spec == Init /\ [][Next]_vars

\* Rows are in the order the decisions were made, each at most once: what the
\* board reads newest first (recent_audit, ORDER BY id DESC) is the history.
InOrder == \A i, j \in DOMAIN log : i < j => log[i] < log[j]

\* A decision is never both recorded and lost.
Settled == Recorded \cap gone = {}

\* What is recorded stays in its place and what is lost stays lost: no statement
\* of the store updates or deletes a row of audit_log.
NeverUndone == [][/\ SubSeq(log', 1, Len(log)) = log
                  /\ gone \subseteq gone']_vars

=============================================================================
