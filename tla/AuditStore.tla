----------------------------- MODULE AuditStore ----------------------------
(***************************************************************************)
(* The audit path of PaacStore (crates/authz-store/src/db.rs): handlers    *)
(* put each decision into an unbounded channel and go on; the thread       *)
(* paac-audit-writer takes them out in batches and writes each one into    *)
(* two tables inside one transaction.  Every error on the way is ignored,  *)
(* and what is in memory goes with the process.  A process that starts     *)
(* makes the tables that are missing, while its writer is already there,   *)
(* and the board reads the newest rows at any time.                        *)
(***************************************************************************)
EXTENDS Integers, Sequences, FiniteSets, SequencesExt

CONSTANTS
    MaxBatch,   \* decisions in a batch (64 in the code)
    BoardRows,  \* rows the board lists (50 in the code)
    MaxSent,    \* bound on the decisions handed over
    MaxFaults,  \* bound on the SQLite calls that fail
    MaxCrashes  \* bound on the times the process ends

\* A batch starts with one decision and the limit is tested after a push.
ASSUME AuditConstantsOK ==
    /\ MaxBatch \in Nat /\ MaxBatch >= 2
    /\ BoardRows \in Nat /\ BoardRows >= 1
    /\ MaxSent \in Nat /\ MaxFaults \in Nat /\ MaxCrashes \in Nat

VARIABLES
    start,      \* how far this process is with opening the store
    made,       \* the tables of the database file
    version,    \* the newest number in schema_migrations
    sent,       \* decisions made so far; a decision is its number
    channel,    \* sent and not yet received
    writer,     \* what the writer thread does next
    batch,      \* the decisions it received and has not written
    inTx,       \* it runs inside a transaction
    txRows,     \* rows of audit_log written and not committed
    txEvidence, \* rows of decision_evidence written and not committed
    rows,       \* audit_log, in the order of its ids
    evidence,   \* the decisions in decision_evidence
    board,      \* what the board listed when it was last asked
    faults,     \* SQLite calls that failed
    crashes     \* times the process ended

memory == <<channel, writer, batch, inTx, txRows, txEvidence>>
schema == <<made, version>>
tables == <<rows, evidence>>
vars   == <<start, schema, sent, memory, tables, board, faults, crashes>>

Decisions == 1..MaxSent

Starts == {"migrations", "version", "tables", "number", "serving", "unstored", "refused"}

\* The two of the seven tables that a decision is written into, as they are made.
TableNames == <<"audit_log", "decision_evidence">>

TypeOK ==
    /\ start \in Starts
    /\ made \subseteq ToSet(TableNames) /\ version \in 0..1
    /\ board \in Seq(Decisions) /\ Len(board) <= BoardRows
    /\ sent \in 0..MaxSent
    /\ channel \in Seq(Decisions)
    /\ writer \in {"open", "recv", "drain", "begin", "row", "evidence", "commit", "dead"}
    /\ batch \in Seq(Decisions) /\ Len(batch) <= MaxBatch
    /\ inTx \in BOOLEAN
    /\ txRows \in Seq(Decisions) /\ txEvidence \subseteq Decisions
    /\ rows \in Seq(Decisions) /\ evidence \subseteq Decisions
    /\ ~inTx => txRows = <<>> /\ txEvidence = {}
    /\ faults \in 0..MaxFaults /\ crashes \in 0..MaxCrashes

Init ==
    /\ start = "migrations" /\ made = {} /\ version = 0
    /\ board = <<>>
    /\ sent = 0
    /\ channel = <<>> /\ writer = "open" /\ batch = <<>>
    /\ inTx = FALSE /\ txRows = <<>> /\ txEvidence = {}
    /\ rows = <<>> /\ evidence = {}
    /\ faults = 0 /\ crashes = 0

\* One more SQLite call fails; the code goes on as if it had not.
Fault == faults < MaxFaults /\ faults' = faults + 1

-----------------------------------------------------------------------------
(***************************************************************************)
(* PaacStore::open: the writer thread runs from here on, then the caller   *)
(* brings the tables up to date.                                           *)
(***************************************************************************)
\* The database is opened, the thread started and schema_migrations made.
OpenStore ==
    /\ start = "migrations"
    /\ start' = "version"
    /\ UNCHANGED <<schema, sent, memory, tables, board, faults, crashes>>

\* A query that fails counts as version 0 (unwrap_or).
ReadVersion ==
    /\ start = "version"
    /\ \/ start' = (IF version < 1 THEN "tables" ELSE "serving") /\ UNCHANGED faults
       \/ start' = "tables" /\ Fault
    /\ UNCHANGED <<schema, sent, memory, tables, board, crashes>>

\* Defect: the number is recorded as soon as the first table is there.
MakeTablesNumbered ==
    /\ start = "tables"
    /\ \/ \E i \in DOMAIN TableNames :
             /\ \A j \in DOMAIN TableNames : TableNames[j] \notin made <=> j >= i
             /\ made' = made \cup {TableNames[i]}
             /\ version' = 1 /\ start' = start
       \/ /\ made = ToSet(TableNames) /\ made' = made
          /\ version' = 1 /\ start' = "serving"
    /\ UNCHANGED <<sent, memory, tables, board, faults, crashes>>

\* Every table that this batch names is made unless it is there: the tables are
\* made one by one, and a process may end in between.
MakeTables ==
    /\ start = "tables"
    /\ \/ \E i \in DOMAIN TableNames :
             /\ \A j \in DOMAIN TableNames : TableNames[j] \notin made <=> j >= i
             /\ made' = made \cup {TableNames[i]}
             /\ start' = start
       \/ /\ made = ToSet(TableNames) /\ made' = made
          /\ start' = "number"
    /\ UNCHANGED <<version, sent, memory, tables, board, faults, crashes>>

\* The number of the migration is its key, so it can be recorded only once.
RecordVersion ==
    /\ start = "number" /\ version = 0
    /\ version' = 1
    /\ start' = "serving"
    /\ UNCHANGED <<made, sent, memory, tables, board, faults, crashes>>

\* open returns the error, and with the sender the writer thread ends: the proxy
\* does not start, or, with the development bundle, it goes on without a store.
OpenFails ==
    /\ \/ start \in {"migrations", "tables", "number"} /\ Fault
       \/ start = "number" /\ version = 1 /\ UNCHANGED faults
    /\ start' \in {"refused", "unstored"}
    /\ writer' = "dead"
    /\ UNCHANGED <<schema, sent, channel, batch, inTx, txRows, txEvidence, tables, board, crashes>>

-----------------------------------------------------------------------------
\* A decision is made and handed over; the channel of a dead writer refuses it
\* and the engine drops that error as well (engine.rs:134).
EnqueueAudit ==
    /\ start \in {"serving", "unstored"}
    /\ sent < MaxSent
    /\ sent' = sent + 1
    /\ channel' = IF writer = "dead" THEN channel ELSE Append(channel, sent + 1)
    /\ UNCHANGED <<writer, batch, inTx, txRows, txEvidence, tables, faults, crashes>>

\* The thread opens a connection of its own, or panics and takes the receiving
\* end of the channel with it.
OpenConnection ==
    /\ writer = "open"
    /\ \/ writer' = "recv" /\ UNCHANGED <<channel, faults>>
       \/ writer' = "dead" /\ channel' = <<>> /\ Fault
    /\ UNCHANGED <<sent, batch, inTx, txRows, txEvidence, tables, crashes>>

\* recv() blocks; the first decision opens a batch.
Receive ==
    /\ writer = "recv"
    /\ channel # <<>>
    /\ batch' = <<Head(channel)>>
    /\ channel' = Tail(channel)
    /\ writer' = "drain"
    /\ UNCHANGED <<sent, inTx, txRows, txEvidence, tables, faults, crashes>>

\* Defect: the newest decision is taken out first.
DrainNewest ==
    /\ writer = "drain"
    /\ channel # <<>>
    /\ batch' = Append(batch, Last(channel))
    /\ channel' = Front(channel)
    /\ writer' = IF Len(batch) + 1 >= MaxBatch THEN "begin" ELSE "drain"
    /\ UNCHANGED <<sent, inTx, txRows, txEvidence, tables, faults, crashes>>

\* Defect: the limit is tested before the push, and what was received is dropped.
DrainDropping ==
    /\ writer = "drain"
    /\ channel # <<>>
    /\ channel' = Tail(channel)
    /\ IF Len(batch) < MaxBatch THEN batch' = Append(batch, Head(channel)) /\ writer' = "drain"
                                ELSE batch' = batch /\ writer' = "begin"
    /\ UNCHANGED <<sent, inTx, txRows, txEvidence, tables, faults, crashes>>

\* Defect: nothing bounds a batch.
DrainUnbounded ==
    /\ writer = "drain"
    /\ channel # <<>>
    /\ batch' = Append(batch, Head(channel))
    /\ channel' = Tail(channel)
    /\ UNCHANGED <<sent, writer, inTx, txRows, txEvidence, tables, faults, crashes>>

\* try_recv() until the channel is empty or the batch is full.
Drain ==
    /\ writer = "drain"
    /\ channel # <<>>
    /\ batch' = Append(batch, Head(channel))
    /\ channel' = Tail(channel)
    /\ writer' = IF Len(batch) + 1 >= MaxBatch THEN "begin" ELSE "drain"
    /\ UNCHANGED <<sent, inTx, txRows, txEvidence, tables, faults, crashes>>

\* Defect: a batch is written when it is full.
DrainedWhenFull ==
    /\ writer = "drain"
    /\ channel = <<>> /\ Len(batch) >= MaxBatch
    /\ writer' = "begin"
    /\ UNCHANGED <<sent, channel, batch, inTx, txRows, txEvidence, tables, faults, crashes>>

Drained ==
    /\ writer = "drain"
    /\ channel = <<>>
    /\ writer' = "begin"
    /\ UNCHANGED <<sent, channel, batch, inTx, txRows, txEvidence, tables, faults, crashes>>

\* unchecked_transaction().ok(): without a transaction the statements below
\* commit one by one.
Begin ==
    /\ writer = "begin"
    /\ writer' = "row"
    /\ \/ inTx' = TRUE /\ UNCHANGED faults
       \/ inTx' = FALSE /\ Fault
    /\ UNCHANGED <<sent, channel, batch, txRows, txEvidence, tables, crashes>>

\* INSERT INTO audit_log: an error is dropped and the next statement follows.
\* The table is there (StartsWithItsTables).
InsertRow ==
    /\ writer = "row" /\ batch # <<>>
    /\ writer' = "evidence"
    /\ \/ /\ inTx /\ txRows' = Append(txRows, Head(batch))
          /\ UNCHANGED <<rows, faults>>
       \/ /\ ~inTx /\ rows' = Append(rows, Head(batch))
          /\ UNCHANGED <<txRows, faults>>
       \/ Fault /\ UNCHANGED <<rows, txRows>>
    /\ UNCHANGED <<sent, channel, batch, inTx, txEvidence, evidence, crashes>>

\* Defect: evidence is written outside the transaction of its row.
InsertEvidenceAtOnce ==
    /\ writer = "evidence"
    /\ writer' = "row"
    /\ batch' = Tail(batch)
    /\ evidence' = evidence \cup {Head(batch)}
    /\ UNCHANGED <<sent, channel, inTx, txRows, txEvidence, rows, faults, crashes>>

\* INSERT INTO decision_evidence, and on to the next decision of the batch.
InsertEvidence ==
    /\ writer = "evidence"
    /\ writer' = "row"
    /\ batch' = Tail(batch)
    /\ \/ /\ inTx /\ txEvidence' = txEvidence \cup {Head(batch)}
          /\ UNCHANGED <<evidence, faults>>
       \/ /\ ~inTx /\ evidence' = evidence \cup {Head(batch)}
          /\ UNCHANGED <<txEvidence, faults>>
       \/ Fault /\ UNCHANGED <<evidence, txEvidence>>
    /\ UNCHANGED <<sent, channel, inTx, txRows, rows, crashes>>

\* commit() makes the batch visible at once; a commit that fails is dropped,
\* and the transaction is rolled back as a whole.
EndOfBatch ==
    /\ writer = "row" /\ batch = <<>>
    /\ writer' = "recv"
    /\ inTx' = FALSE /\ txRows' = <<>> /\ txEvidence' = {}
    /\ \/ /\ rows' = rows \o txRows /\ evidence' = evidence \cup txEvidence
          /\ UNCHANGED faults
       \/ /\ inTx /\ Fault
          /\ UNCHANGED tables
    /\ UNCHANGED <<sent, channel, batch, crashes>>

\* The process ends, by a crash or by a plain exit: nothing joins the thread.
\* A new process opens the same database.
Crash ==
    /\ crashes < MaxCrashes
    /\ crashes' = crashes + 1
    /\ start' = "migrations"
    /\ channel' = <<>> /\ batch' = <<>> /\ writer' = "open"
    /\ inTx' = FALSE /\ txRows' = <<>> /\ txEvidence' = {}
    /\ UNCHANGED <<schema, sent, tables, board, faults>>

-----------------------------------------------------------------------------
\* The newest rows, newest first (ORDER BY id DESC LIMIT); the sleep before it
\* only lets others run.  A query that fails answers with an error.
Newest(n) == Reverse(SubSeq(rows, IF Len(rows) > n THEN Len(rows) - n + 1 ELSE 1, Len(rows)))

RecentAudit ==
    /\ start = "serving"
    /\ board' = Newest(BoardRows)
    /\ UNCHANGED <<start, schema, sent, memory, tables, faults, crashes>>

\* get_evidence, for /explain: what is not in the table is answered as unknown.
Explained(d) == d \in evidence

Opening == OpenStore \/ ReadVersion \/ MakeTables \/ RecordVersion \/ OpenFails

Writer ==
    /\ \/ OpenConnection \/ Receive \/ Drain \/ Drained \/ Begin
       \/ InsertRow \/ InsertEvidence \/ EndOfBatch
    /\ UNCHANGED <<start, schema, board>>

Handler ==
    \/ EnqueueAudit /\ UNCHANGED <<start, schema, board>>
    \/ RecentAudit

Next == Opening \/ Handler \/ Writer \/ Crash

Spec == Init /\ [][Next]_vars

\* The writer is a thread of its own: it runs as long as it has something to do.
FairSpec == Spec /\ WF_vars(Writer)

-----------------------------------------------------------------------------
(***************************************************************************)
(* The store keeps the promise of AuditLog: what is neither recorded nor   *)
(* on its way is gone.  The head of the batch is on its way until its row  *)
(* was inserted, or the insertion failed.                                  *)
(***************************************************************************)
OnItsWay ==
    ToSet(channel) \cup ToSet(txRows) \cup
        ToSet(IF writer = "evidence" THEN Tail(batch) ELSE batch)

Log == INSTANCE AuditLog WITH log <- rows, gone <- 1..sent \ (ToSet(rows) \cup OnItsWay)

\* enqueue_audit may lose decisions, but never doubles, swaps or takes back a
\* row: every step of handlers, writer thread and process is a step of AuditLog.
KeepsThePromise == Log!Spec

\* As long as SQLite does not fail, a reader finds the evidence of every row it
\* sees and a row for all evidence: /explain answers for what the board shows,
\* wherever the process was killed.
RowsHaveEvidence ==
    faults = 0 => \A d \in Decisions : d \in ToSet(rows) <=> Explained(d)

\* A proxy with a store has the tables its writer needs, and no place where an
\* earlier process ended while it made them keeps a later one from starting.
StartsWithItsTables ==
    /\ start = "serving" => made = ToSet(TableNames)
    /\ faults = 0 => start \notin {"refused", "unstored"}

\* Those who look at the board again find every decision they saw before, or
\* the board is full of newer ones: lost writes and restarts reorder nothing.
BoardKeepsItsRows ==
    [][\A i \in DOMAIN board :
         \/ board[i] \in ToSet(board')
         \/ /\ Len(board') = BoardRows
            /\ \A j \in DOMAIN board' : board'[j] > board[i]]_vars

\* A decision is only missing from the rows because it is still on its way, the
\* process ended, or SQLite failed: batching itself loses nothing.
NothingLostQuietly ==
    faults = 0 /\ crashes = 0 => ToSet(rows) \cup OnItsWay = 1..sent

\* A decision is eventually recorded, whatever the traffic behind it, unless the
\* process ends or SQLite fails; and even then no decision stays in memory for good:
\* it gets out of the channel, the batch and the transaction.
EventuallySettled ==
    \A d \in Decisions :
        /\ (d <= sent) ~> (d \in ToSet(rows) \/ faults > 0 \/ crashes > 0)
        /\ (d \in ToSet(channel)) ~> (d \notin OnItsWay)

=============================================================================
