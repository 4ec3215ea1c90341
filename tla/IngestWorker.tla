---------------------------- MODULE IngestWorker ----------------------------
(***************************************************************************)
(* The ingestion task, workers/tasks/ingest.py.  A run of process_statement*)
(* is a series of database transactions with the parser between them: one  *)
(* action for each.  A worker holds the message it was delivered until it  *)
(* acknowledges it after the run (acks_late), so a worker that dies gives  *)
(* it back and another worker starts the run again from the beginning; one *)
(* that loses its connection to the broker gives it back and runs on.      *)
(***************************************************************************)
EXTENDS StatementStore

CONSTANT Workers \* worker processes of the extract queue

VARIABLE worker

WorkerPc == {"idle", "start", "load", "reject", "reading_pages", "parsing",
             "record", "persist", "categorize", "finish",
             "retry", "give_up", "ack"}

\* Inside the try block of process_statement, where an exception is caught.
Running == {"start", "load", "reject", "reading_pages", "parsing", "record",
            "persist", "categorize", "finish"}

\* attempt: retries before this run; fresh: the rows this run inserted.
Worker == [pc : WorkerPc, job : Jobs \union {NoJob}, attempt : 0..MaxRetries,
           fresh : SUBSET Fps]
IdleWorker == [pc |-> "idle", job |-> NoJob, attempt |-> 0, fresh |-> {}]

WorkerTypeOK ==
    /\ worker \in [Workers -> Worker]
    /\ \A w \in Workers :
        /\ worker[w].pc # "idle" =>
             worker[w].job \in Jobs /\ job[worker[w].job].state # "none"
        /\ worker[w].pc = "retry" => worker[w].attempt < MaxRetries

WorkerInit == worker = [w \in Workers |-> IdleWorker]

Target(w) == job[worker[w].job].stmt
Goto(w, pc) == worker' = [worker EXCEPT ![w].pc = pc]

-----------------------------------------------------------------------------
(* Delivery *)

Deliver(w, j, r) ==
    /\ worker[w].pc = "idle"
    /\ queue[j][r] > 0
    /\ queue' = [queue EXCEPT ![j][r] = @ - 1]
    /\ worker' = [worker EXCEPT ![w] =
                    [pc |-> "start", job |-> j, attempt |-> r, fresh |-> {}]]
    /\ UNCHANGED <<row, rowLock, doomed, object, job, ledger, notes, faults>>

Ack(w) ==
    /\ worker[w].pc = "ack"
    /\ worker' = [worker EXCEPT ![w] = IdleWorker]
    /\ UNCHANGED store

-----------------------------------------------------------------------------
(* The run *)

\* First transaction.  The statement is looked up by id alone; its row is
\* there as long as the job's is (ON DELETE CASCADE), whatever deleted_at says.
Start(w) ==
    /\ worker[w].pc = "start"
    /\ Emit(worker[w].job, "processing")
    /\ Goto(w, "load")
    /\ UNCHANGED <<row, rowLock, doomed, object, ledger, notes, queue, faults>>

\* The object is loaded and validated again.  A file still locked fails the
\* validation; any other may, if what came back is not what was checked.
Load(w) ==
    /\ worker[w].pc = "load"
    /\ object[Target(w)] # "absent"
    /\ \/ object[Target(w)] = "plain" /\ Goto(w, "reading_pages") /\ UNCHANGED faults
       \/ object[Target(w)] = "locked" /\ Goto(w, "reject") /\ UNCHANGED faults
       \/ Fault("invalid") /\ Goto(w, "reject")
    /\ UNCHANGED <<row, rowLock, doomed, object, job, ledger, notes, queue>>

\* The file fails validation: notification, statement and job in one
\* transaction, and the task ends normally.
Reject(w) ==
    LET s == Target(w) IN
    /\ worker[w].pc = "reject"
    /\ s \notin rowLock
    /\ notes' = [notes EXCEPT ![s] = @ \union {"statement_failed"}]
    /\ row' = [row EXCEPT ![s].status = "failed"]
    /\ Emit(worker[w].job, "failed")
    /\ Goto(w, "ack")
    /\ UNCHANGED <<rowLock, doomed, object, ledger, queue, faults>>

\* The two progress transactions around reading the document.
EmitExtracting(w) ==
    /\ \/ worker[w].pc = "reading_pages" /\ Goto(w, "parsing")
       \/ worker[w].pc = "parsing" /\ Goto(w, "record")
    /\ Emit(worker[w].job, "extracting")
    /\ UNCHANGED <<row, rowLock, doomed, object, ledger, notes, queue, faults>>

\* Mutant: the ledger write is skipped.
RecordSkipsPersist(w) ==
    /\ worker[w].pc = "record"
    /\ Target(w) \notin rowLock
    /\ Emit(worker[w].job, "validating")
    /\ Goto(w, "categorize")
    /\ UNCHANGED <<row, rowLock, doomed, object, ledger, notes, queue, faults>>

\* Page records and what the parser read of the statement itself (not part
\* of the model), then the next stage, in one transaction.
Record(w) ==
    /\ worker[w].pc = "record"
    /\ Target(w) \notin rowLock
    /\ Emit(worker[w].job, "validating")
    /\ Goto(w, "persist")
    /\ UNCHANGED <<row, rowLock, doomed, object, ledger, notes, queue, faults>>

\* Mutant: no unique index on the fingerprint.
NewRowsUnchecked(s) == RowsOfStatement(s)

\* Mutant: a statement with a row already in the ledger is skipped whole.
NewRowsAllOrNone(s) ==
    IF RowsOfStatement(s) \intersect InLedger = {} THEN RowsOfStatement(s) ELSE {}

\* INSERT ... ON CONFLICT DO NOTHING, row by row: what the index lets in.
NewRows(s) == RowsOfStatement(s) \ InLedger

\* Mutant: the verdict is left for a later transaction.
RecordStatementLater(s, new) == row' = [row EXCEPT ![s].counted = new]

\* _record_statement overwrites verdict, counts and status, by id alone.
RecordStatement(s, new) ==
    row' = [row EXCEPT ![s].trust = VerdictOf[DocOf[s]],
                       ![s].counted = new,
                       ![s].status = "processed",
                       ![s].processed = TRUE]

\* ledger.persist: rows, verdict and counts in one transaction.  It waits for
\* a delete that holds one of its fingerprints, and for the statement's row.
Persist(w) ==
    LET s   == Target(w)
        new == NewRows(s)
    IN
    /\ worker[w].pc = "persist"
    /\ s \notin rowLock
    /\ \A r \in Held : r.fp \notin RowsOfStatement(s)
    /\ ledger' = ledger \union {[fp |-> f, stmt |-> s] : f \in new}
    /\ RecordStatement(s, new)
    /\ worker' = [worker EXCEPT ![w].pc = "categorize", ![w].fresh = new]
    /\ UNCHANGED <<rowLock, doomed, object, job, notes, queue, faults>>

\* The cascade's own transaction; what it writes on the rows is not part of
\* this module.
Categorize(w) ==
    /\ worker[w].pc = "categorize"
    /\ Emit(worker[w].job, "categorizing")
    /\ Goto(w, "finish")
    /\ UNCHANGED <<row, rowLock, doomed, object, ledger, notes, queue, faults>>

\* notifications.for_statement: one kind, from what this run inserted.
NoteFor(s, fresh) ==
    IF VerdictOf[DocOf[s]] = "untrusted" THEN "reconciliation_failed"
    ELSE IF fresh \intersect Doubtful # {} THEN "review_required"
    ELSE "statement_processed"

\* Last transaction.  Whether rows still need review is read from the table:
\* the cascade or the user may have settled or unsettled them meanwhile.
Complete(w) ==
    LET s == Target(w) IN
    /\ worker[w].pc = "finish"
    /\ notes' = [notes EXCEPT ![s] = @ \union {NoteFor(s, worker[w].fresh)}]
    /\ \/ Emit(worker[w].job, "completed")
       \/ OwnRows(s) # {} /\ Emit(worker[w].job, "review_required")
    /\ Goto(w, "ack")
    /\ UNCHANGED <<row, rowLock, doomed, object, ledger, queue, faults>>

-----------------------------------------------------------------------------
(* Exceptions and retries *)

\* The handler of process_statement: retry while retries remain.
Caught(w) ==
    worker' = [worker EXCEPT
        ![w].pc = IF worker[w].attempt < MaxRetries THEN "retry" ELSE "give_up"]

\* The object is gone: load_statement raises, on every attempt.
LoadMissing(w) ==
    /\ worker[w].pc = "load"
    /\ object[Target(w)] = "absent"
    /\ Caught(w)
    /\ UNCHANGED store

\* Anything else that can raise; the open transaction is rolled back.
Raise(w) ==
    /\ worker[w].pc \in Running
    /\ Fault("error")
    /\ Caught(w)
    /\ UNCHANGED <<row, rowLock, doomed, object, job, ledger, notes, queue>>

\* self.retry publishes a new message; the delivered one is acknowledged next.
Retry(w) ==
    /\ worker[w].pc = "retry"
    /\ Publish(worker[w].job, worker[w].attempt + 1)
    /\ Goto(w, "ack")
    /\ UNCHANGED <<row, rowLock, doomed, object, job, ledger, notes, faults>>

\* Mutant: the statement is marked, the job is not finished.
MarkFailedStatementOnly(w) ==
    LET s == Target(w) IN
    /\ worker[w].pc = "give_up"
    /\ s \notin rowLock
    /\ row' = [row EXCEPT ![s].status = "failed"]
    /\ Goto(w, "ack")
    /\ UNCHANGED <<rowLock, doomed, object, job, ledger, notes, queue, faults>>

\* _mark_failed, after the last retry.
MarkFailed(w) ==
    LET s == Target(w) IN
    /\ worker[w].pc = "give_up"
    /\ s \notin rowLock
    /\ row' = [row EXCEPT ![s].status = "failed"]
    /\ Emit(worker[w].job, "failed")
    /\ Goto(w, "ack")
    /\ UNCHANGED <<rowLock, doomed, object, ledger, notes, queue, faults>>

\* _mark_failed raises too: that is logged, and the task ends.
MarkFailedRaises(w) ==
    /\ worker[w].pc = "give_up"
    /\ Fault("bookkeeping")
    /\ Goto(w, "ack")
    /\ UNCHANGED <<row, rowLock, doomed, object, job, ledger, notes, queue>>

-----------------------------------------------------------------------------
(* Losing the process, or the broker *)

\* The worker dies: the message goes back to the queue.
WorkerLost(w) ==
    /\ worker[w].pc # "idle"
    /\ Fault("lost")
    /\ Publish(worker[w].job, worker[w].attempt)
    /\ worker' = [worker EXCEPT ![w] = IdleWorker]
    /\ UNCHANGED <<row, rowLock, doomed, object, job, ledger, notes>>

\* The connection to the broker is lost: the message it had delivered goes
\* back to the queue while the run goes on (Celery's default with acks_late).
ConnectionLost(w) ==
    /\ worker[w].pc # "idle"
    /\ Fault("connection")
    /\ Publish(worker[w].job, worker[w].attempt)
    /\ UNCHANGED <<row, rowLock, doomed, object, job, ledger, notes, worker>>

\* task_time_limit: the child is killed where it stands and, as the result is
\* recorded by its parent, the message is acknowledged (Celery's default).
TimeLimit(w) ==
    /\ worker[w].pc \in Running
    /\ Fault("time_limit")
    /\ worker' = [worker EXCEPT ![w] = IdleWorker]
    /\ UNCHANGED <<row, rowLock, doomed, object, job, ledger, notes, queue>>

-----------------------------------------------------------------------------

\* What a live worker process goes on doing.
WorkerStep(w) ==
    \/ \E j \in Jobs, r \in 0..MaxRetries : Deliver(w, j, r)
    \/ Start(w) \/ Load(w) \/ LoadMissing(w) \/ Reject(w)
    \/ EmitExtracting(w) \/ Record(w) \/ Persist(w) \/ Categorize(w)
    \/ Complete(w) \/ Retry(w) \/ MarkFailed(w) \/ Ack(w)

WorkerFailure(w) ==
    Raise(w) \/ MarkFailedRaises(w) \/ WorkerLost(w) \/ ConnectionLost(w) \/ TimeLimit(w)
=============================================================================
