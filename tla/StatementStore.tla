--------------------------- MODULE StatementStore ---------------------------
(***************************************************************************)
(* The state one tenant's statement pipeline shares: the PostgreSQL tables *)
(* statements, processing_jobs, transactions and notifications, the MinIO  *)
(* bucket that holds the encrypted PDFs, and the Celery "extract" queue.   *)
(* The API (StatementApi) and the workers (IngestWorker) act on it.        *)
(*                                                                         *)
(* Data is abstracted to what the properties tell apart.  A document is a  *)
(* model value; what the parsers read from it is the set of fingerprints   *)
(* RowsOf[d]; whether its arithmetic holds is VerdictOf[d].                *)
(***************************************************************************)
EXTENDS Naturals, FiniteSets

CONSTANTS
    Clients,            \* the requests the API can serve at the same time
    Statements,         \* statement ids; each upload of a PDF mints one
    NoStatement,        \* no statement: an idle request, an unused job id
    Jobs,               \* job ids, a finite supply (bounds the model)
    NoJob,              \* no job
    Docs,               \* PDF contents, told apart by their SHA-256
    Fps,                \* transaction fingerprints of the account
    DocOf,              \* the document each statement id was minted for
    RowsOf,             \* the fingerprints a document's rows are assigned
    VerdictOf,          \* the trust verdict reconciliation gives a document
    Doubtful,           \* fingerprints of rows scored review_required
    Protected,          \* documents sent with a PDF password
    Hostile,            \* protected documents that fail validation once open
    MaxUnlockAttempts,  \* services/statements.py MAX_UNLOCK_ATTEMPTS
    MaxRetries,         \* max_retries of process_statement
    FaultKinds,         \* the kinds of failure a run lets happen
    MaxFaults           \* how many failures a behaviour may contain (bound)

Trust == {"pending", "trusted", "untrusted"}

ASSUME ConstantsAssumption ==
    /\ NoStatement \notin Statements /\ NoJob \notin Jobs
    /\ DocOf \in [Statements -> Docs]
    /\ RowsOf \in [Docs -> SUBSET Fps]
    /\ VerdictOf \in [Docs -> Trust]
    /\ Doubtful \subseteq Fps
    /\ Hostile \subseteq Protected /\ Protected \subseteq Docs
    /\ MaxUnlockAttempts \in Nat
    /\ MaxRetries \in Nat
    /\ MaxFaults \in Nat

VARIABLES
    row,      \* statements: one record per id, status "none" before insert
    rowLock,  \* statements whose row an open transaction has written
    doomed,   \* the transactions each request has deleted and not committed
    object,   \* the bucket: what is stored under the statement's key
    job,      \* processing_jobs
    ledger,   \* transactions: which statement owns each fingerprint
    notes,    \* notifications: the kinds created for each statement
    queue,    \* the extract queue: undelivered messages per job and retry
    faults    \* failures so far, at most MaxFaults

store == <<row, rowLock, doomed, object, job, ledger, notes, queue, faults>>

-----------------------------------------------------------------------------
(* Types *)

StatementStatus == {"none", "uploaded", "password_required", "processed", "failed"}
DoneStates      == {"completed", "review_required"}
TerminalStates  == DoneStates \union {"failed"}
JobState == {"none", "queued", "processing", "extracting", "validating",
             "categorizing"} \union TerminalStates
NoteKind == {"statement_failed", "reconciliation_failed", "review_required",
             "statement_processed"}

\* transaction_count is kept as the set of rows it counts; processed stands
\* for processed_at IS NOT NULL and deleted for deleted_at IS NOT NULL.
Row == [status : StatementStatus, trust : Trust, processed : BOOLEAN,
        deleted : BOOLEAN, attempts : Nat, counted : SUBSET Fps]
Job == [state : JobState, stmt : Statements \union {NoStatement}]
Transaction == [fp : Fps, stmt : Statements]

QueueTypeOK ==
    /\ queue \in [Jobs -> [0..MaxRetries -> Nat]]
    /\ \A j \in Jobs, r \in 0..MaxRetries : queue[j][r] > 0 => job[j].state # "none"

StoreTypeOK ==
    /\ row \in [Statements -> Row]
    /\ rowLock \subseteq Statements
    /\ doomed \in [Clients -> SUBSET Transaction]
    /\ object \in [Statements -> {"absent", "locked", "plain"}]
    /\ job \in [Jobs -> Job]
    /\ \A j \in Jobs : job[j].state # "none" => job[j].stmt \in Statements
    /\ ledger \subseteq Transaction
    /\ notes \in [Statements -> SUBSET NoteKind]
    /\ QueueTypeOK
    /\ faults \in 0..MaxFaults

StoreInit ==
    /\ row = [s \in Statements |->
                [status |-> "none", trust |-> "pending", processed |-> FALSE,
                 deleted |-> FALSE, attempts |-> 0, counted |-> {}]]
    /\ rowLock = {}
    /\ doomed = [c \in Clients |-> {}]
    /\ object = [s \in Statements |-> "absent"]
    /\ job = [j \in Jobs |-> [state |-> "none", stmt |-> NoStatement]]
    /\ ledger = {}
    /\ notes = [s \in Statements |-> {}]
    /\ queue = [j \in Jobs |-> [r \in 0..MaxRetries |-> 0]]
    /\ faults = 0

-----------------------------------------------------------------------------
(* What the handlers read and write *)

\* storage.store_statement: encrypts and writes under the statement's key.
StoreObject(s, content) == object' = [object EXCEPT ![s] = content]

\* A committed row the user still sees: deleted_at IS NULL.
Live(s) == row[s].status # "none" /\ ~row[s].deleted

\* The partial unique index on (tenant, sha256) WHERE deleted_at IS NULL.
LiveTwin(s) == \E t \in Statements : Live(t) /\ DocOf[t] = DocOf[s]

RowsOfStatement(s) == RowsOf[DocOf[s]]
InLedger == {r.fp : r \in ledger}

\* An INSERT that meets one of these fingerprints, or a DELETE that meets one
\* of these rows, waits for the transaction that holds it.
Held == UNION {doomed[c] : c \in Clients}

\* Mutant: rows are told by fingerprint instead of by statement.
OwnRowsByFingerprint(s) == {r \in ledger : r.fp \in RowsOfStatement(s)}

OwnRows(s) == {r \in ledger : r.stmt = s}

\* Mutant: the insert of the job row is lost.
CreateJobUnsaved(j, s) == job[j].state = "none" /\ UNCHANGED job

\* jobs.create_job: a new processing_jobs row in state queued.
CreateJob(j, s) ==
    /\ job[j].state = "none"
    /\ job' = [job EXCEPT ![j] = [state |-> "queued", stmt |-> s]]

\* jobs.emit and jobs.finish overwrite the state whatever it was.
Emit(j, state) == job' = [job EXCEPT ![j].state = state]

Publish(j, r) == queue' = [queue EXCEPT ![j][r] = @ + 1]

Fault(kind) ==
    /\ kind \in FaultKinds
    /\ faults < MaxFaults
    /\ faults' = faults + 1

\* storage.delete_statement: an S3 error other than "no such key" is only
\* logged, and the object stays.
RemoveObject(s) ==
    \/ StoreObject(s, "absent") /\ UNCHANGED faults
    \/ Fault("storage") /\ UNCHANGED object
=============================================================================
