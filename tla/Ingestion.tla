----------------------------- MODULE Ingestion -----------------------------
(***************************************************************************)
(* The import pipeline as a whole: API requests and ingestion workers that *)
(* share the database, the bucket and the queue, with their failures.      *)
(***************************************************************************)
EXTENDS StatementApi, IngestWorker

vars == <<row, rowLock, doomed, object, job, ledger, notes, queue, faults, client, worker>>

Init == StoreInit /\ ClientInit /\ WorkerInit

ApiAction(c)    == (ClientStart(c) \/ ClientStep(c) \/ ClientFailure(c)) /\ UNCHANGED worker
WorkerAction(w) == (WorkerStep(w) \/ WorkerFailure(w)) /\ UNCHANGED client

Next ==
    \/ \E c \in Clients : ApiAction(c)
    \/ \E w \in Workers : WorkerAction(w)

Spec == Init /\ [][Next]_vars

\* A request that was begun is carried on by the API's event loop, and a
\* worker process keeps consuming and running.  Users owe nothing, and no
\* failure is owed either.
Fairness ==
    /\ \A c \in Clients : WF_vars(ClientStep(c) /\ UNCHANGED worker)
    /\ \A w \in Workers : WF_vars(WorkerStep(w) /\ UNCHANGED client)

FairSpec == Spec /\ Fairness

-----------------------------------------------------------------------------
(* Safety *)

TypeOK == StoreTypeOK /\ ClientTypeOK /\ WorkerTypeOK

\* The same PDF is never live twice, however uploads of it race: the unique
\* index decides, not the SELECT before it (statements.py 184-188).
OneLivePerDocument ==
    \A s, t \in Statements :
        Live(s) /\ Live(t) /\ DocOf[s] = DocOf[t] => s = t

\* No transaction is counted twice, through any mixture of overlapping
\* statements, retries and redeliveries (ledger.py 21-23).
NoDoubleCount ==
    \A r1, r2 \in ledger : r1.fp = r2.fp => r1 = r2

\* A row is in the ledger only together with its statement's verdict, and
\* only if its document contains it (ingest.py 205-208): no crash leaves
\* rows nobody can interpret.
RowsCarryVerdict ==
    \A r \in ledger :
        /\ r.fp \in RowsOfStatement(r.stmt)
        /\ row[r.stmt].processed
        /\ row[r.stmt].trust = VerdictOf[DocOf[r.stmt]]

\* A worker is only ever asked to read a file that has been opened: a job
\* exists only for a statement that is no longer parked and whose plaintext
\* passed the scan, and the object it loads is not the protected one, through
\* racing unlocks and rollbacks (statements.py 237-240, 337-338, 412-417).
OnlyOpenedFilesAreQueued ==
    \A j \in Jobs : job[j].state # "none" =>
        /\ DocOf[job[j].stmt] \notin Hostile
        /\ row[job[j].stmt].status \notin {"none", "password_required"}
        /\ object[job[j].stmt] # "locked"

\* Every row of s is in the ledger, unless a deleted statement shares it.
Accounted(s) ==
    \A f \in RowsOfStatement(s) :
        \/ f \in InLedger
        \/ \E t \in Statements : row[t].deleted /\ f \in RowsOfStatement(t)

\* A statement once imported stays complete, except for rows that a deleted
\* statement also contained: retries, races and failures of other imports
\* take nothing from it (ledger.py 15-19).
ImportsStayComplete ==
    \A s \in Statements : row[s].processed => Accounted(s)

\* A job that says it is done has put its statement's rows in the ledger,
\* whatever runs, retries or redeliveries preceded.
DoneMeansImported ==
    \A j \in Jobs : job[j].state \in DoneStates => row[job[j].stmt].processed

-----------------------------------------------------------------------------
(* What a step may never do *)

\* A row leaves the ledger only in the step that deletes its statement:
\* retries, crashes, and imports or deletes of statements that share the row
\* never take it (statements.py 611).
RowsLeaveWithStatement ==
    \A r \in ledger \ ledger' :
        row'[r.stmt].deleted /\ \A q \in ledger \ ledger' : q.stmt = r.stmt

RowsLeaveOnlyWithTheirStatement == [][RowsLeaveWithStatement]_vars

-----------------------------------------------------------------------------
(* The abstract specification *)

Removed == {s \in Statements : row[s].deleted}
Accepted == {s \in Statements : row[s].status # "none"}
Imported == {s \in Statements : row[s].processed}

Contract == INSTANCE LedgerContract
    WITH accepted <- Accepted, imported <- Imported, removed <- Removed,
         RacingImports <- TRUE

\* Whatever the requests, workers and failures do, the ledger changes only by
\* whole imports and whole removals.
ImplementsContract == Contract!Spec

-----------------------------------------------------------------------------
(* Liveness *)

\* Every job ends in a terminal state for good: exceptions, retries, lost
\* workers and redeliveries come to an end and leave a final answer.
EveryJobSettles ==
    \A j \in Jobs : <>[](job[j].state \in TerminalStates \union {"none"})

-----------------------------------------------------------------------------
(* What docs and comments say and the code does not keep *)

\* statements.py 602-604: deleting a statement without its transactions would
\* leave orphaned rows that still count towards every total.
NoOrphanRows == \A r \in ledger : Live(r.stmt)

\* ledger.py 15-19: a statement that reconciles must reconcile with all of
\* its transactions present.
TrustedMeansPresent ==
    \A s \in Statements :
        Live(s) /\ row[s].trust = "trusted" => RowsOfStatement(s) \subseteq InLedger

\* What a finished import reports is what it put into the ledger:
\* transaction_count counts its rows (statements.py 529-531), and the one
\* notification, chosen by what actually happened, announces the rows that
\* need a look (ingest.py 286-288).
ReportIsTheLedgers ==
    \A j \in Jobs :
        LET s    == job[j].stmt
            rows == {r.fp : r \in OwnRows(s)}
        IN  job[j].state \in DoneStates /\ Live(s) =>
                /\ row[s].counted = rows
                /\ row[s].trust = "trusted" /\ rows \intersect Doubtful # {} =>
                        "review_required" \in notes[s]

\* statements.py 226-227: an upload that lost the race removes its object
\* rather than leave a blob nothing references.
NoOrphanObjects ==
    \A s \in Statements :
        object[s] # "absent" =>
            row[s].status # "none" \/ \E c \in Clients : client[c].stmt = s
=============================================================================
