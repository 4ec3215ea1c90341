---------------------------- MODULE StatementApi ----------------------------
(***************************************************************************)
(* The statement endpoints: upload, unlock and delete, each one database   *)
(* transaction around calls to the object store, which does not take part  *)
(* in it.  A client is one HTTP request being served.  A transaction that  *)
(* commits is one action; what reaches the bucket before the commit is an  *)
(* action of its own, since a rollback does not undo it.                   *)
(***************************************************************************)
EXTENDS StatementStore

VARIABLE client

ClientPc == {"idle", "stored", "opened", "resealed", "found", "emptied", "deleting", "dispatch"}

\* seen: what unlock_statement loaded; attempts: the count it read.
Client == [pc : ClientPc, stmt : Statements \union {NoStatement},
           seen : {"absent", "locked", "plain"}, attempts : Nat,
           job : Jobs \union {NoJob}]

IdleClient == [pc |-> "idle", stmt |-> NoStatement, seen |-> "absent",
               attempts |-> 0, job |-> NoJob]

ClientTypeOK ==
    /\ client \in [Clients -> Client]
    /\ \A c \in Clients :
        /\ client[c].pc # "idle" => client[c].stmt \in Statements
        /\ client[c].pc = "dispatch" =>
             client[c].job \in Jobs /\ job[client[c].job].state # "none"

ClientInit == client = [c \in Clients |-> IdleClient]

\* The request ends, whatever its answer.
Finish(c) == client' = [client EXCEPT ![c] = IdleClient]

\* The publish is a background task, run after the response and the commit.
ScheduleDispatch(c, s, j) ==
    client' = [client EXCEPT ![c] = [pc |-> "dispatch", stmt |-> s, seen |-> "absent",
                                     attempts |-> 0, job |-> j]]

-----------------------------------------------------------------------------
(* Upload *)

\* ingest_upload up to store_statement: validation, the duplicate SELECT and
\* the object write.  A rejected or duplicate file changes nothing.
\* opened: no password was needed, or the one sent opened the file and the
\* rewrite succeeded; otherwise the file is parked as it was sent.
UploadStore(c, s) ==
    /\ client[c].pc = "idle"
    /\ row[s].status = "none" /\ object[s] = "absent"
    /\ ~LiveTwin(s)
    /\ \E opened \in BOOLEAN :
        /\ DocOf[s] \notin Protected => opened
        /\ opened => DocOf[s] \notin Hostile
        /\ StoreObject(s, IF opened THEN "plain" ELSE "locked")
    /\ client' = [client EXCEPT ![c].pc = "stored", ![c].stmt = s]
    /\ UNCHANGED <<row, rowLock, doomed, job, ledger, notes, queue, faults>>

\* Mutant: the SELECT in UploadStore is trusted, there is no unique index.
InsertStatementUnchecked(s, status) == row' = [row EXCEPT ![s].status = status]

InsertStatement(s, status) ==
    /\ ~LiveTwin(s)
    /\ row' = [row EXCEPT ![s].status = status]

\* INSERT ... ON CONFLICT DO NOTHING won, the job was created, the request
\* committed.
UploadCommit(c, j) ==
    LET s == client[c].stmt IN
    /\ client[c].pc = "stored" /\ object[s] = "plain"
    /\ InsertStatement(s, "uploaded")
    /\ CreateJob(j, s)
    /\ ScheduleDispatch(c, s, j)
    /\ UNCHANGED <<rowLock, doomed, object, ledger, notes, queue, faults>>

\* The same for a file that is still locked: a parked row and no job.
UploadPark(c) ==
    LET s == client[c].stmt IN
    /\ client[c].pc = "stored" /\ object[s] = "locked"
    /\ InsertStatement(s, "password_required")
    /\ Finish(c)
    /\ UNCHANGED <<rowLock, doomed, object, job, ledger, notes, queue, faults>>

\* The unique index refused the row.  delete_statement is called with a
\* keyword it does not take, so the branch raises: the request rolls back
\* and the object it stored stays.
UploadLostRace(c) ==
    /\ client[c].pc = "stored"
    /\ LiveTwin(client[c].stmt)
    /\ Finish(c)
    /\ UNCHANGED store

\* Any other failure before the commit: the row is rolled back, the object
\* is not.
UploadAbort(c) ==
    /\ client[c].pc = "stored"
    /\ Fault("abort")
    /\ Finish(c)
    /\ UNCHANGED <<row, rowLock, doomed, object, job, ledger, notes, queue>>

-----------------------------------------------------------------------------
(* Unlock *)

\* unlock_statement reads the row without locking it, then loads the object.
UnlockOpen(c, s) ==
    /\ client[c].pc = "idle"
    /\ Live(s) /\ row[s].status = "password_required"
    /\ row[s].attempts < MaxUnlockAttempts
    /\ object[s] # "absent"
    /\ client' = [client EXCEPT ![c] =
                    [pc |-> "opened", stmt |-> s, seen |-> object[s],
                     attempts |-> row[s].attempts, job |-> NoJob]]
    /\ UNCHANGED store

\* The password is wrong: the count read earlier, plus one, is written back.
UnlockWrong(c) ==
    LET s == client[c].stmt IN
    /\ client[c].pc = "opened" /\ client[c].seen = "locked"
    /\ s \notin rowLock
    /\ row' = [row EXCEPT ![s].attempts = client[c].attempts + 1]
    /\ Finish(c)
    /\ UNCHANGED <<rowLock, doomed, object, job, ledger, notes, queue, faults>>

\* It opened, and the full scan of the plaintext refuses it.
UnlockRefuse(c) ==
    LET s == client[c].stmt IN
    /\ client[c].pc = "opened" /\ DocOf[s] \in Hostile
    /\ s \notin rowLock
    /\ row' = [row EXCEPT ![s].status = "failed"]
    /\ Finish(c)
    /\ UNCHANGED <<rowLock, doomed, object, job, ledger, notes, queue, faults>>

\* Mutant: the plaintext is not scanned again.
UnlockStoreUnscanned(c) ==
    LET s == client[c].stmt IN
    /\ client[c].pc = "opened"
    /\ StoreObject(s, "plain")
    /\ client' = [client EXCEPT ![c].pc = "resealed"]
    /\ UNCHANGED <<row, rowLock, doomed, job, ledger, notes, queue, faults>>

\* Mutant: the plaintext is not written back.
UnlockStoreForgotten(c) ==
    /\ client[c].pc = "opened" /\ DocOf[client[c].stmt] \notin Hostile
    /\ client' = [client EXCEPT ![c].pc = "resealed"]
    /\ UNCHANGED store

\* It opened: the plaintext overwrites the locked object, same key.
UnlockStore(c) ==
    LET s == client[c].stmt IN
    /\ client[c].pc = "opened" /\ DocOf[s] \notin Hostile
    /\ StoreObject(s, "plain")
    /\ client' = [client EXCEPT ![c].pc = "resealed"]
    /\ UNCHANGED <<row, rowLock, doomed, job, ledger, notes, queue, faults>>

\* The UPDATE names the id only: neither the status nor deleted_at is read
\* again.
UnlockCommit(c, j) ==
    LET s == client[c].stmt IN
    /\ client[c].pc = "resealed"
    /\ s \notin rowLock
    /\ row' = [row EXCEPT ![s].status = "uploaded", ![s].attempts = 0]
    /\ CreateJob(j, s)
    /\ ScheduleDispatch(c, s, j)
    /\ UNCHANGED <<rowLock, doomed, object, ledger, notes, queue, faults>>

UnlockAbort(c) ==
    /\ client[c].pc \in {"opened", "resealed"}
    /\ Fault("abort")
    /\ Finish(c)
    /\ UNCHANGED <<row, rowLock, doomed, object, job, ledger, notes, queue>>

-----------------------------------------------------------------------------
(* Delete *)

\* soft_delete finds the row through get_statement, without locking it.
DeleteFind(c, s) ==
    /\ client[c].pc = "idle"
    /\ Live(s)
    /\ client' = [client EXCEPT ![c].pc = "found", ![c].stmt = s]
    /\ UNCHANGED store

\* DELETE FROM transactions: the rows it can see, which leave at the commit.
DeleteRows(c) ==
    LET s == client[c].stmt IN
    /\ client[c].pc = "found"
    /\ OwnRows(s) \intersect Held = {}
    /\ doomed' = [doomed EXCEPT ![c] = OwnRows(s)]
    /\ client' = [client EXCEPT ![c].pc = "emptied"]
    /\ UNCHANGED <<row, rowLock, object, job, ledger, notes, queue, faults>>

\* The UPDATE of the statement has locked its row, and the object is removed
\* before the commit.
DeleteObject(c) ==
    LET s == client[c].stmt IN
    /\ client[c].pc = "emptied"
    /\ s \notin rowLock
    /\ rowLock' = rowLock \union {s}
    /\ RemoveObject(s)
    /\ client' = [client EXCEPT ![c].pc = "deleting"]
    /\ UNCHANGED <<row, doomed, job, ledger, notes, queue>>

DeleteCommit(c) ==
    LET s == client[c].stmt IN
    /\ client[c].pc = "deleting"
    /\ ledger' = ledger \ doomed[c]
    /\ doomed' = [doomed EXCEPT ![c] = {}]
    /\ row' = [row EXCEPT ![s].deleted = TRUE, ![s].status = "processed"]
    /\ rowLock' = rowLock \ {s}
    /\ Finish(c)
    /\ UNCHANGED <<object, job, notes, queue, faults>>

\* The audit insert or the commit fails: the row and its transactions are
\* back, the object is gone.
DeleteAbort(c) ==
    /\ client[c].pc = "deleting"
    /\ Fault("abort")
    /\ rowLock' = rowLock \ {client[c].stmt}
    /\ doomed' = [doomed EXCEPT ![c] = {}]
    /\ Finish(c)
    /\ UNCHANGED <<row, object, job, ledger, notes, queue>>

\* It fails before that, or the object store cannot be reached at all: nothing
\* has left the database.
DeleteRollback(c) ==
    /\ client[c].pc \in {"found", "emptied"}
    /\ Fault("abort")
    /\ doomed' = [doomed EXCEPT ![c] = {}]
    /\ Finish(c)
    /\ UNCHANGED <<row, rowLock, object, job, ledger, notes, queue>>

-----------------------------------------------------------------------------
(* Publishing the job, after the commit *)

Dispatch(c) ==
    /\ client[c].pc = "dispatch"
    /\ Publish(client[c].job, 0)
    /\ Finish(c)
    /\ UNCHANGED <<row, rowLock, doomed, object, job, ledger, notes, faults>>

\* The API process dies, or send_task raises, after the commit: nothing
\* publishes the job again.
DispatchLost(c) ==
    /\ client[c].pc = "dispatch"
    /\ Fault("api")
    /\ Finish(c)
    /\ UNCHANGED <<row, rowLock, doomed, object, job, ledger, notes, queue>>

-----------------------------------------------------------------------------

\* A request that has begun goes on: the steps no failure takes.
ClientStep(c) ==
    \/ \E j \in Jobs : UploadCommit(c, j) \/ UnlockCommit(c, j)
    \/ UploadPark(c) \/ UploadLostRace(c)
    \/ UnlockWrong(c) \/ UnlockRefuse(c) \/ UnlockStore(c)
    \/ DeleteRows(c) \/ DeleteObject(c) \/ DeleteCommit(c)
    \/ Dispatch(c)

ClientStart(c) ==
    \E s \in Statements : UploadStore(c, s) \/ UnlockOpen(c, s) \/ DeleteFind(c, s)

ClientFailure(c) ==
    \/ UploadAbort(c) \/ UnlockAbort(c)
    \/ DeleteAbort(c) \/ DeleteRollback(c) \/ DispatchLost(c)
=============================================================================
