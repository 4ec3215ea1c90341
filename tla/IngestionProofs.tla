-------------------------- MODULE IngestionProofs --------------------------
(***************************************************************************)
(* What TLC checks on small instances of Ingestion, proved for any number  *)
(* of statements, jobs, requests, workers, retries and failures; and what   *)
(* the pipeline does to the ledger: seen from it each step is an accepted   *)
(* upload, a whole import, a whole removal, or nothing.  From these four    *)
(* follow the invariants of the ledger and the refinement of LedgerContract. *)
(***************************************************************************)
EXTENDS Ingestion, TLAPS

\* The actions of a request and of a worker, without their grouping.
ClientActions(c) ==
    \/ \E s \in Statements : UploadStore(c, s) \/ UnlockOpen(c, s) \/ DeleteFind(c, s)
    \/ \E j \in Jobs : UploadCommit(c, j) \/ UnlockCommit(c, j)
    \/ UploadPark(c) \/ UploadLostRace(c) \/ UploadAbort(c)
    \/ UnlockWrong(c) \/ UnlockRefuse(c) \/ UnlockStore(c) \/ UnlockAbort(c)
    \/ DeleteRows(c) \/ DeleteObject(c) \/ DeleteCommit(c) \/ DeleteAbort(c)
    \/ DeleteRollback(c) \/ Dispatch(c) \/ DispatchLost(c)

WorkerActions(w) ==
    \/ \E j \in Jobs, r \in 0..MaxRetries : Deliver(w, j, r)
    \/ Start(w) \/ Load(w) \/ LoadMissing(w) \/ Reject(w)
    \/ EmitExtracting(w) \/ Record(w) \/ Persist(w) \/ Categorize(w)
    \/ Complete(w) \/ Retry(w) \/ MarkFailed(w) \/ Ack(w)
    \/ Raise(w) \/ MarkFailedRaises(w) \/ WorkerLost(w) \/ ConnectionLost(w)
    \/ TimeLimit(w)

\* A step is one action of one request or of one worker.
LEMMA NextIsActions ==
    Next <=> \/ \E c \in Clients : ClientActions(c) /\ UNCHANGED worker
             \/ \E w \in Workers : WorkerActions(w) /\ UNCHANGED client
  BY DEF Next, ApiAction, WorkerAction, ClientStart, ClientStep, ClientFailure,
         WorkerStep, WorkerFailure, ClientActions, WorkerActions

-----------------------------------------------------------------------------
(* Types *)

\* A job, once created, stays, and belongs to the same statement.
JobsStay ==
    \A j \in Jobs : job[j].state # "none" =>
        job'[j].state # "none" /\ job'[j].stmt = job[j].stmt

\* Workers stay well-typed when they do not move and jobs stay.
LEMMA WorkerKept ==
    ASSUME WorkerTypeOK, UNCHANGED worker, JobsStay
    PROVE  WorkerTypeOK'
  BY DEF WorkerTypeOK, Worker, JobsStay

\* Requests stay well-typed when they do not move and jobs stay.
LEMMA ClientKept ==
    ASSUME ClientTypeOK, UNCHANGED client, JobsStay
    PROVE  ClientTypeOK'
  BY DEF ClientTypeOK, Client, JobsStay

\* An idle request is well-formed.
LEMMA IdleIsClient == IdleClient \in Client
  BY DEF IdleClient, Client, ClientPc

\* A request that moves on, for some statement, stays well-formed.
LEMMA ClientAt ==
    ASSUME client \in [Clients -> Client], NEW c \in Clients, NEW s \in Statements,
           NEW pc \in ClientPc
    PROVE  [client EXCEPT ![c].pc = pc, ![c].stmt = s] \in [Clients -> Client]
  BY DEF Client

\* One request moves on, to a well-formed record.
LEMMA ClientMoves ==
    ASSUME ClientTypeOK, JobsStay, NEW c \in Clients, NEW r \in Client,
           client' = [client EXCEPT ![c] = r],
           r.pc # "idle" => r.stmt \in Statements,
           r.pc = "dispatch" => r.job \in Jobs /\ job'[r.job].state # "none"
    PROVE  ClientTypeOK'
  <1>1. client' \in [Clients -> Client]
    BY DEF ClientTypeOK
  <1>2. ASSUME NEW d \in Clients
        PROVE  /\ client'[d].pc # "idle" => client'[d].stmt \in Statements
               /\ client'[d].pc = "dispatch" =>
                    client'[d].job \in Jobs /\ job'[client'[d].job].state # "none"
    BY DEF ClientTypeOK, JobsStay
  <1> QED
    BY <1>1, <1>2 DEF ClientTypeOK

\* The record a delete writes is a row.
LEMMA RowDeleted ==
    ASSUME NEW r \in Row
    PROVE  [r EXCEPT !.deleted = TRUE, !.status = "processed"] \in Row
  BY DEF Row, StatementStatus

\* The record an import writes is a row.
LEMMA RowImported ==
    ASSUME NEW r \in Row, NEW verdict \in Trust, NEW rows \in SUBSET Fps
    PROVE  [r EXCEPT !.trust = verdict, !.counted = rows, !.status = "processed",
                     !.processed = TRUE] \in Row
  BY DEF Row, StatementStatus

\* The queue stays well-formed while jobs stay, and when a message is
\* published for a job that exists.
LEMMA QueueKept ==
    ASSUME QueueTypeOK, UNCHANGED queue, JobsStay
    PROVE  QueueTypeOK'
  BY DEF QueueTypeOK, JobsStay

\* Publishing a message for a job that exists keeps the queue well-formed.
LEMMA Publishing ==
    ASSUME QueueTypeOK, NEW j \in Jobs, NEW r \in 0..MaxRetries,
           job[j].state # "none", Publish(j, r), UNCHANGED job
    PROVE  QueueTypeOK'
  <1>1. queue' = [queue EXCEPT ![j] = [queue[j] EXCEPT ![r] = queue[j][r] + 1]]
    BY DEF Publish
  <1>2. [queue[j] EXCEPT ![r] = queue[j][r] + 1] \in [0..MaxRetries -> Nat]
    BY ConstantsAssumption DEF QueueTypeOK
  <1>3. queue' \in [Jobs -> [0..MaxRetries -> Nat]]
    BY <1>1, <1>2 DEF QueueTypeOK
  <1>4. \A k \in Jobs, q \in 0..MaxRetries : queue'[k][q] > 0 => job'[k].state # "none"
    BY <1>1, <1>2 DEF QueueTypeOK
  <1> QED
    BY <1>3, <1>4 DEF QueueTypeOK

\* The initial state is well-typed.
LEMMA TypeInit == Init => TypeOK
  <1> SUFFICES ASSUME Init PROVE TypeOK
    OBVIOUS
  <1>1. StoreTypeOK
    BY ConstantsAssumption
    DEF Init, StoreInit, StoreTypeOK, QueueTypeOK, Row, Job, StatementStatus, Trust, JobState,
        Transaction
  <1>2. ClientTypeOK
    BY DEF Init, ClientInit, ClientTypeOK, Client, IdleClient, ClientPc
  <1>3. WorkerTypeOK
    BY ConstantsAssumption
    DEF Init, WorkerInit, WorkerTypeOK, Worker, IdleWorker, WorkerPc
  <1> QED
    BY <1>1, <1>2, <1>3 DEF TypeOK

\* No action of a request breaks a type.
LEMMA TypeApi ==
    ASSUME TypeOK, NEW c \in Clients, ClientActions(c), UNCHANGED worker
    PROVE  TypeOK' /\ JobsStay
  <1>1. StoreTypeOK /\ ClientTypeOK /\ WorkerTypeOK
    BY DEF TypeOK
  <1>. row \in [Statements -> Row]
    BY <1>1 DEF StoreTypeOK
  <1>2. CASE \E s \in Statements : UploadStore(c, s)
    <2>1. PICK s \in Statements : UploadStore(c, s)
      BY <1>2
    <2>2. JobsStay
      BY <1>1, <2>1 DEF StoreTypeOK, Job, JobsStay, UploadStore
    <2>3. StoreTypeOK'
      BY <1>1, <2>1, ConstantsAssumption, <2>2, QueueKept
      DEF StoreTypeOK, Job, JobState, UploadStore, StoreObject
    <2>4. client' = [client EXCEPT ![c].pc = "stored", ![c].stmt = s]
      BY <2>1 DEF UploadStore
    <2>5. client' \in [Clients -> Client]
      BY <1>1, <2>4, ClientAt DEF ClientTypeOK, ClientPc
    <2>6. /\ client'[c].stmt = s /\ client'[c].pc # "dispatch"
          /\ \A d \in Clients : d # c => client'[d] = client[d]
      BY <1>1, <2>4 DEF ClientTypeOK, Client
    <2>7. ClientTypeOK'
      BY <1>1, <2>1, <2>2, <2>5, <2>6 DEF ClientTypeOK, JobsStay
    <2> QED
      BY <1>1, <2>2, <2>3, <2>7, WorkerKept DEF TypeOK
  <1>3. CASE \E s \in Statements : UnlockOpen(c, s)
    <2>1. PICK s \in Statements : UnlockOpen(c, s)
      BY <1>3
    <2>2. JobsStay
      BY <1>1, <2>1 DEF StoreTypeOK, Job, JobsStay, UnlockOpen, store
    <2>3. StoreTypeOK'
      BY <1>1, <2>1, ConstantsAssumption, <2>2, QueueKept
      DEF StoreTypeOK, Job, JobState, UnlockOpen, store
    <2>4. ClientTypeOK'
      BY <1>1, <2>1, <2>2, ClientMoves
         DEF UnlockOpen, store, Client, ClientPc, StoreTypeOK, Row
    <2> QED
      BY <1>1, <2>2, <2>3, <2>4, WorkerKept DEF TypeOK
  <1>4. CASE \E s \in Statements : DeleteFind(c, s)
    <2>1. PICK s \in Statements : DeleteFind(c, s)
      BY <1>4
    <2>2. JobsStay
      BY <1>1, <2>1 DEF StoreTypeOK, Job, JobsStay, DeleteFind, store
    <2>3. StoreTypeOK'
      BY <1>1, <2>1, ConstantsAssumption, <2>2, QueueKept
      DEF StoreTypeOK, Job, JobState, DeleteFind, store
    <2>4. client' = [client EXCEPT ![c].pc = "found", ![c].stmt = s]
      BY <2>1 DEF DeleteFind
    <2>5. client' \in [Clients -> Client]
      BY <1>1, <2>4, ClientAt DEF ClientTypeOK, ClientPc
    <2>6. /\ client'[c].stmt = s /\ client'[c].pc # "dispatch"
          /\ \A d \in Clients : d # c => client'[d] = client[d]
      BY <1>1, <2>4 DEF ClientTypeOK, Client
    <2>7. ClientTypeOK'
      BY <1>1, <2>1, <2>2, <2>5, <2>6 DEF ClientTypeOK, JobsStay
    <2> QED
      BY <1>1, <2>2, <2>3, <2>7, WorkerKept DEF TypeOK
  <1>5. CASE \E j \in Jobs : UploadCommit(c, j)
    <2>1. PICK j \in Jobs : UploadCommit(c, j)
      BY <1>5
    <2>2. client[c].stmt \in Statements
      BY <1>1, <2>1 DEF ClientTypeOK, UploadCommit
    <2>3. row' = [row EXCEPT ![client[c].stmt].status = "uploaded"]
      BY <2>1 DEF UploadCommit, InsertStatement
    <2>4. row' \in [Statements -> Row]
      BY <2>2, <2>3 DEF Row, StatementStatus
    <2>5. JobsStay
      BY <1>1, <2>1, <2>2
      DEF StoreTypeOK, Job, JobsStay, UploadCommit, InsertStatement, CreateJob,
          ScheduleDispatch
    <2>6. StoreTypeOK'
      BY <1>1, <2>1, <2>2, <2>4, <2>5, QueueKept
      DEF StoreTypeOK, Job, JobState, Transaction, UploadCommit, InsertStatement, CreateJob,
          ScheduleDispatch
    <2>7. ClientTypeOK'
      BY <1>1, <2>1, <2>2, <2>5, ClientMoves
      DEF UploadCommit, InsertStatement, CreateJob, ScheduleDispatch, Client, ClientPc,
          StoreTypeOK, Job
    <2> QED
      BY <1>1, <2>5, <2>6, <2>7, WorkerKept DEF TypeOK
  <1>6. CASE \E j \in Jobs : UnlockCommit(c, j)
    <2>1. PICK j \in Jobs : UnlockCommit(c, j)
      BY <1>6
    <2>2. client[c].stmt \in Statements
      BY <1>1, <2>1 DEF ClientTypeOK, UnlockCommit
    <2>3. row' = [row EXCEPT ![client[c].stmt].status = "uploaded", ![client[c].stmt].attempts = 0]
      BY <2>1 DEF UnlockCommit
    <2>4. row' \in [Statements -> Row]
      BY <2>2, <2>3 DEF Row, StatementStatus
    <2>5. JobsStay
      BY <1>1, <2>1, <2>2
      DEF StoreTypeOK, Job, JobsStay, UnlockCommit, CreateJob, ScheduleDispatch
    <2>6. StoreTypeOK'
      BY <1>1, <2>1, <2>2, <2>4, <2>5, QueueKept
      DEF StoreTypeOK, Job, JobState, Transaction, UnlockCommit, CreateJob, ScheduleDispatch
    <2>7. ClientTypeOK'
      BY <1>1, <2>1, <2>2, <2>5, ClientMoves
      DEF UnlockCommit, CreateJob, ScheduleDispatch, Client, ClientPc, StoreTypeOK, Job
    <2> QED
      BY <1>1, <2>5, <2>6, <2>7, WorkerKept DEF TypeOK
  <1>7. CASE UploadPark(c)
    <2>1. client[c].stmt \in Statements
      BY <1>1, <1>7 DEF ClientTypeOK, UploadPark
    <2>2. row' = [row EXCEPT ![client[c].stmt].status = "password_required"]
      BY <1>7 DEF UploadPark, InsertStatement
    <2>3. row' \in [Statements -> Row]
      BY <2>1, <2>2 DEF Row, StatementStatus
    <2>4. JobsStay
      BY <1>1, <1>7, <2>1 DEF StoreTypeOK, Job, JobsStay, UploadPark, InsertStatement, Finish
    <2>5. StoreTypeOK'
      BY <1>1, <1>7, <2>1, <2>3, <2>4, QueueKept
      DEF StoreTypeOK, Job, JobState, Transaction, UploadPark, InsertStatement, Finish
    <2>6. ClientTypeOK'
      BY <1>1, <1>7, <2>1, <2>4, IdleIsClient, ClientMoves
      DEF UploadPark, InsertStatement, Finish, IdleClient
    <2> QED
      BY <1>1, <2>4, <2>5, <2>6, WorkerKept DEF TypeOK
  <1>8. CASE UploadLostRace(c)
    <2>1. client[c].stmt \in Statements
      BY <1>1, <1>8 DEF ClientTypeOK, UploadLostRace
    <2>2. JobsStay
      BY <1>1, <1>8, <2>1 DEF StoreTypeOK, Job, JobsStay, UploadLostRace, Finish, store
    <2>3. StoreTypeOK'
      BY <1>1, <1>8, <2>1, ConstantsAssumption, <2>2, QueueKept
      DEF StoreTypeOK, Job, JobState, UploadLostRace, Finish, store
    <2>4. ClientTypeOK'
      BY <1>1, <1>8, <2>1, <2>2, IdleIsClient, ClientMoves
      DEF UploadLostRace, Finish, store, IdleClient
    <2> QED
      BY <1>1, <2>2, <2>3, <2>4, WorkerKept DEF TypeOK
  <1>9. CASE UploadAbort(c)
    <2>1. client[c].stmt \in Statements
      BY <1>1, <1>9 DEF ClientTypeOK, UploadAbort
    <2>2. JobsStay
      BY <1>1, <1>9, <2>1 DEF StoreTypeOK, Job, JobsStay, UploadAbort, Finish, Fault
    <2>3. StoreTypeOK'
      BY <1>1, <1>9, <2>1, ConstantsAssumption, <2>2, QueueKept
      DEF StoreTypeOK, Job, JobState, UploadAbort, Finish, Fault
    <2>4. ClientTypeOK'
      BY <1>1, <1>9, <2>1, <2>2, IdleIsClient, ClientMoves
      DEF UploadAbort, Finish, Fault, IdleClient
    <2> QED
      BY <1>1, <2>2, <2>3, <2>4, WorkerKept DEF TypeOK
  <1>10. CASE UnlockWrong(c)
    <2>1. client[c].stmt \in Statements /\ client[c].attempts \in Nat
      BY <1>1, <1>10 DEF ClientTypeOK, UnlockWrong, Client
    <2>2. row' = [row EXCEPT ![client[c].stmt].attempts = client[c].attempts + 1]
      BY <1>10 DEF UnlockWrong
    <2>3. row' \in [Statements -> Row]
      BY <2>1, <2>2 DEF Row, StatementStatus
    <2>4. JobsStay
      BY <1>1, <1>10, <2>1 DEF StoreTypeOK, Job, JobsStay, UnlockWrong, Finish
    <2>5. StoreTypeOK'
      BY <1>1, <1>10, <2>1, <2>3, <2>4, QueueKept
      DEF StoreTypeOK, Job, JobState, Transaction, UnlockWrong, Finish
    <2>6. ClientTypeOK'
      BY <1>1, <1>10, <2>1, <2>4, IdleIsClient, ClientMoves
         DEF UnlockWrong, Finish, IdleClient
    <2> QED
      BY <1>1, <2>4, <2>5, <2>6, WorkerKept DEF TypeOK
  <1>11. CASE UnlockRefuse(c)
    <2>1. client[c].stmt \in Statements
      BY <1>1, <1>11 DEF ClientTypeOK, UnlockRefuse
    <2>2. row' = [row EXCEPT ![client[c].stmt].status = "failed"]
      BY <1>11 DEF UnlockRefuse
    <2>3. row' \in [Statements -> Row]
      BY <2>1, <2>2 DEF Row, StatementStatus
    <2>4. JobsStay
      BY <1>1, <1>11, <2>1 DEF StoreTypeOK, Job, JobsStay, UnlockRefuse, Finish
    <2>5. StoreTypeOK'
      BY <1>1, <1>11, <2>1, <2>3, <2>4, QueueKept
      DEF StoreTypeOK, Job, JobState, Transaction, UnlockRefuse, Finish
    <2>6. ClientTypeOK'
      BY <1>1, <1>11, <2>1, <2>4, IdleIsClient, ClientMoves
         DEF UnlockRefuse, Finish, IdleClient
    <2> QED
      BY <1>1, <2>4, <2>5, <2>6, WorkerKept DEF TypeOK
  <1>12. CASE UnlockStore(c)
    <2>1. client[c].stmt \in Statements
      BY <1>1, <1>12 DEF ClientTypeOK, UnlockStore
    <2>2. JobsStay
      BY <1>1, <1>12, <2>1 DEF StoreTypeOK, Job, JobsStay, UnlockStore
    <2>3. StoreTypeOK'
      BY <1>1, <1>12, <2>1, ConstantsAssumption, <2>2, QueueKept
      DEF StoreTypeOK, Job, JobState, UnlockStore, StoreObject
    <2>4. client' = [client EXCEPT ![c].pc = "resealed"]
      BY <1>12 DEF UnlockStore
    <2>5. client' \in [Clients -> Client]
      BY <1>1, <2>4 DEF ClientTypeOK, Client, ClientPc
    <2>6. /\ client'[c].stmt = client[c].stmt /\ client'[c].pc # "dispatch"
          /\ \A d \in Clients : d # c => client'[d] = client[d]
      BY <1>1, <2>4 DEF ClientTypeOK, Client
    <2>7. ClientTypeOK'
      BY <1>1, <1>12, <2>1, <2>2, <2>5, <2>6 DEF ClientTypeOK, JobsStay
    <2> QED
      BY <1>1, <2>2, <2>3, <2>7, WorkerKept DEF TypeOK
  <1>13. CASE UnlockAbort(c)
    <2>1. client[c].stmt \in Statements
      BY <1>1, <1>13 DEF ClientTypeOK, UnlockAbort
    <2>2. JobsStay
      BY <1>1, <1>13, <2>1 DEF StoreTypeOK, Job, JobsStay, UnlockAbort, Finish, Fault
    <2>3. StoreTypeOK'
      BY <1>1, <1>13, <2>1, ConstantsAssumption, <2>2, QueueKept
      DEF StoreTypeOK, Job, JobState, UnlockAbort, Finish, Fault
    <2>4. ClientTypeOK'
      BY <1>1, <1>13, <2>1, <2>2, IdleIsClient, ClientMoves
      DEF UnlockAbort, Finish, Fault, IdleClient
    <2> QED
      BY <1>1, <2>2, <2>3, <2>4, WorkerKept DEF TypeOK
  <1>14. CASE DeleteObject(c)
    <2>1. client[c].stmt \in Statements
      BY <1>1, <1>14 DEF ClientTypeOK, DeleteObject
    <2>2. JobsStay
      BY <1>14 DEF JobsStay, DeleteObject
    <2>3. faults' \in 0..MaxFaults
      BY <1>1, <1>14, ConstantsAssumption
      DEF StoreTypeOK, DeleteObject, RemoveObject, StoreObject, Fault
    <2>4. object' \in [Statements -> {"absent", "locked", "plain"}]
      BY <1>1, <1>14, <2>1 DEF StoreTypeOK, DeleteObject, RemoveObject, StoreObject
    <2>5. StoreTypeOK'
      BY <1>1, <1>14, <2>1, <2>3, <2>4, <2>2, QueueKept
      DEF StoreTypeOK, DeleteObject, RemoveObject, StoreObject
    <2>6. client' = [client EXCEPT ![c].pc = "deleting"]
      BY <1>14 DEF DeleteObject
    <2>7. client' \in [Clients -> Client]
      BY <1>1, <2>6 DEF ClientTypeOK, Client, ClientPc
    <2>8. /\ client'[c].stmt = client[c].stmt /\ client'[c].pc # "dispatch"
          /\ \A d \in Clients : d # c => client'[d] = client[d]
      BY <1>1, <2>6 DEF ClientTypeOK, Client
    <2>9. ClientTypeOK'
      BY <1>1, <1>14, <2>1, <2>2, <2>7, <2>8 DEF ClientTypeOK, JobsStay
    <2> QED
      BY <1>1, <2>2, <2>5, <2>9, WorkerKept DEF TypeOK
  <1>15. CASE DeleteCommit(c)
    <2>1. client[c].stmt \in Statements
      BY <1>1, <1>15 DEF ClientTypeOK, DeleteCommit
    <2>2. row' = [row EXCEPT ![client[c].stmt] =
                    [row[client[c].stmt] EXCEPT !.deleted = TRUE, !.status = "processed"]]
      BY <1>15 DEF DeleteCommit
    <2>3. row' \in [Statements -> Row]
      BY <2>1, <2>2, RowDeleted
    <2>4. JobsStay
      BY <1>1, <1>15, <2>1 DEF StoreTypeOK, Job, JobsStay, DeleteCommit, Finish, OwnRows
    <2>5. StoreTypeOK'
      BY <1>1, <1>15, <2>1, <2>3, <2>4, QueueKept
      DEF StoreTypeOK, Job, JobState, Transaction, DeleteCommit, Finish, OwnRows
    <2>6. ClientTypeOK'
      BY <1>1, <1>15, <2>1, <2>4, IdleIsClient, ClientMoves
      DEF DeleteCommit, Finish, OwnRows, IdleClient
    <2> QED
      BY <1>1, <2>4, <2>5, <2>6, WorkerKept DEF TypeOK
  <1>16. CASE DeleteAbort(c) \/ DeleteRollback(c)
    <2>1. client[c].stmt \in Statements
      BY <1>1, <1>16 DEF ClientTypeOK, DeleteAbort, DeleteRollback
    <2>2. JobsStay
      BY <1>1, <1>16, <2>1
      DEF StoreTypeOK, Job, JobsStay, DeleteAbort, DeleteRollback, Finish, Fault
    <2>3. StoreTypeOK'
      BY <1>1, <1>16, <2>1, ConstantsAssumption, <2>2, QueueKept
      DEF StoreTypeOK, Job, JobState, DeleteAbort, DeleteRollback, Finish, Fault
    <2>4. ClientTypeOK'
      BY <1>1, <1>16, <2>1, <2>2, IdleIsClient, ClientMoves
      DEF DeleteAbort, DeleteRollback, Finish, Fault, IdleClient
    <2> QED
      BY <1>1, <2>2, <2>3, <2>4, WorkerKept DEF TypeOK
  <1>17. CASE Dispatch(c)
    <2>1. client[c].stmt \in Statements
      BY <1>1, <1>17 DEF ClientTypeOK, Dispatch
    <2>2. JobsStay
      BY <1>1, <1>17, <2>1 DEF StoreTypeOK, Job, JobsStay, Dispatch, Finish, Publish
    <2>3. StoreTypeOK'
      BY <1>1, <1>17, <2>1, ConstantsAssumption, Publishing
      DEF StoreTypeOK, ClientTypeOK, Dispatch
    <2>4. ClientTypeOK'
      BY <1>1, <1>17, <2>1, <2>2, IdleIsClient, ClientMoves
      DEF Dispatch, Finish, Publish, IdleClient
    <2> QED
      BY <1>1, <2>2, <2>3, <2>4, WorkerKept DEF TypeOK
  <1>18. CASE DispatchLost(c)
    <2>1. client[c].stmt \in Statements
      BY <1>1, <1>18 DEF ClientTypeOK, DispatchLost
    <2>2. JobsStay
      BY <1>1, <1>18, <2>1 DEF StoreTypeOK, Job, JobsStay, DispatchLost, Finish, Fault
    <2>3. StoreTypeOK'
      BY <1>1, <1>18, <2>1, ConstantsAssumption, <2>2, QueueKept
      DEF StoreTypeOK, Job, JobState, DispatchLost, Finish, Fault
    <2>4. ClientTypeOK'
      BY <1>1, <1>18, <2>1, <2>2, IdleIsClient, ClientMoves
      DEF DispatchLost, Finish, Fault, IdleClient
    <2> QED
      BY <1>1, <2>2, <2>3, <2>4, WorkerKept DEF TypeOK
  <1>19. CASE DeleteRows(c)
    <2>1. client[c].stmt \in Statements
      BY <1>1, <1>19 DEF ClientTypeOK, DeleteRows
    <2>2. JobsStay
      BY <1>19 DEF JobsStay, DeleteRows
    <2>3. doomed' \in [Clients -> SUBSET Transaction]
      BY <1>1, <1>19 DEF StoreTypeOK, DeleteRows, OwnRows
    <2>4. StoreTypeOK'
      BY <1>1, <1>19, <2>2, <2>3, QueueKept DEF StoreTypeOK, DeleteRows
    <2>5. client' = [client EXCEPT ![c].pc = "emptied"]
      BY <1>19 DEF DeleteRows
    <2>6. client' \in [Clients -> Client]
      BY <1>1, <2>5 DEF ClientTypeOK, Client, ClientPc
    <2>7. /\ client'[c].stmt = client[c].stmt /\ client'[c].pc # "dispatch"
          /\ \A d \in Clients : d # c => client'[d] = client[d]
      BY <1>1, <2>5 DEF ClientTypeOK, Client
    <2>8. ClientTypeOK'
      BY <1>1, <2>1, <2>2, <2>6, <2>7 DEF ClientTypeOK, JobsStay
    <2> QED
      BY <1>1, <2>2, <2>4, <2>8, WorkerKept DEF TypeOK
  <1> QED
    BY <1>2, <1>3, <1>4, <1>5, <1>6, <1>7, <1>8, <1>9, <1>10, <1>11, <1>12, <1>13, <1>14,
       <1>15,
       <1>16, <1>17, <1>18, <1>19
    DEF ClientActions

\* One worker goes on with the job it holds, or is idle again.
LEMMA WorkerGoesTo ==
    ASSUME WorkerTypeOK, JobsStay, NEW w \in Workers, NEW pc \in WorkerPc,
           worker[w].pc # "idle", Goto(w, pc),
           pc = "retry" => worker[w].attempt < MaxRetries
    PROVE  WorkerTypeOK'
  <1>1. worker' \in [Workers -> Worker]
    BY DEF WorkerTypeOK, Goto, Worker
  <1>2. /\ worker'[w].pc = pc /\ worker'[w].job = worker[w].job
        /\ worker'[w].attempt = worker[w].attempt
        /\ \A v \in Workers : v # w => worker'[v] = worker[v]
    BY DEF WorkerTypeOK, Goto, Worker
  <1> QED
    BY <1>1, <1>2 DEF WorkerTypeOK, JobsStay

\* A worker that becomes idle stays well-typed.
LEMMA WorkerReset ==
    ASSUME WorkerTypeOK, JobsStay, NEW w \in Workers, ConstantsAssumption,
           worker' = [worker EXCEPT ![w] = IdleWorker]
    PROVE  WorkerTypeOK'
  BY DEF WorkerTypeOK, JobsStay, Worker, WorkerPc, IdleWorker, ConstantsAssumption

\* A worker whose exception was caught retries only while retries remain.
LEMMA WorkerCaught ==
    ASSUME WorkerTypeOK, JobsStay, NEW w \in Workers, worker[w].pc # "idle", Caught(w),
           ConstantsAssumption
    PROVE  WorkerTypeOK'
  <1>1. worker[w].attempt \in Nat
    BY DEF WorkerTypeOK, Worker, ConstantsAssumption
  <1>2. CASE worker[w].attempt < MaxRetries
    <2>1. Goto(w, "retry")
      BY <1>2 DEF Caught, Goto
    <2> QED
      BY <1>2, <2>1, WorkerGoesTo DEF WorkerPc
  <1>3. CASE ~(worker[w].attempt < MaxRetries)
    <2>1. Goto(w, "give_up")
      BY <1>3 DEF Caught, Goto
    <2> QED
      BY <2>1, WorkerGoesTo DEF WorkerPc
  <1> QED
    BY <1>2, <1>3

\* A worker that remembers the rows it inserted is well-formed.
LEMMA WorkerWithRows ==
    ASSUME worker \in [Workers -> Worker], NEW w \in Workers, NEW rows \in SUBSET Fps
    PROVE  [worker EXCEPT ![w].pc = "categorize", ![w].fresh = rows] \in [Workers -> Worker]
  BY DEF Worker, WorkerPc

\* Overwriting a job's state keeps the store well-typed.
LEMMA JobEnds ==
    ASSUME StoreTypeOK, NEW j \in Jobs, NEW state \in JobState, job[j].state # "none", Emit(j, state)
    PROVE  /\ job' \in [Jobs -> Job]
           /\ \A k \in Jobs : job'[k].state # "none" => job'[k].stmt \in Statements
  BY DEF StoreTypeOK, Job, Emit

\* No action of a worker breaks a type.
LEMMA TypeWorker ==
    ASSUME TypeOK, NEW w \in Workers, WorkerActions(w), UNCHANGED client
    PROVE  TypeOK' /\ JobsStay
  <1>1. StoreTypeOK /\ ClientTypeOK /\ WorkerTypeOK
    BY DEF TypeOK
  <1>. row \in [Statements -> Row] /\ QueueTypeOK /\ ConstantsAssumption
    BY <1>1, ConstantsAssumption DEF StoreTypeOK
  <1>2. ASSUME worker[w].pc # "idle"
        PROVE  /\ worker[w].job \in Jobs /\ job[worker[w].job].state # "none"
               /\ Target(w) \in Statements
    BY <1>1, <1>2 DEF WorkerTypeOK, StoreTypeOK, Job, Target
  <1>3. CASE \E j \in Jobs, r \in 0..MaxRetries : Deliver(w, j, r)
    <2>1. PICK j \in Jobs, r \in 0..MaxRetries : Deliver(w, j, r)
      BY <1>3
    <2>2. JobsStay
      BY <2>1 DEF Deliver, JobsStay
    <2>3. queue' = [queue EXCEPT ![j] = [queue[j] EXCEPT ![r] = queue[j][r] - 1]] /\ queue[j][r] > 0
      BY <2>1 DEF Deliver
    <2>4. [queue[j] EXCEPT ![r] = queue[j][r] - 1] \in [0..MaxRetries -> Nat]
      BY <2>3 DEF QueueTypeOK, ConstantsAssumption
    <2>5. queue' \in [Jobs -> [0..MaxRetries -> Nat]]
      BY <2>3, <2>4 DEF QueueTypeOK
    <2>6. \A k \in Jobs, q \in 0..MaxRetries : queue'[k][q] > 0 => job'[k].state # "none"
      BY <2>1, <2>3, <2>4 DEF QueueTypeOK, Deliver
    <2>7. StoreTypeOK'
      BY <1>1, <2>1, <2>5, <2>6 DEF StoreTypeOK, QueueTypeOK, Deliver
    <2>8. job'[j].state # "none"
      BY <2>1 DEF QueueTypeOK, Deliver
    <2>9. WorkerTypeOK'
      BY <1>1, <2>1, <2>2, <2>8 DEF WorkerTypeOK, Worker, WorkerPc, JobsStay, Deliver
    <2> QED
      BY <1>1, <2>2, <2>7, <2>9, ClientKept DEF TypeOK
  <1>4. CASE Start(w)
    <2>1. /\ worker[w].pc # "idle"
          /\ worker[w].job \in Jobs /\ job[worker[w].job].state # "none"
          /\ Target(w) \in Statements
      BY <1>4, <1>2 DEF Start, Emit
    <2>2. JobsStay
      BY <1>1, <1>4, <2>1 DEF StoreTypeOK, Job, JobsStay, Start, Emit
    <2>3. StoreTypeOK'
      BY <1>1, <1>4, <2>1, <2>2, QueueKept
      DEF StoreTypeOK, Job, JobState, TerminalStates, DoneStates, Start, Emit
    <2>4. WorkerTypeOK'
      BY <1>1, <1>4, <2>1, <2>2, WorkerGoesTo DEF WorkerPc, Start
    <2> QED
      BY <1>1, <2>2, <2>3, <2>4, ClientKept DEF TypeOK
  <1>5. CASE Load(w)
    <2>1. /\ worker[w].pc # "idle"
          /\ worker[w].job \in Jobs /\ job[worker[w].job].state # "none"
          /\ Target(w) \in Statements
      BY <1>5, <1>2 DEF Load, Fault, ConstantsAssumption
    <2>2. JobsStay
      BY <1>1, <1>5, <2>1 DEF StoreTypeOK, Job, JobsStay, Load, Fault, ConstantsAssumption
    <2>3. StoreTypeOK'
      BY <1>1, <1>5, <2>1, <2>2, QueueKept
      DEF StoreTypeOK, Job, JobState, TerminalStates, DoneStates, Load, Fault,
          ConstantsAssumption
    <2>4. WorkerTypeOK'
      BY <1>1, <1>5, <2>1, <2>2, WorkerGoesTo DEF WorkerPc, Load
    <2> QED
      BY <1>1, <2>2, <2>3, <2>4, ClientKept DEF TypeOK
  <1>6. CASE LoadMissing(w)
    <2>1. /\ worker[w].pc # "idle"
          /\ worker[w].job \in Jobs /\ job[worker[w].job].state # "none"
          /\ Target(w) \in Statements
      BY <1>6, <1>2 DEF LoadMissing, store
    <2>2. JobsStay
      BY <1>1, <1>6, <2>1 DEF StoreTypeOK, Job, JobsStay, LoadMissing, store
    <2>3. StoreTypeOK'
      BY <1>1, <1>6, <2>1, <2>2, QueueKept
      DEF StoreTypeOK, Job, JobState, TerminalStates, DoneStates, LoadMissing, store
    <2>4. WorkerTypeOK'
      BY <1>1, <1>6, <2>1, <2>2, WorkerCaught DEF LoadMissing, store
    <2> QED
      BY <1>1, <2>2, <2>3, <2>4, ClientKept DEF TypeOK
  <1>7. CASE Reject(w)
    <2>1. /\ worker[w].pc # "idle"
          /\ worker[w].job \in Jobs /\ job[worker[w].job].state # "none"
          /\ Target(w) \in Statements
      BY <1>7, <1>2 DEF Reject, Emit, NoteKind
    <2>2. JobsStay
      BY <1>1, <1>7, <2>1 DEF StoreTypeOK, Job, JobsStay, Reject, Emit, NoteKind
    <2>3. row' = [row EXCEPT ![Target(w)] = [row[Target(w)] EXCEPT !.status = "failed"]]
      BY <1>7 DEF Reject, Emit, NoteKind
    <2>4. row' \in [Statements -> Row]
      BY <2>1, <2>3 DEF Row, StatementStatus
    <2>5. StoreTypeOK'
      BY <1>1, <1>7, <2>1, <2>2, <2>4, QueueKept
      DEF StoreTypeOK, Job, JobState, TerminalStates, DoneStates, Reject, Emit, NoteKind
    <2>6. WorkerTypeOK'
      BY <1>1, <1>7, <2>1, <2>2, WorkerGoesTo DEF WorkerPc, Reject
    <2> QED
      BY <1>1, <2>2, <2>5, <2>6, ClientKept DEF TypeOK
  <1>8. CASE EmitExtracting(w)
    <2>1. /\ worker[w].pc # "idle"
          /\ worker[w].job \in Jobs /\ job[worker[w].job].state # "none"
          /\ Target(w) \in Statements
      BY <1>8, <1>2 DEF EmitExtracting, Emit
    <2>2. JobsStay
      BY <1>1, <1>8, <2>1 DEF StoreTypeOK, Job, JobsStay, EmitExtracting, Emit
    <2>3. StoreTypeOK'
      BY <1>1, <1>8, <2>1, <2>2, QueueKept
      DEF StoreTypeOK, Job, JobState, TerminalStates, DoneStates, EmitExtracting, Emit
    <2>4. WorkerTypeOK'
      BY <1>1, <1>8, <2>1, <2>2, WorkerGoesTo DEF WorkerPc, EmitExtracting
    <2> QED
      BY <1>1, <2>2, <2>3, <2>4, ClientKept DEF TypeOK
  <1>9. CASE Record(w)
    <2>1. /\ worker[w].pc # "idle"
          /\ worker[w].job \in Jobs /\ job[worker[w].job].state # "none"
          /\ Target(w) \in Statements
      BY <1>9, <1>2 DEF Record, Emit
    <2>2. JobsStay
      BY <1>1, <1>9, <2>1 DEF StoreTypeOK, Job, JobsStay, Record, Emit
    <2>3. StoreTypeOK'
      BY <1>1, <1>9, <2>1, <2>2, QueueKept
      DEF StoreTypeOK, Job, JobState, TerminalStates, DoneStates, Record, Emit
    <2>4. WorkerTypeOK'
      BY <1>1, <1>9, <2>1, <2>2, WorkerGoesTo DEF WorkerPc, Record
    <2> QED
      BY <1>1, <2>2, <2>3, <2>4, ClientKept DEF TypeOK
  <1>10. CASE Persist(w)
    <2>1. /\ worker[w].pc # "idle"
          /\ worker[w].job \in Jobs /\ job[worker[w].job].state # "none"
          /\ Target(w) \in Statements
      BY <1>10, <1>2
      DEF Persist, RecordStatement, NewRows, RowsOfStatement, ConstantsAssumption, Transaction
    <2>2. JobsStay
      BY <1>1, <1>10, <2>1
      DEF StoreTypeOK, Job, JobsStay, Persist, RecordStatement, NewRows, RowsOfStatement,
          ConstantsAssumption, Transaction
    <2>3. NewRows(Target(w)) \in SUBSET Fps /\ VerdictOf[DocOf[Target(w)]] \in Trust
      BY <2>1 DEF ConstantsAssumption, NewRows, RowsOfStatement
    <2>4. row' = [row EXCEPT ![Target(w)] =
                    [row[Target(w)] EXCEPT !.trust = VerdictOf[DocOf[Target(w)]],
                        !.counted = NewRows(Target(w)), !.status = "processed", !.processed = TRUE]]
      BY <1>10 DEF Persist, RecordStatement
    <2>5. row' \in [Statements -> Row]
      BY <2>1, <2>3, <2>4, RowImported
    <2>6. StoreTypeOK'
      BY <1>1, <1>10, <2>1, <2>2, <2>3, <2>5, QueueKept DEF StoreTypeOK, Transaction, Persist
    <2>7. worker' = [worker EXCEPT ![w].pc = "categorize", ![w].fresh = NewRows(Target(w))]
      BY <1>10 DEF Persist
    <2>8. worker' \in [Workers -> Worker]
      BY <1>1, <2>3, <2>7, WorkerWithRows DEF WorkerTypeOK
    <2>9. /\ worker'[w].pc = "categorize" /\ worker'[w].job = worker[w].job
          /\ \A v \in Workers : v # w => worker'[v] = worker[v]
      BY <1>1, <1>10 DEF WorkerTypeOK, Worker, Persist
    <2>10. WorkerTypeOK'
      BY <1>1, <2>1, <2>2, <2>8, <2>9 DEF WorkerTypeOK, JobsStay
    <2> QED
      BY <1>1, <2>2, <2>6, <2>10, ClientKept DEF TypeOK
  <1>11. CASE Categorize(w)
    <2>1. /\ worker[w].pc # "idle"
          /\ worker[w].job \in Jobs /\ job[worker[w].job].state # "none"
          /\ Target(w) \in Statements
      BY <1>11, <1>2 DEF Categorize, Emit
    <2>2. JobsStay
      BY <1>1, <1>11, <2>1 DEF StoreTypeOK, Job, JobsStay, Categorize, Emit
    <2>3. StoreTypeOK'
      BY <1>1, <1>11, <2>1, <2>2, QueueKept
      DEF StoreTypeOK, Job, JobState, TerminalStates, DoneStates, Categorize, Emit
    <2>4. WorkerTypeOK'
      BY <1>1, <1>11, <2>1, <2>2, WorkerGoesTo DEF WorkerPc, Categorize
    <2> QED
      BY <1>1, <2>2, <2>3, <2>4, ClientKept DEF TypeOK
  <1>12. CASE Complete(w)
    <2>1. /\ worker[w].pc # "idle"
          /\ worker[w].job \in Jobs /\ job[worker[w].job].state # "none"
          /\ Target(w) \in Statements
      BY <1>12, <1>2 DEF Complete, Emit
    <2>2. JobsStay
      BY <1>1, <1>12, <2>1 DEF StoreTypeOK, Job, JobsStay, Complete, Emit
    <2>3. NoteFor(Target(w), worker[w].fresh) \in NoteKind
      BY DEF NoteFor, NoteKind
    <2>4. notes' \in [Statements -> SUBSET NoteKind]
      BY <1>1, <1>12, <2>1, <2>3 DEF StoreTypeOK, Complete
    <2>5. /\ job' \in [Jobs -> Job]
          /\ \A j \in Jobs : job'[j].state # "none" => job'[j].stmt \in Statements
      BY <1>1, <1>12, <2>1, JobEnds DEF JobState, TerminalStates, DoneStates, Complete
    <2>6. StoreTypeOK'
      BY <1>1, <1>12, <2>2, <2>4, <2>5, QueueKept DEF StoreTypeOK, JobsStay, Complete
    <2>7. WorkerTypeOK'
      BY <1>1, <1>12, <2>1, <2>2, WorkerGoesTo DEF WorkerPc, Complete
    <2> QED
      BY <1>1, <2>2, <2>6, <2>7, ClientKept DEF TypeOK
  <1>13. CASE Retry(w)
    <2>1. /\ worker[w].pc # "idle"
          /\ worker[w].job \in Jobs /\ job[worker[w].job].state # "none"
          /\ Target(w) \in Statements
      BY <1>13, <1>2 DEF Retry
    <2>2. JobsStay
      BY <1>1, <1>13, <2>1 DEF StoreTypeOK, Job, JobsStay, Retry
    <2>3. StoreTypeOK'
      BY <1>1, <1>13, <2>1, <2>2, Publishing
      DEF StoreTypeOK, Worker, WorkerTypeOK, ConstantsAssumption, Retry
    <2>4. WorkerTypeOK'
      BY <1>1, <1>13, <2>1, <2>2, WorkerGoesTo DEF WorkerPc, Retry
    <2> QED
      BY <1>1, <2>2, <2>3, <2>4, ClientKept DEF TypeOK
  <1>14. CASE MarkFailed(w)
    <2>1. /\ worker[w].pc # "idle"
          /\ worker[w].job \in Jobs /\ job[worker[w].job].state # "none"
          /\ Target(w) \in Statements
      BY <1>14, <1>2 DEF MarkFailed, Emit
    <2>2. JobsStay
      BY <1>1, <1>14, <2>1 DEF StoreTypeOK, Job, JobsStay, MarkFailed, Emit
    <2>3. row' = [row EXCEPT ![Target(w)] = [row[Target(w)] EXCEPT !.status = "failed"]]
      BY <1>14 DEF MarkFailed, Emit
    <2>4. row' \in [Statements -> Row]
      BY <2>1, <2>3 DEF Row, StatementStatus
    <2>5. StoreTypeOK'
      BY <1>1, <1>14, <2>1, <2>2, <2>4, QueueKept
      DEF StoreTypeOK, Job, JobState, TerminalStates, DoneStates, MarkFailed, Emit
    <2>6. WorkerTypeOK'
      BY <1>1, <1>14, <2>1, <2>2, WorkerGoesTo DEF WorkerPc, MarkFailed
    <2> QED
      BY <1>1, <2>2, <2>5, <2>6, ClientKept DEF TypeOK
  <1>15. CASE Ack(w)
    <2>1. /\ worker[w].pc # "idle"
          /\ worker[w].job \in Jobs /\ job[worker[w].job].state # "none"
          /\ Target(w) \in Statements
      BY <1>15, <1>2 DEF Ack, store
    <2>2. JobsStay
      BY <1>1, <1>15, <2>1 DEF StoreTypeOK, Job, JobsStay, Ack, store
    <2>3. StoreTypeOK'
      BY <1>1, <1>15, <2>1, <2>2, QueueKept
      DEF StoreTypeOK, Job, JobState, TerminalStates, DoneStates, Ack, store
    <2>4. WorkerTypeOK'
      BY <1>1, <1>15, <2>1, <2>2, WorkerReset DEF Ack, store
    <2> QED
      BY <1>1, <2>2, <2>3, <2>4, ClientKept DEF TypeOK
  <1>16. CASE Raise(w)
    <2>1. /\ worker[w].pc # "idle"
          /\ worker[w].job \in Jobs /\ job[worker[w].job].state # "none"
          /\ Target(w) \in Statements
      BY <1>16, <1>2 DEF Raise, Fault, ConstantsAssumption, Running
    <2>2. JobsStay
      BY <1>1, <1>16, <2>1
      DEF StoreTypeOK, Job, JobsStay, Raise, Fault, ConstantsAssumption, Running
    <2>3. StoreTypeOK'
      BY <1>1, <1>16, <2>1, <2>2, QueueKept
      DEF StoreTypeOK, Job, JobState, TerminalStates, DoneStates, Raise, Fault,
          ConstantsAssumption, Running
    <2>4. WorkerTypeOK'
      BY <1>1, <1>16, <2>1, <2>2, WorkerCaught DEF Raise, Fault, ConstantsAssumption, Running
    <2> QED
      BY <1>1, <2>2, <2>3, <2>4, ClientKept DEF TypeOK
  <1>17. CASE MarkFailedRaises(w)
    <2>1. /\ worker[w].pc # "idle"
          /\ worker[w].job \in Jobs /\ job[worker[w].job].state # "none"
          /\ Target(w) \in Statements
      BY <1>17, <1>2 DEF MarkFailedRaises, Fault, ConstantsAssumption
    <2>2. JobsStay
      BY <1>1, <1>17, <2>1
      DEF StoreTypeOK, Job, JobsStay, MarkFailedRaises, Fault, ConstantsAssumption
    <2>3. StoreTypeOK'
      BY <1>1, <1>17, <2>1, <2>2, QueueKept
      DEF StoreTypeOK, Job, JobState, TerminalStates, DoneStates, MarkFailedRaises, Fault,
          ConstantsAssumption
    <2>4. WorkerTypeOK'
      BY <1>1, <1>17, <2>1, <2>2, WorkerGoesTo DEF WorkerPc, MarkFailedRaises
    <2> QED
      BY <1>1, <2>2, <2>3, <2>4, ClientKept DEF TypeOK
  <1>18. CASE WorkerLost(w)
    <2>1. /\ worker[w].pc # "idle"
          /\ worker[w].job \in Jobs /\ job[worker[w].job].state # "none"
          /\ Target(w) \in Statements
      BY <1>18, <1>2 DEF WorkerLost, Fault, ConstantsAssumption
    <2>2. JobsStay
      BY <1>1, <1>18, <2>1
      DEF StoreTypeOK, Job, JobsStay, WorkerLost, Fault, ConstantsAssumption
    <2>3. StoreTypeOK'
      BY <1>1, <1>18, <2>1, <2>2, Publishing
      DEF StoreTypeOK, Worker, WorkerTypeOK, ConstantsAssumption, WorkerLost, Fault
    <2>4. WorkerTypeOK'
      BY <1>1, <1>18, <2>1, <2>2, WorkerReset DEF WorkerLost, Fault, ConstantsAssumption
    <2> QED
      BY <1>1, <2>2, <2>3, <2>4, ClientKept DEF TypeOK
  <1>19. CASE TimeLimit(w)
    <2>1. /\ worker[w].pc # "idle"
          /\ worker[w].job \in Jobs /\ job[worker[w].job].state # "none"
          /\ Target(w) \in Statements
      BY <1>19, <1>2 DEF TimeLimit, Fault, ConstantsAssumption, Running
    <2>2. JobsStay
      BY <1>1, <1>19, <2>1
      DEF StoreTypeOK, Job, JobsStay, TimeLimit, Fault, ConstantsAssumption, Running
    <2>3. StoreTypeOK'
      BY <1>1, <1>19, <2>1, <2>2, QueueKept
      DEF StoreTypeOK, Job, JobState, TerminalStates, DoneStates, TimeLimit, Fault,
          ConstantsAssumption, Running
    <2>4. WorkerTypeOK'
      BY <1>1, <1>19, <2>1, <2>2, WorkerReset
         DEF TimeLimit, Fault, ConstantsAssumption, Running
    <2> QED
      BY <1>1, <2>2, <2>3, <2>4, ClientKept DEF TypeOK
  <1>20. CASE ConnectionLost(w)
    <2>1. /\ worker[w].pc # "idle"
          /\ worker[w].job \in Jobs /\ job[worker[w].job].state # "none"
          /\ Target(w) \in Statements
      BY <1>20, <1>2 DEF ConnectionLost, Fault, ConstantsAssumption
    <2>2. JobsStay
      BY <1>1, <1>20, <2>1
      DEF StoreTypeOK, Job, JobsStay, ConnectionLost, Fault, ConstantsAssumption
    <2>3. StoreTypeOK'
      BY <1>1, <1>20, <2>1, <2>2, Publishing
      DEF StoreTypeOK, Worker, WorkerTypeOK, ConstantsAssumption, ConnectionLost, Fault
    <2>4. WorkerTypeOK'
      BY <1>1, <1>20, <2>2, WorkerKept DEF ConnectionLost
    <2> QED
      BY <1>1, <2>2, <2>3, <2>4, ClientKept DEF TypeOK
  <1> QED
    BY <1>3, <1>4, <1>5, <1>6, <1>7, <1>8, <1>9, <1>10, <1>11, <1>12, <1>13, <1>14, <1>15,
       <1>16, <1>17, <1>18, <1>19, <1>20
    DEF WorkerActions

\* TypeOK is inductive.
LEMMA TypeStep ==
    ASSUME TypeOK, [Next]_vars
    PROVE  TypeOK' /\ JobsStay
  <1>1. CASE Next
    BY <1>1, NextIsActions, TypeApi, TypeWorker
  <1>2. CASE UNCHANGED vars
    BY <1>2 DEF vars, TypeOK, StoreTypeOK, QueueTypeOK, ClientTypeOK, WorkerTypeOK, JobsStay
  <1> QED
    BY <1>1, <1>2

\* Every variable keeps its type, every request and worker holds a job that
\* exists, and only jobs that exist have messages.
THEOREM TypeCorrect == Spec => []TypeOK
  BY TypeInit, TypeStep, PTL DEF Spec

-----------------------------------------------------------------------------
(* Files: OnlyOpenedFilesAreQueued and what makes it inductive *)

\* What a request knows of the statement it works on.  Only an upload holds
\* an id that has no row yet, and it alone holds it.
RequestInv(c) ==
    LET s == client[c].stmt IN
    /\ client[c].pc = "stored" =>
         /\ row[s].status = "none" /\ object[s] # "absent"
         /\ object[s] = "plain" => DocOf[s] \notin Hostile
         /\ \A d \in Clients : client[d].pc = "stored" /\ client[d].stmt = s => d = c
    /\ client[c].pc \in {"opened", "resealed", "found", "emptied", "deleting"} =>
         row[s].status # "none"
    /\ client[c].pc = "resealed" => DocOf[s] \notin Hostile /\ object[s] # "locked"

FileInv == OnlyOpenedFilesAreQueued /\ \A c \in Clients : RequestInv(c)

\* FileInv holds at first: there is no job and no request.
LEMMA FileInit == Init => FileInv
  BY DEF Init, StoreInit, ClientInit, IdleClient, FileInv, OnlyOpenedFilesAreQueued,
         RequestInv

\* What every step of a worker does to what FileInv speaks of.
WorkerFrame ==
    /\ UNCHANGED <<object, client>>
    /\ \A s \in Statements :
        \/ row'[s].status = row[s].status
        \/ row[s].status # "none" /\ row'[s].status \in {"failed", "processed"}
    /\ \A j \in Jobs : job'[j].state # "none" =>
        job[j].state # "none" /\ job'[j].stmt = job[j].stmt

\* FileInv survives the step of a worker, which stores nothing and creates no job.
LEMMA FileFrame ==
    ASSUME TypeOK, FileInv, WorkerFrame
    PROVE  FileInv'
  <1>1. OnlyOpenedFilesAreQueued'
    BY DEF TypeOK, StoreTypeOK, FileInv, OnlyOpenedFilesAreQueued, WorkerFrame
  <1>2. ASSUME NEW c \in Clients
        PROVE  RequestInv(c)'
    <2>1. client[c].pc # "idle" => client[c].stmt \in Statements
      BY DEF TypeOK, ClientTypeOK
    <2> QED
      BY <2>1 DEF FileInv, RequestInv, WorkerFrame
  <1> QED
    BY <1>1, <1>2 DEF FileInv

\* No action of a worker breaks FileInv.
LEMMA FileWorker ==
    ASSUME TypeOK, FileInv, NEW w \in Workers, WorkerActions(w), UNCHANGED client
    PROVE  FileInv'
  <1>1. StoreTypeOK /\ WorkerTypeOK
    BY DEF TypeOK
  <1>. row \in [Statements -> Row] /\ job \in [Jobs -> Job]
    BY <1>1 DEF StoreTypeOK
  <1>2. ASSUME worker[w].pc # "idle"
        PROVE  /\ worker[w].job \in Jobs /\ job[worker[w].job].state # "none"
               /\ Target(w) \in Statements /\ row[Target(w)].status # "none"
    BY <1>1, <1>2 DEF WorkerTypeOK, StoreTypeOK, FileInv, OnlyOpenedFilesAreQueued, Target
  <1>3. CASE \E j \in Jobs, r \in 0..MaxRetries : Deliver(w, j, r)
    BY <1>3, FileFrame DEF Deliver, WorkerFrame
  <1>4. CASE Start(w)
    <2>1. worker[w].pc # "idle"
      BY <1>4 DEF Start
    <2>2. WorkerFrame
      BY <1>4, <2>1, <1>2 DEF Start, Emit, WorkerFrame, Row, Job
    <2> QED
      BY <2>2, FileFrame
  <1>5. CASE Load(w)
    BY <1>5, FileFrame DEF Load, WorkerFrame
  <1>6. CASE LoadMissing(w)
    BY <1>6, FileFrame DEF LoadMissing, store, WorkerFrame
  <1>7. CASE Reject(w)
    <2>1. worker[w].pc # "idle"
      BY <1>7 DEF Reject
    <2>2. WorkerFrame
      BY <1>7, <2>1, <1>2 DEF Reject, Emit, WorkerFrame, Row, Job
    <2> QED
      BY <2>2, FileFrame
  <1>8. CASE EmitExtracting(w)
    <2>1. worker[w].pc # "idle"
      BY <1>8 DEF EmitExtracting
    <2>2. WorkerFrame
      BY <1>8, <2>1, <1>2 DEF EmitExtracting, Emit, WorkerFrame, Row, Job
    <2> QED
      BY <2>2, FileFrame
  <1>9. CASE Record(w)
    <2>1. worker[w].pc # "idle"
      BY <1>9 DEF Record
    <2>2. WorkerFrame
      BY <1>9, <2>1, <1>2 DEF Record, Emit, WorkerFrame, Row, Job
    <2> QED
      BY <2>2, FileFrame
  <1>10. CASE Persist(w)
    <2>1. worker[w].pc # "idle"
      BY <1>10 DEF Persist
    <2>2. WorkerFrame
      BY <1>10, <2>1, <1>2 DEF Persist, RecordStatement, WorkerFrame, Row, Job
    <2> QED
      BY <2>2, FileFrame
  <1>11. CASE Categorize(w)
    <2>1. worker[w].pc # "idle"
      BY <1>11 DEF Categorize
    <2>2. WorkerFrame
      BY <1>11, <2>1, <1>2 DEF Categorize, Emit, WorkerFrame, Row, Job
    <2> QED
      BY <2>2, FileFrame
  <1>12. CASE Complete(w)
    <2>1. worker[w].pc # "idle"
      BY <1>12 DEF Complete
    <2>2. WorkerFrame
      BY <1>12, <2>1, <1>2 DEF Complete, Emit, WorkerFrame, Row, Job
    <2> QED
      BY <2>2, FileFrame
  <1>13. CASE Retry(w)
    BY <1>13, FileFrame DEF Retry, WorkerFrame
  <1>14. CASE MarkFailed(w)
    <2>1. worker[w].pc # "idle"
      BY <1>14 DEF MarkFailed
    <2>2. WorkerFrame
      BY <1>14, <2>1, <1>2 DEF MarkFailed, Emit, WorkerFrame, Row, Job
    <2> QED
      BY <2>2, FileFrame
  <1>15. CASE Ack(w)
    BY <1>15, FileFrame DEF Ack, store, WorkerFrame
  <1>16. CASE Raise(w)
    BY <1>16, FileFrame DEF Raise, WorkerFrame
  <1>17. CASE MarkFailedRaises(w)
    BY <1>17, FileFrame DEF MarkFailedRaises, WorkerFrame
  <1>18. CASE WorkerLost(w)
    BY <1>18, FileFrame DEF WorkerLost, WorkerFrame
  <1>19. CASE TimeLimit(w)
    BY <1>19, FileFrame DEF TimeLimit, WorkerFrame
  <1>20. CASE ConnectionLost(w)
    BY <1>20, FileFrame DEF ConnectionLost, WorkerFrame
  <1> QED
    BY <1>3, <1>4, <1>5, <1>6, <1>7, <1>8, <1>9, <1>10, <1>11, <1>12, <1>13, <1>14, <1>15,
       <1>16, <1>17, <1>18, <1>19, <1>20
    DEF WorkerActions

\* What most steps of a request do: at most a refusal or a deletion is
\* written to a row that is there, and the request goes on with such a row.
RequestFrame(c) ==
    /\ UNCHANGED object
    /\ \A s \in Statements :
        \/ row'[s].status = row[s].status
        \/ row[s].status # "none" /\ row'[s].status \in {"failed", "processed"}
    /\ UNCHANGED job
    /\ \A d \in Clients : d # c => client'[d] = client[d]
    /\ \/ client'[c].pc = "idle"
       \/ /\ client'[c].pc \in {"opened", "found", "emptied"}
          /\ client'[c].stmt \in Statements
          /\ row[client'[c].stmt].status # "none"

\* FileInv survives the steps that RequestFrame describes.
LEMMA FileRequestFrame ==
    ASSUME TypeOK, FileInv, NEW c \in Clients, RequestFrame(c)
    PROVE  FileInv'
  <1>1. OnlyOpenedFilesAreQueued'
    BY DEF TypeOK, StoreTypeOK, FileInv, OnlyOpenedFilesAreQueued, RequestFrame
  <1>2. ASSUME NEW d \in Clients
        PROVE  RequestInv(d)'
    <2>1. client[d].pc # "idle" => client[d].stmt \in Statements
      BY DEF TypeOK, ClientTypeOK
    <2>2. CASE d = c
      BY <2>2 DEF RequestInv, RequestFrame
    <2>3. CASE d # c
      BY <2>1, <2>3 DEF FileInv, RequestInv, RequestFrame
    <2> QED
      BY <2>2, <2>3
  <1> QED
    BY <1>1, <1>2 DEF FileInv

\* No action of a request breaks FileInv.
LEMMA FileApi ==
    ASSUME TypeOK, FileInv, NEW c \in Clients, ClientActions(c), UNCHANGED worker
    PROVE  FileInv'
  <1>1. StoreTypeOK /\ ClientTypeOK
    BY DEF TypeOK
  <1>. row \in [Statements -> Row] /\ job \in [Jobs -> Job] /\ client \in [Clients -> Client]
    BY <1>1 DEF StoreTypeOK, ClientTypeOK
  <1>2. ASSUME NEW d \in Clients, client[d].pc # "idle"
        PROVE  client[d].stmt \in Statements
    BY <1>1, <1>2 DEF ClientTypeOK
  <1>3. CASE \E s \in Statements : UnlockOpen(c, s)
    <2>1. PICK s \in Statements : UnlockOpen(c, s)
      BY <1>3
    <2>2. RequestFrame(c)
      BY <2>1 DEF UnlockOpen, store, Live, RequestFrame, Client
    <2> QED
      BY <2>2, FileRequestFrame
  <1>4. CASE \E s \in Statements : DeleteFind(c, s)
    <2>1. PICK s \in Statements : DeleteFind(c, s)
      BY <1>4
    <2>2. RequestFrame(c)
      BY <2>1 DEF DeleteFind, store, Live, RequestFrame, Client
    <2> QED
      BY <2>2, FileRequestFrame
  <1>5. CASE UploadLostRace(c)
    <2>1. RequestFrame(c)
      BY <1>5 DEF UploadLostRace, Finish, store, IdleClient, RequestFrame
    <2> QED
      BY <2>1, FileRequestFrame
  <1>6. CASE UploadAbort(c)
    <2>1. RequestFrame(c)
      BY <1>6 DEF UploadAbort, Finish, IdleClient, RequestFrame
    <2> QED
      BY <2>1, FileRequestFrame
  <1>7. CASE UnlockAbort(c)
    <2>1. RequestFrame(c)
      BY <1>7 DEF UnlockAbort, Finish, IdleClient, RequestFrame
    <2> QED
      BY <2>1, FileRequestFrame
  <1>8. CASE DeleteAbort(c) \/ DeleteRollback(c)
    <2>1. RequestFrame(c)
      BY <1>8 DEF DeleteAbort, DeleteRollback, Finish, IdleClient, RequestFrame
    <2> QED
      BY <2>1, FileRequestFrame
  <1>9. CASE Dispatch(c)
    <2>1. RequestFrame(c)
      BY <1>9 DEF Dispatch, Finish, IdleClient, RequestFrame
    <2> QED
      BY <2>1, FileRequestFrame
  <1>10. CASE DispatchLost(c)
    <2>1. RequestFrame(c)
      BY <1>10 DEF DispatchLost, Finish, IdleClient, RequestFrame
    <2> QED
      BY <2>1, FileRequestFrame
  <1>11. CASE UnlockWrong(c)
    <2>1. client[c].stmt \in Statements /\ row[client[c].stmt].status # "none"
      BY <1>11, <1>2 DEF UnlockWrong, FileInv, RequestInv
    <2>2. RequestFrame(c)
      BY <1>11, <2>1 DEF UnlockWrong, Finish, IdleClient, RequestFrame, Row
    <2> QED
      BY <2>2, FileRequestFrame
  <1>12. CASE UnlockRefuse(c)
    <2>1. client[c].stmt \in Statements /\ row[client[c].stmt].status # "none"
      BY <1>12, <1>2 DEF UnlockRefuse, FileInv, RequestInv
    <2>2. RequestFrame(c)
      BY <1>12, <2>1 DEF UnlockRefuse, Finish, IdleClient, RequestFrame, Row
    <2> QED
      BY <2>2, FileRequestFrame
  <1>13. CASE DeleteCommit(c)
    <2>1. client[c].stmt \in Statements /\ row[client[c].stmt].status # "none"
      BY <1>13, <1>2 DEF DeleteCommit, FileInv, RequestInv
    <2>2. RequestFrame(c)
      BY <1>13, <2>1 DEF DeleteCommit, Finish, IdleClient, RequestFrame, Row
    <2> QED
      BY <2>2, FileRequestFrame
  <1>14. CASE \E s \in Statements : UploadStore(c, s)
    <2>1. PICK s \in Statements : UploadStore(c, s)
      BY <1>14
    <2>2. OnlyOpenedFilesAreQueued'
      BY <1>1, <2>1
      DEF StoreTypeOK, FileInv, OnlyOpenedFilesAreQueued, RequestInv, Row, Job, UploadStore,
          StoreObject
    <2>3. ASSUME NEW d \in Clients PROVE RequestInv(d)'
      <3>1. CASE d = c
        <4>1. client'[c].pc = "stored" /\ client'[c].stmt = s
          BY <2>1 DEF UploadStore, Client
        <4>2. \A e \in Clients : e # c => client'[e] = client[e]
          BY <2>1 DEF UploadStore, Client
        <4>3. /\ row'[s].status = "none" /\ object'[s] # "absent"
              /\ object'[s] = "plain" => DocOf[s] \notin Hostile
          BY <1>1, <2>1 DEF StoreTypeOK, UploadStore, StoreObject
        <4>4. \A e \in Clients : e # c => ~(client[e].pc = "stored" /\ client[e].stmt = s)
          BY <2>1 DEF FileInv, RequestInv, UploadStore
        <4> QED
          BY <3>1, <4>1, <4>2, <4>3, <4>4 DEF RequestInv
      <3>2. CASE d # c
        BY <1>2, <2>1, <3>2
        DEF StoreTypeOK, FileInv, RequestInv, Row, Client, UploadStore, StoreObject
      <3> QED BY <3>1, <3>2
    <2> QED
      BY <2>2, <2>3 DEF FileInv
  <1>15. CASE \E j \in Jobs : UploadCommit(c, j)
    <2>1. PICK j \in Jobs : UploadCommit(c, j)
      BY <1>15
    <2>2. client[c].stmt \in Statements /\ RequestInv(c)
      BY <2>1, <1>2 DEF UploadCommit, FileInv
    <2>3. OnlyOpenedFilesAreQueued'
      BY <1>1, <2>1, <2>2
      DEF StoreTypeOK, FileInv, OnlyOpenedFilesAreQueued, RequestInv, Row, Job, UploadCommit,
          InsertStatement, CreateJob, ScheduleDispatch
    <2>4. ASSUME NEW d \in Clients PROVE RequestInv(d)'
      <3>1. CASE d = c
        BY <1>2, <2>1, <2>2, <3>1
        DEF StoreTypeOK, FileInv, RequestInv, Row, Client, UploadCommit, InsertStatement,
            CreateJob, ScheduleDispatch
      <3>2. CASE d # c
        BY <1>2, <2>1, <2>2, <3>2
        DEF StoreTypeOK, FileInv, RequestInv, Row, Client, UploadCommit, InsertStatement,
            CreateJob, ScheduleDispatch
      <3> QED BY <3>1, <3>2
    <2> QED
      BY <2>3, <2>4 DEF FileInv
  <1>16. CASE UploadPark(c)
    <2>1. client[c].stmt \in Statements /\ RequestInv(c)
      BY <1>16, <1>2 DEF UploadPark, FileInv
    <2>2. OnlyOpenedFilesAreQueued'
      BY <1>1, <1>16, <2>1
      DEF StoreTypeOK, FileInv, OnlyOpenedFilesAreQueued, RequestInv, Row, Job, UploadPark,
          InsertStatement, Finish, IdleClient
    <2>3. ASSUME NEW d \in Clients PROVE RequestInv(d)'
      <3>1. CASE d = c
        BY <1>2, <1>16, <2>1, <3>1
        DEF StoreTypeOK, FileInv, RequestInv, Row, Client, UploadPark, InsertStatement,
            Finish,
            IdleClient
      <3>2. CASE d # c
        BY <1>2, <1>16, <2>1, <3>2
        DEF StoreTypeOK, FileInv, RequestInv, Row, Client, UploadPark, InsertStatement,
            Finish,
            IdleClient
      <3> QED BY <3>1, <3>2
    <2> QED
      BY <2>2, <2>3 DEF FileInv
  <1>17. CASE UnlockStore(c)
    <2>1. client[c].stmt \in Statements /\ RequestInv(c)
      BY <1>17, <1>2 DEF UnlockStore, StoreObject, FileInv
    <2>2. OnlyOpenedFilesAreQueued'
      BY <1>1, <1>17, <2>1
      DEF StoreTypeOK, FileInv, OnlyOpenedFilesAreQueued, RequestInv, Row, Job, UnlockStore,
          StoreObject
    <2>3. ASSUME NEW d \in Clients PROVE RequestInv(d)'
      <3>1. CASE d = c
        <4>1. client'[c].pc = "resealed" /\ client'[c].stmt = client[c].stmt
          BY <1>17 DEF UnlockStore, Client
        <4>2. /\ object'[client[c].stmt] = "plain" /\ DocOf[client[c].stmt] \notin Hostile
              /\ row'[client[c].stmt].status # "none"
          BY <1>1, <1>17, <2>1 DEF StoreTypeOK, UnlockStore, StoreObject, RequestInv
        <4> QED
          BY <3>1, <4>1, <4>2 DEF RequestInv
      <3>2. CASE d # c
        BY <1>2, <1>17, <2>1, <3>2
        DEF StoreTypeOK, FileInv, RequestInv, Row, Client, UnlockStore, StoreObject
      <3> QED BY <3>1, <3>2
    <2> QED
      BY <2>2, <2>3 DEF FileInv
  <1>18. CASE \E j \in Jobs : UnlockCommit(c, j)
    <2>1. PICK j \in Jobs : UnlockCommit(c, j)
      BY <1>18
    <2>2. client[c].stmt \in Statements /\ RequestInv(c)
      BY <2>1, <1>2 DEF UnlockCommit, FileInv
    <2>3. OnlyOpenedFilesAreQueued'
      BY <1>1, <2>1, <2>2
      DEF StoreTypeOK, FileInv, OnlyOpenedFilesAreQueued, RequestInv, Row, Job, UnlockCommit,
          CreateJob, ScheduleDispatch
    <2>4. ASSUME NEW d \in Clients PROVE RequestInv(d)'
      <3>1. CASE d = c
        BY <1>2, <2>1, <2>2, <3>1
        DEF StoreTypeOK, FileInv, RequestInv, Row, Client, UnlockCommit, CreateJob,
            ScheduleDispatch
      <3>2. CASE d # c
        BY <1>2, <2>1, <2>2, <3>2
        DEF StoreTypeOK, FileInv, RequestInv, Row, Client, UnlockCommit, CreateJob,
            ScheduleDispatch
      <3> QED BY <3>1, <3>2
    <2> QED
      BY <2>3, <2>4 DEF FileInv
  <1>19. CASE DeleteObject(c)
    <2>1. client[c].stmt \in Statements /\ RequestInv(c)
      BY <1>19, <1>2 DEF DeleteObject, FileInv
    <2>2. OnlyOpenedFilesAreQueued'
      BY <1>1, <1>19, <2>1
      DEF StoreTypeOK, FileInv, OnlyOpenedFilesAreQueued, RequestInv, Row, Job, DeleteObject,
          RemoveObject, StoreObject
    <2>3. ASSUME NEW d \in Clients PROVE RequestInv(d)'
      <3>1. CASE d = c
        BY <1>2, <1>19, <2>1, <3>1
        DEF StoreTypeOK, FileInv, RequestInv, Row, Client, DeleteObject, RemoveObject,
            StoreObject
      <3>2. CASE d # c
        <4>1. UNCHANGED row /\ client'[d] = client[d] /\ RequestInv(d)
          BY <1>19, <3>2 DEF DeleteObject, RemoveObject, StoreObject, FileInv
        <4>2. \A e \in Clients : client'[e].pc = "stored" =>
                 client[e].pc = "stored" /\ client'[e].stmt = client[e].stmt
          BY <1>19 DEF DeleteObject, Client
        <4>3. \A t \in Statements : t # client[c].stmt => object'[t] = object[t]
          BY <1>1, <1>19, <2>1 DEF DeleteObject, RemoveObject, StoreObject, StoreTypeOK
        <4>4. object'[client[c].stmt] \in {"absent", object[client[c].stmt]}
          BY <1>1, <1>19, <2>1 DEF DeleteObject, RemoveObject, StoreObject, StoreTypeOK
        <4>5. row[client[c].stmt].status # "none"
          BY <1>19, <2>1 DEF DeleteObject, RequestInv
        <4> QED
          BY <1>2, <2>1, <4>1, <4>2, <4>3, <4>4, <4>5 DEF RequestInv
      <3> QED BY <3>1, <3>2
    <2> QED
      BY <2>2, <2>3 DEF FileInv
  <1>20. CASE DeleteRows(c)
    <2>1. client[c].stmt \in Statements /\ row[client[c].stmt].status # "none"
      BY <1>20, <1>2 DEF DeleteRows, FileInv, RequestInv
    <2>2. RequestFrame(c)
      BY <1>20, <2>1 DEF DeleteRows, RequestFrame, Client
    <2> QED
      BY <2>2, FileRequestFrame
  <1> QED
    BY <1>3, <1>4, <1>5, <1>6, <1>7, <1>8, <1>9, <1>10, <1>11, <1>12, <1>13, <1>14, <1>15,
       <1>16, <1>17, <1>18, <1>19, <1>20
    DEF ClientActions

\* FileInv is an invariant.
LEMMA FilesCorrect == Spec => []FileInv
  <1>1. TypeOK /\ FileInv /\ [Next]_vars => FileInv'
    <2> SUFFICES ASSUME TypeOK, FileInv, [Next]_vars PROVE FileInv'
      OBVIOUS
    <2>1. CASE Next
      BY <2>1, NextIsActions, FileApi, FileWorker
    <2>2. CASE UNCHANGED vars
      BY <2>2 DEF vars, FileInv, OnlyOpenedFilesAreQueued, RequestInv
    <2> QED
      BY <2>1, <2>2
  <1> QED
    BY <1>1, TypeCorrect, FileInit, PTL DEF Spec

\* No worker is asked to read a file that was not opened and scanned,
\* however many unlocks, uploads and deletes of it race.
THEOREM OnlyOpened == Spec => []OnlyOpenedFilesAreQueued
  <1>1. FileInv => OnlyOpenedFilesAreQueued
    BY DEF FileInv
  <1> QED
    BY <1>1, FilesCorrect, PTL

-----------------------------------------------------------------------------
(* What the ledger sees of it *)

\* Nothing that the ledger's reader can tell.
StepQuiet ==
    /\ UNCHANGED ledger
    /\ \A s \in Statements :
        /\ row'[s].status = "none" <=> row[s].status = "none"
        /\ row'[s].processed = row[s].processed
        /\ row'[s].trust = row[s].trust
        /\ row'[s].deleted = row[s].deleted

StepAccepts(s) ==
    /\ row[s].status = "none" /\ ~LiveTwin(s)
    /\ \E status \in {"uploaded", "password_required"} :
        row' = [row EXCEPT ![s].status = status]
    /\ UNCHANGED ledger

StepImports(s) ==
    /\ row[s].status # "none"
    /\ ledger' = ledger \union {[fp |-> f, stmt |-> s] : f \in NewRows(s)}
    /\ RecordStatement(s, NewRows(s))

StepRemoves(s) ==
    /\ row[s].status # "none"
    /\ \E gone \in SUBSET OwnRows(s) : ledger' = ledger \ gone
    /\ row' = [row EXCEPT ![s].deleted = TRUE, ![s].status = "processed"]

StepKind ==
    \/ StepQuiet
    \/ \E s \in Statements : StepAccepts(s) \/ StepImports(s) \/ StepRemoves(s)

\* A request that is deleting dooms rows of its own statement only.
DoomedInv ==
    \A c \in Clients : \A r \in doomed[c] :
        client[c].pc \in {"emptied", "deleting"} /\ r.stmt = client[c].stmt

\* No request has deleted anything at first.
LEMMA DoomedInit == Init => DoomedInv
  BY DEF Init, StoreInit, DoomedInv

\* No other request's deletion is touched, and this one is not deleting.
DoomedFrame(c) ==
    /\ UNCHANGED doomed
    /\ client[c].pc \notin {"emptied", "deleting"}
    /\ \A d \in Clients : d # c => client'[d] = client[d]

\* DoomedInv survives a step that leaves deletions and the requests in one alone.
LEMMA DoomedKept ==
    ASSUME DoomedInv, NEW c \in Clients, DoomedFrame(c)
    PROVE  DoomedInv'
  BY DEF DoomedInv, DoomedFrame

\* No action of a request breaks DoomedInv.
LEMMA DoomedApi ==
    ASSUME TypeOK, DoomedInv, NEW c \in Clients, ClientActions(c)
    PROVE  DoomedInv'
  <1>1. client \in [Clients -> Client] /\ doomed \in [Clients -> SUBSET Transaction]
    BY DEF TypeOK, StoreTypeOK, ClientTypeOK
  <1>2. CASE \E s \in Statements : UploadStore(c, s)
    BY <1>1, <1>2, DoomedKept DEF UploadStore, DoomedFrame
  <1>3. CASE \E s \in Statements : UnlockOpen(c, s)
    BY <1>1, <1>3, DoomedKept DEF UnlockOpen, DoomedFrame, store
  <1>4. CASE \E s \in Statements : DeleteFind(c, s)
    BY <1>1, <1>4, DoomedKept DEF DeleteFind, DoomedFrame, store
  <1>5. CASE \E j \in Jobs : UploadCommit(c, j)
    BY <1>1, <1>5, DoomedKept DEF UploadCommit, DoomedFrame, ScheduleDispatch
  <1>6. CASE \E j \in Jobs : UnlockCommit(c, j)
    BY <1>1, <1>6, DoomedKept DEF UnlockCommit, DoomedFrame, ScheduleDispatch
  <1>7. CASE UploadPark(c)
    BY <1>1, <1>7, DoomedKept DEF UploadPark, DoomedFrame, Finish
  <1>8. CASE UploadLostRace(c)
    BY <1>1, <1>8, DoomedKept DEF UploadLostRace, DoomedFrame, Finish, store
  <1>9. CASE UploadAbort(c)
    BY <1>1, <1>9, DoomedKept DEF UploadAbort, DoomedFrame, Finish
  <1>10. CASE UnlockWrong(c)
    BY <1>1, <1>10, DoomedKept DEF UnlockWrong, DoomedFrame, Finish
  <1>11. CASE UnlockRefuse(c)
    BY <1>1, <1>11, DoomedKept DEF UnlockRefuse, DoomedFrame, Finish
  <1>12. CASE UnlockStore(c)
    BY <1>1, <1>12, DoomedKept DEF UnlockStore, DoomedFrame
  <1>13. CASE UnlockAbort(c)
    BY <1>1, <1>13, DoomedKept DEF UnlockAbort, DoomedFrame, Finish
  <1>14. CASE Dispatch(c)
    BY <1>1, <1>14, DoomedKept DEF Dispatch, DoomedFrame, Finish
  <1>15. CASE DispatchLost(c)
    BY <1>1, <1>15, DoomedKept DEF DispatchLost, DoomedFrame, Finish
  <1>16. CASE DeleteRows(c)
    BY <1>1, <1>16 DEF DeleteRows, DoomedInv, OwnRows, Client
  <1>17. CASE DeleteObject(c)
    BY <1>1, <1>17 DEF DeleteObject, DoomedInv, Client
  <1>18. CASE DeleteCommit(c) \/ DeleteAbort(c) \/ DeleteRollback(c)
    <2>1. /\ doomed' = [doomed EXCEPT ![c] = {}]
          /\ \A d \in Clients : d # c => client'[d] = client[d]
      BY <1>1, <1>18 DEF DeleteCommit, DeleteAbort, DeleteRollback, Finish
    <2> QED
      BY <1>1, <2>1 DEF DoomedInv
  <1> QED
    BY <1>2, <1>3, <1>4, <1>5, <1>6, <1>7, <1>8, <1>9, <1>10, <1>11, <1>12, <1>13, <1>14,
       <1>15,
       <1>16, <1>17, <1>18
    DEF ClientActions

\* DoomedInv is an invariant.
LEMMA DoomedCorrect == Spec => []DoomedInv
  <1>1. TypeOK /\ DoomedInv /\ [Next]_vars => DoomedInv'
    <2> SUFFICES ASSUME TypeOK, DoomedInv, [Next]_vars PROVE DoomedInv'
      OBVIOUS
    <2>1. CASE \E c \in Clients : ClientActions(c)
      BY <2>1, DoomedApi
    <2>2. CASE \E w \in Workers : WorkerActions(w) /\ UNCHANGED client
      <3>1. UNCHANGED doomed
        BY <2>2 DEF WorkerActions, store, Deliver, Start, Load, LoadMissing, Reject,
                    EmitExtracting, Record, Persist, Categorize, Complete, Retry, MarkFailed,
                    Ack, Raise, MarkFailedRaises, WorkerLost, ConnectionLost, TimeLimit
      <3> QED
        BY <2>2, <3>1 DEF DoomedInv
    <2>3. CASE UNCHANGED vars
      BY <2>3 DEF vars, DoomedInv
    <2> QED
      BY <2>1, <2>2, <2>3, NextIsActions
  <1> QED
    BY <1>1, DoomedInit, TypeCorrect, PTL DEF Spec

\* Every action of a request is of one of the kinds.
LEMMA ApiStepKind ==
    ASSUME TypeOK, FileInv, DoomedInv, NEW c \in Clients, ClientActions(c)
    PROVE  StepKind
  <1>1. /\ row \in [Statements -> Row]
        /\ \A d \in Clients : client[d].pc # "idle" => client[d].stmt \in Statements
    BY DEF TypeOK, StoreTypeOK, ClientTypeOK
  <1>2. CASE \E s \in Statements : UploadStore(c, s)
    BY <1>2 DEF UploadStore, StepKind, StepQuiet
  <1>3. CASE \E s \in Statements : UnlockOpen(c, s)
    BY <1>3 DEF UnlockOpen, StepKind, StepQuiet, store
  <1>4. CASE \E s \in Statements : DeleteFind(c, s)
    BY <1>4 DEF DeleteFind, StepKind, StepQuiet, store
  <1>5. CASE UploadLostRace(c)
    BY <1>5 DEF UploadLostRace, StepKind, StepQuiet, store
  <1>6. CASE UploadAbort(c)
    BY <1>6 DEF UploadAbort, StepKind, StepQuiet
  <1>7. CASE UnlockAbort(c)
    BY <1>7 DEF UnlockAbort, StepKind, StepQuiet
  <1>8. CASE DeleteAbort(c) \/ DeleteRollback(c)
    BY <1>8 DEF DeleteAbort, DeleteRollback, StepKind, StepQuiet
  <1>9. CASE Dispatch(c)
    BY <1>9 DEF Dispatch, StepKind, StepQuiet
  <1>10. CASE DispatchLost(c)
    BY <1>10 DEF DispatchLost, StepKind, StepQuiet
  <1>11. CASE UnlockStore(c)
    BY <1>11 DEF UnlockStore, StepKind, StepQuiet
  <1>12. CASE DeleteObject(c)
    BY <1>12 DEF DeleteObject, StepKind, StepQuiet
  <1>13. CASE UnlockWrong(c)
    <2>1. client[c].stmt \in Statements /\ row[client[c].stmt].status # "none"
      BY <1>1, <1>13 DEF UnlockWrong, FileInv, RequestInv
    <2> QED
      BY <1>1, <1>13, <2>1 DEF UnlockWrong, StepKind, StepQuiet, Row
  <1>14. CASE UnlockRefuse(c)
    <2>1. client[c].stmt \in Statements /\ row[client[c].stmt].status # "none"
      BY <1>1, <1>14 DEF UnlockRefuse, FileInv, RequestInv
    <2> QED
      BY <1>1, <1>14, <2>1 DEF UnlockRefuse, StepKind, StepQuiet, Row
  <1>15. CASE \E j \in Jobs : UnlockCommit(c, j)
    <2>1. PICK j \in Jobs : UnlockCommit(c, j)
      BY <1>15
    <2>2. client[c].stmt \in Statements /\ row[client[c].stmt].status # "none"
      BY <1>1, <2>1 DEF UnlockCommit, FileInv, RequestInv
    <2> QED
      BY <1>1, <2>1, <2>2 DEF UnlockCommit, StepKind, StepQuiet, Row
  <1>16. CASE \E j \in Jobs : UploadCommit(c, j)
    <2>1. PICK j \in Jobs : UploadCommit(c, j)
      BY <1>16
    <2>2. client[c].stmt \in Statements /\ row[client[c].stmt].status = "none"
      BY <1>1, <2>1 DEF UploadCommit, FileInv, RequestInv
    <2>3. StepAccepts(client[c].stmt)
      BY <2>1, <2>2 DEF UploadCommit, InsertStatement, StepAccepts
    <2> QED
      BY <2>2, <2>3 DEF StepKind
  <1>17. CASE UploadPark(c)
    <2>1. client[c].stmt \in Statements /\ row[client[c].stmt].status = "none"
      BY <1>1, <1>17 DEF UploadPark, FileInv, RequestInv
    <2>2. StepAccepts(client[c].stmt)
      BY <1>17, <2>1 DEF UploadPark, InsertStatement, StepAccepts
    <2> QED
      BY <2>1, <2>2 DEF StepKind
  <1>18. CASE DeleteCommit(c)
    <2>1. client[c].stmt \in Statements /\ row[client[c].stmt].status # "none"
      BY <1>1, <1>18 DEF DeleteCommit, FileInv, RequestInv
    <2>2. doomed[c] \intersect ledger \in SUBSET OwnRows(client[c].stmt)
      BY DEF DoomedInv, OwnRows
    <2>3. ledger' = ledger \ (doomed[c] \intersect ledger)
      BY <1>18 DEF DeleteCommit
    <2>4. StepRemoves(client[c].stmt)
      BY <1>18, <2>1, <2>2, <2>3 DEF DeleteCommit, StepRemoves
    <2> QED
      BY <2>1, <2>4 DEF StepKind
  <1>19. CASE DeleteRows(c)
    BY <1>19 DEF DeleteRows, StepKind, StepQuiet
  <1> QED
    BY <1>19, <1>2, <1>3, <1>4, <1>5, <1>6, <1>7, <1>8, <1>9, <1>10, <1>11, <1>12, <1>13,
       <1>14,
       <1>15,
       <1>16, <1>17, <1>18
    DEF ClientActions

\* Every action of a worker is of one of the kinds.
LEMMA WorkerStepKind ==
    ASSUME TypeOK, FileInv, NEW w \in Workers, WorkerActions(w)
    PROVE  StepKind
  <1>1. row \in [Statements -> Row]
    BY DEF TypeOK, StoreTypeOK
  <1>2. ASSUME worker[w].pc # "idle"
        PROVE  Target(w) \in Statements /\ row[Target(w)].status # "none"
    BY <1>2 DEF TypeOK, WorkerTypeOK, StoreTypeOK, FileInv, OnlyOpenedFilesAreQueued, Target
  <1>3. CASE \E j \in Jobs, r \in 0..MaxRetries : Deliver(w, j, r)
    BY <1>3 DEF Deliver, StepKind, StepQuiet
  <1>4. CASE Start(w)
    BY <1>4 DEF Start, StepKind, StepQuiet
  <1>5. CASE Load(w)
    BY <1>5 DEF Load, StepKind, StepQuiet
  <1>6. CASE LoadMissing(w)
    BY <1>6 DEF LoadMissing, StepKind, StepQuiet, store
  <1>7. CASE EmitExtracting(w)
    BY <1>7 DEF EmitExtracting, StepKind, StepQuiet
  <1>8. CASE Record(w)
    BY <1>8 DEF Record, StepKind, StepQuiet
  <1>9. CASE Categorize(w)
    BY <1>9 DEF Categorize, StepKind, StepQuiet
  <1>10. CASE Complete(w)
    BY <1>10 DEF Complete, StepKind, StepQuiet
  <1>11. CASE Retry(w)
    BY <1>11 DEF Retry, StepKind, StepQuiet
  <1>12. CASE Ack(w)
    BY <1>12 DEF Ack, StepKind, StepQuiet, store
  <1>13. CASE Raise(w)
    BY <1>13 DEF Raise, StepKind, StepQuiet
  <1>14. CASE MarkFailedRaises(w)
    BY <1>14 DEF MarkFailedRaises, StepKind, StepQuiet
  <1>15. CASE WorkerLost(w)
    BY <1>15 DEF WorkerLost, StepKind, StepQuiet
  <1>16. CASE TimeLimit(w)
    BY <1>16 DEF TimeLimit, StepKind, StepQuiet
  <1>17. CASE Reject(w)
    <2>1. Target(w) \in Statements /\ row[Target(w)].status # "none"
      BY <1>17, <1>2 DEF Reject
    <2> QED
      BY <1>1, <1>17, <2>1 DEF Reject, StepKind, StepQuiet, Row
  <1>18. CASE MarkFailed(w)
    <2>1. Target(w) \in Statements /\ row[Target(w)].status # "none"
      BY <1>18, <1>2 DEF MarkFailed
    <2> QED
      BY <1>1, <1>18, <2>1 DEF MarkFailed, StepKind, StepQuiet, Row
  <1>19. CASE Persist(w)
    <2>1. Target(w) \in Statements /\ row[Target(w)].status # "none"
      BY <1>19, <1>2 DEF Persist
    <2>2. StepImports(Target(w))
      BY <1>19, <2>1 DEF Persist, StepImports
    <2> QED
      BY <2>1, <2>2 DEF StepKind
  <1>20. CASE ConnectionLost(w)
    BY <1>20 DEF ConnectionLost, StepKind, StepQuiet
  <1> QED
    BY <1>3, <1>4, <1>5, <1>6, <1>7, <1>8, <1>9, <1>10, <1>11, <1>12, <1>13, <1>14, <1>15,
       <1>16, <1>17, <1>18, <1>19, <1>20
    DEF WorkerActions

\* Seen from the ledger, every step of the pipeline is of one of four kinds.
LEMMA EveryStepKind ==
    ASSUME TypeOK, FileInv, DoomedInv, [Next]_vars
    PROVE  StepKind
  <1>1. CASE Next
    BY <1>1, NextIsActions, ApiStepKind, WorkerStepKind
  <1>2. CASE UNCHANGED vars
    BY <1>2 DEF vars, StepKind, StepQuiet
  <1> QED
    BY <1>1, <1>2

-----------------------------------------------------------------------------
(* The invariants of the ledger *)

LedgerInv ==
    /\ OneLivePerDocument
    /\ NoDoubleCount
    /\ RowsCarryVerdict
    /\ ImportsStayComplete

\* The ledger's invariants hold of the empty ledger.
LEMMA LedgerInit == Init => LedgerInv
  BY DEF Init, StoreInit, LedgerInv, OneLivePerDocument, Live, NoDoubleCount,
         RowsCarryVerdict, ImportsStayComplete

\* A quiet step: nothing LedgerInv speaks of changes.
LEMMA LedgerQuiet ==
    ASSUME TypeOK, LedgerInv, StepQuiet
    PROVE  LedgerInv'
  <1>1. ledger \subseteq Transaction
    BY DEF TypeOK, StoreTypeOK
  <1>2. OneLivePerDocument'
    BY DEF LedgerInv, OneLivePerDocument, Live, StepQuiet
  <1>3. NoDoubleCount'
    BY DEF LedgerInv, NoDoubleCount, StepQuiet
  <1>4. RowsCarryVerdict'
    BY <1>1 DEF LedgerInv, RowsCarryVerdict, RowsOfStatement, StepQuiet, Transaction
  <1>5. ImportsStayComplete'
    BY DEF LedgerInv, ImportsStayComplete, Accounted, InLedger, RowsOfStatement, StepQuiet
  <1> QED
    BY <1>2, <1>3, <1>4, <1>5 DEF LedgerInv

\* An accepted upload: the unique index refuses a live twin.
LEMMA LedgerAccepts ==
    ASSUME TypeOK, LedgerInv, NEW s \in Statements, StepAccepts(s)
    PROVE  LedgerInv'
  <1>1. ledger \subseteq Transaction /\ row \in [Statements -> Row]
    BY DEF TypeOK, StoreTypeOK
  <1>2. /\ \A t \in Statements : t # s => row'[t] = row[t]
        /\ \A t \in Statements : /\ row'[t].processed = row[t].processed
                                 /\ row'[t].trust = row[t].trust
                                 /\ row'[t].deleted = row[t].deleted
    BY <1>1 DEF StepAccepts, Row
  <1>3. OneLivePerDocument'
    BY <1>2 DEF LedgerInv, OneLivePerDocument, Live, LiveTwin, StepAccepts
  <1>4. NoDoubleCount'
    BY DEF LedgerInv, NoDoubleCount, StepAccepts
  <1>5. RowsCarryVerdict'
    BY <1>1, <1>2 DEF LedgerInv, RowsCarryVerdict, RowsOfStatement, StepAccepts, Transaction
  <1>6. ImportsStayComplete'
    BY <1>2
    DEF LedgerInv, ImportsStayComplete, Accounted, InLedger, RowsOfStatement, StepAccepts
  <1> QED
    BY <1>3, <1>4, <1>5, <1>6 DEF LedgerInv

\* A whole import: the index on the fingerprint refuses what is there, and
\* the verdict is written with the rows.
LEMMA LedgerImports ==
    ASSUME TypeOK, LedgerInv, NEW s \in Statements, StepImports(s)
    PROVE  LedgerInv'
  <1>1. ledger \subseteq Transaction /\ row \in [Statements -> Row]
    BY DEF TypeOK, StoreTypeOK
  <1>2. /\ row'[s].processed /\ row'[s].trust = VerdictOf[DocOf[s]]
        /\ row'[s].status # "none" /\ row'[s].deleted = row[s].deleted
        /\ \A t \in Statements : t # s => row'[t] = row[t]
    BY <1>1 DEF StepImports, RecordStatement, Row
  <1>3. OneLivePerDocument'
    BY <1>2 DEF LedgerInv, OneLivePerDocument, Live, StepImports
  <1>4. NoDoubleCount'
    BY DEF LedgerInv, NoDoubleCount, StepImports, NewRows, InLedger
  <1>5. RowsCarryVerdict'
    <2> SUFFICES ASSUME NEW r \in ledger'
                 PROVE  /\ r.fp \in RowsOfStatement(r.stmt)
                        /\ row'[r.stmt].processed
                        /\ row'[r.stmt].trust = VerdictOf[DocOf[r.stmt]]
      BY DEF RowsCarryVerdict, RowsOfStatement
    <2>1. CASE r \in ledger
      BY <1>1, <1>2, <2>1 DEF LedgerInv, RowsCarryVerdict, Transaction
    <2>2. CASE r \notin ledger
      BY <1>2, <2>2 DEF StepImports, NewRows
    <2> QED
      BY <2>1, <2>2
  <1>6. ImportsStayComplete'
    <2>1. InLedger \subseteq InLedger'
      BY DEF StepImports, InLedger
    <2>2. ASSUME NEW f \in NewRows(s) PROVE f \in InLedger'
      <3>1. [fp |-> f, stmt |-> s] \in ledger'
        BY DEF StepImports
      <3> QED
        BY <3>1 DEF InLedger
    <2>3. InLedger \subseteq InLedger' /\ RowsOfStatement(s) \subseteq InLedger'
      BY <2>1, <2>2 DEF NewRows
    <2>4. \A t \in Statements : row'[t].deleted = row[t].deleted
      BY <1>2
    <2> QED
      BY <1>2, <2>3, <2>4 DEF LedgerInv, ImportsStayComplete, Accounted, RowsOfStatement
  <1> QED
    BY <1>3, <1>4, <1>5, <1>6 DEF LedgerInv

\* A whole removal: the rows that leave were in the document of a statement
\* that is deleted from now on.
LEMMA LedgerRemoves ==
    ASSUME TypeOK, LedgerInv, NEW s \in Statements, StepRemoves(s)
    PROVE  LedgerInv'
  <1>1. ledger \subseteq Transaction /\ row \in [Statements -> Row]
    BY DEF TypeOK, StoreTypeOK
  <1>2. /\ row'[s].deleted /\ row'[s].processed = row[s].processed
        /\ row'[s].trust = row[s].trust
        /\ \A t \in Statements : t # s => row'[t] = row[t]
    BY <1>1 DEF StepRemoves, Row
  <1>3. OneLivePerDocument'
    BY <1>2 DEF LedgerInv, OneLivePerDocument, Live
  <1>4. NoDoubleCount'
    BY DEF LedgerInv, NoDoubleCount, StepRemoves
  <1>5. RowsCarryVerdict'
    BY <1>1, <1>2 DEF LedgerInv, RowsCarryVerdict, RowsOfStatement, StepRemoves, Transaction
  <1>6. ImportsStayComplete'
    <2>1. \A f \in InLedger : f \in InLedger' \/ f \in RowsOfStatement(s)
      BY DEF StepRemoves, InLedger, OwnRows, LedgerInv, RowsCarryVerdict
    <2> QED
      BY <1>2, <2>1 DEF LedgerInv, ImportsStayComplete, Accounted, RowsOfStatement
  <1> QED
    BY <1>3, <1>4, <1>5, <1>6 DEF LedgerInv

\* The four promises about the ledger, for any number of statements, overlaps,
\* workers, requests, retries and failures.
THEOREM LedgerCorrect ==
    Spec => [](/\ OneLivePerDocument
               /\ NoDoubleCount
               /\ RowsCarryVerdict
               /\ ImportsStayComplete)
  <1>1. TypeOK /\ FileInv /\ DoomedInv /\ LedgerInv /\ [Next]_vars => LedgerInv'
    BY EveryStepKind, LedgerQuiet, LedgerAccepts, LedgerImports, LedgerRemoves DEF StepKind
  <1>2. LedgerInv => OneLivePerDocument /\ NoDoubleCount /\ RowsCarryVerdict /\ ImportsStayComplete
    BY DEF LedgerInv
  <1> QED
    BY <1>1, <1>2, LedgerInit, TypeCorrect, FilesCorrect, DoomedCorrect, PTL DEF Spec

\* However many uploads of it race, a document is live once.
THEOREM OneLive == Spec => []OneLivePerDocument
  BY LedgerCorrect, PTL

\* However statements overlap and imports are retried, a row counts once.
THEOREM CountedOnce == Spec => []NoDoubleCount
  BY LedgerCorrect, PTL

\* Wherever a run is cut, no row stands without its statement's verdict.
THEOREM RowsInterpretable == Spec => []RowsCarryVerdict
  BY LedgerCorrect, PTL

\* What was imported stays, through everything that happens to other imports.
THEOREM StaysComplete == Spec => []ImportsStayComplete
  BY LedgerCorrect, PTL

-----------------------------------------------------------------------------
(* Jobs *)

\* A run that is past the ledger write has an imported statement.
DoneInv ==
    /\ DoneMeansImported
    /\ \A w \in Workers : worker[w].pc \in {"categorize", "finish"} => row[Target(w)].processed

\* DoneInv holds at first: there is no job.
LEMMA DoneInit == Init => DoneInv
  BY DEF Init, StoreInit, WorkerInit, IdleWorker, DoneInv, DoneMeansImported, DoneStates

\* An import is never undone.
LEMMA ProcessedStays ==
    ASSUME TypeOK, StepKind, NEW s \in Statements, row[s].processed
    PROVE  row'[s].processed
  <1>1. row \in [Statements -> Row]
    BY DEF TypeOK, StoreTypeOK
  <1>2. ASSUME NEW t \in Statements, StepAccepts(t) PROVE row'[s].processed
    BY <1>1, <1>2 DEF StepAccepts, Row
  <1>3. ASSUME NEW t \in Statements, StepImports(t) PROVE row'[s].processed
    BY <1>1, <1>3 DEF StepImports, RecordStatement, Row
  <1>4. ASSUME NEW t \in Statements, StepRemoves(t) PROVE row'[s].processed
    BY <1>1, <1>4 DEF StepRemoves, Row
  <1> QED
    BY <1>2, <1>3, <1>4 DEF StepKind, StepQuiet

\* A step that declares no job done and takes no worker past the write.
DoneFrame ==
    /\ \A j \in Jobs : job'[j].state \in DoneStates => job[j].state \in DoneStates
    /\ \A w \in Workers : worker'[w].pc \in {"categorize", "finish"} =>
         worker[w].pc \in {"categorize", "finish"} /\ worker'[w].job = worker[w].job

\* DoneInv survives a step that moves no worker past the ledger write and finishes no job.
LEMMA DoneKept ==
    ASSUME TypeOK, DoneInv, StepKind, JobsStay, DoneFrame
    PROVE  DoneInv'
  <1>1. ASSUME NEW j \in Jobs, job'[j].state \in DoneStates
        PROVE  row'[job'[j].stmt].processed
    <2>1. job[j].state \in DoneStates /\ job[j].state # "none"
      BY <1>1 DEF DoneFrame, DoneStates
    <2> QED
      BY <2>1, ProcessedStays DEF JobsStay, DoneInv, DoneMeansImported, TypeOK, StoreTypeOK
  <1>2. ASSUME NEW w \in Workers, worker'[w].pc \in {"categorize", "finish"}
        PROVE  row'[Target(w)'].processed
    <2>1. worker[w].pc \in {"categorize", "finish"} /\ worker'[w].job = worker[w].job
      BY <1>2 DEF DoneFrame
    <2>2. worker[w].job \in Jobs /\ job[worker[w].job].state # "none"
      BY <2>1 DEF TypeOK, WorkerTypeOK
    <2>3. Target(w)' = Target(w) /\ Target(w) \in Statements
      BY <2>1, <2>2 DEF Target, JobsStay, TypeOK, StoreTypeOK
    <2>4. row[Target(w)].processed
      BY <2>1 DEF DoneInv
    <2> QED
      BY <2>3, <2>4, ProcessedStays
  <1> QED
    BY <1>1, <1>2 DEF DoneInv, DoneMeansImported

\* A request finishes no job and moves no worker.
LEMMA DoneApi ==
    ASSUME TypeOK, NEW c \in Clients, ClientActions(c), UNCHANGED worker
    PROVE  DoneFrame
  <1>1. job \in [Jobs -> Job]
    BY DEF TypeOK, StoreTypeOK
  <1>2. CASE \E j \in Jobs : UploadCommit(c, j) \/ UnlockCommit(c, j)
    BY <1>1, <1>2 DEF UploadCommit, UnlockCommit, CreateJob, DoneFrame, DoneStates, Job
  <1>3. CASE ~\E j \in Jobs : UploadCommit(c, j) \/ UnlockCommit(c, j)
    <2>1. UNCHANGED job
      BY <1>3 DEF ClientActions, store, UploadStore, UnlockOpen, DeleteFind, UploadPark,
                  UploadLostRace, UploadAbort, UnlockWrong, UnlockRefuse, UnlockStore,
                  UnlockAbort, DeleteRows, DeleteObject, DeleteCommit, DeleteAbort, DeleteRollback, Dispatch,
                  DispatchLost
    <2> QED
      BY <2>1 DEF DoneFrame
  <1> QED
    BY <1>2, <1>3

\* No action of a worker breaks DoneInv.
LEMMA DoneWorker ==
    ASSUME TypeOK, TypeOK', FileInv, DoneInv, StepKind, JobsStay,
           NEW w \in Workers, WorkerActions(w)
    PROVE  DoneInv'
  <1>1. job \in [Jobs -> Job] /\ worker \in [Workers -> Worker] /\ row \in [Statements -> Row]
    BY DEF TypeOK, StoreTypeOK, WorkerTypeOK
  <1>2. ASSUME worker[w].pc # "idle"
        PROVE  /\ worker[w].job \in Jobs /\ job[worker[w].job].state # "none"
               /\ Target(w) \in Statements
    BY <1>2 DEF TypeOK, WorkerTypeOK, StoreTypeOK, Target
  <1>3. CASE \E j \in Jobs, r \in 0..MaxRetries : Deliver(w, j, r)
    <2>1. DoneFrame
      BY <1>1, <1>3, <1>2 DEF Deliver, DoneFrame, DoneStates, Job, Worker
    <2> QED
      BY <2>1, DoneKept
  <1>4. CASE Start(w)
    <2>1. DoneFrame
      BY <1>1, <1>4, <1>2 DEF Start, Emit, Goto, DoneFrame, DoneStates, Job, Worker
    <2> QED
      BY <2>1, DoneKept
  <1>5. CASE Load(w)
    <2>1. DoneFrame
      BY <1>1, <1>5, <1>2 DEF Load, Goto, DoneFrame, DoneStates, Job, Worker
    <2> QED
      BY <2>1, DoneKept
  <1>6. CASE LoadMissing(w)
    <2>1. DoneFrame
      BY <1>1, <1>6, <1>2 DEF LoadMissing, Caught, store, DoneFrame, DoneStates, Job, Worker
    <2> QED
      BY <2>1, DoneKept
  <1>7. CASE Reject(w)
    <2>1. DoneFrame
      BY <1>1, <1>7, <1>2 DEF Reject, Emit, Goto, DoneFrame, DoneStates, Job, Worker
    <2> QED
      BY <2>1, DoneKept
  <1>8. CASE EmitExtracting(w)
    <2>1. DoneFrame
      BY <1>1, <1>8, <1>2 DEF EmitExtracting, Emit, Goto, DoneFrame, DoneStates, Job, Worker
    <2> QED
      BY <2>1, DoneKept
  <1>9. CASE Record(w)
    <2>1. DoneFrame
      BY <1>1, <1>9, <1>2 DEF Record, Emit, Goto, DoneFrame, DoneStates, Job, Worker
    <2> QED
      BY <2>1, DoneKept
  <1>10. CASE Categorize(w)
    <2>1. DoneFrame
      BY <1>1, <1>10, <1>2 DEF Categorize, Emit, Goto, DoneFrame, DoneStates, Job, Worker
    <2> QED
      BY <2>1, DoneKept
  <1>11. CASE Retry(w)
    <2>1. DoneFrame
      BY <1>1, <1>11, <1>2 DEF Retry, Goto, DoneFrame, DoneStates, Job, Worker
    <2> QED
      BY <2>1, DoneKept
  <1>12. CASE MarkFailed(w)
    <2>1. DoneFrame
      BY <1>1, <1>12, <1>2 DEF MarkFailed, Emit, Goto, DoneFrame, DoneStates, Job, Worker
    <2> QED
      BY <2>1, DoneKept
  <1>13. CASE Ack(w)
    <2>1. DoneFrame
      BY <1>1, <1>13, <1>2 DEF Ack, IdleWorker, store, DoneFrame, DoneStates, Job, Worker
    <2> QED
      BY <2>1, DoneKept
  <1>14. CASE Raise(w)
    <2>1. DoneFrame
      BY <1>1, <1>14, <1>2 DEF Raise, Caught, DoneFrame, DoneStates, Job, Worker
    <2> QED
      BY <2>1, DoneKept
  <1>15. CASE MarkFailedRaises(w)
    <2>1. DoneFrame
      BY <1>1, <1>15, <1>2 DEF MarkFailedRaises, Goto, DoneFrame, DoneStates, Job, Worker
    <2> QED
      BY <2>1, DoneKept
  <1>16. CASE WorkerLost(w)
    <2>1. DoneFrame
      BY <1>1, <1>16, <1>2 DEF WorkerLost, IdleWorker, DoneFrame, DoneStates, Job, Worker
    <2> QED
      BY <2>1, DoneKept
  <1>17. CASE TimeLimit(w)
    <2>1. DoneFrame
      BY <1>1, <1>17, <1>2 DEF TimeLimit, IdleWorker, DoneFrame, DoneStates, Job, Worker
    <2> QED
      BY <2>1, DoneKept
  <1>18. CASE Persist(w)
    <2>1. Target(w) \in Statements /\ row'[Target(w)].processed
      BY <1>1, <1>18, <1>2 DEF Persist, RecordStatement, Row
    <2>2. UNCHANGED job /\ worker'[w].job = worker[w].job
          /\ \A v \in Workers : v # w => worker'[v] = worker[v]
      BY <1>1, <1>18 DEF Persist, Worker
    <2>3. ASSUME NEW j \in Jobs, job'[j].state \in DoneStates
          PROVE  row'[job'[j].stmt].processed
      BY <2>2, <2>3, ProcessedStays
      DEF DoneInv, DoneMeansImported, TypeOK, StoreTypeOK, DoneStates
    <2>4. ASSUME NEW v \in Workers, worker'[v].pc \in {"categorize", "finish"}
          PROVE  row'[Target(v)'].processed
      <3>1. CASE v = w
        BY <2>1, <2>2, <3>1 DEF Target
      <3>2. CASE v # w
        BY <2>2, <2>4, <3>2, ProcessedStays
        DEF Target, DoneInv, TypeOK, WorkerTypeOK, StoreTypeOK
      <3> QED
        BY <3>1, <3>2
    <2> QED
      BY <2>3, <2>4 DEF DoneInv, DoneMeansImported
  <1>19. CASE Complete(w)
    <2>1. /\ worker[w].job \in Jobs /\ Target(w) \in Statements /\ row[Target(w)].processed
          /\ UNCHANGED row
      BY <1>19, <1>2 DEF Complete, DoneInv
    <2>2. \A j \in Jobs : job'[j].stmt = job[j].stmt /\ (j # worker[w].job => job'[j] = job[j])
      <3>1. PICK state : job' = [job EXCEPT ![worker[w].job].state = state]
        BY <1>19 DEF Complete, Emit
      <3>2. job \in [Jobs -> [state : JobState, stmt : Statements \union {NoStatement}]]
        BY <1>1 DEF Job
      <3> QED
        BY <3>1, <3>2
    <2>3. DoneMeansImported'
      BY <2>1, <2>2 DEF DoneInv, DoneMeansImported, Target
    <2>4. \A v \in Workers : worker'[v].pc \in {"categorize", "finish"} =>
             worker[v].pc \in {"categorize", "finish"} /\ worker'[v].job = worker[v].job
      BY <1>1, <1>19 DEF Complete, Goto, Worker
    <2> QED
      BY <2>1, <2>2, <2>3, <2>4 DEF DoneInv, Target, TypeOK, WorkerTypeOK
  <1>20. CASE ConnectionLost(w)
    <2>1. DoneFrame
      BY <1>1, <1>20, <1>2 DEF ConnectionLost, DoneFrame, DoneStates, Job, Worker
    <2> QED
      BY <2>1, DoneKept
  <1> QED
    BY <1>3, <1>4, <1>5, <1>6, <1>7, <1>8, <1>9, <1>10, <1>11, <1>12, <1>13, <1>14, <1>15,
       <1>16, <1>17, <1>18, <1>19, <1>20
    DEF WorkerActions

\* A job that says it is done has its statement's rows in the ledger.
THEOREM DoneCorrect == Spec => []DoneMeansImported
  <1>1. TypeOK /\ FileInv /\ DoomedInv /\ DoneInv /\ [Next]_vars => DoneInv'
    <2> SUFFICES ASSUME TypeOK, FileInv, DoomedInv, DoneInv, [Next]_vars PROVE DoneInv'
      OBVIOUS
    <2>1. TypeOK' /\ JobsStay /\ StepKind
      BY TypeStep, EveryStepKind
    <2>2. CASE Next
      BY <2>1, <2>2, NextIsActions, DoneApi, DoneWorker, DoneKept
    <2>3. CASE UNCHANGED vars
      <3>1. DoneFrame
        BY <2>3 DEF vars, DoneFrame
      <3> QED
        BY <2>1, <3>1, DoneKept
    <2> QED
      BY <2>2, <2>3
  <1>2. DoneInv => DoneMeansImported
    BY DEF DoneInv
  <1> QED
    BY <1>1, <1>2, DoneInit, TypeCorrect, FilesCorrect, DoomedCorrect, PTL DEF Spec

-----------------------------------------------------------------------------
(* Steps *)

\* No crash, retry or concurrent import takes a row out of the ledger: only
\* the deletion of its statement does, and it takes them all.
THEOREM RowsLeaveWhole == Spec => RowsLeaveOnlyWithTheirStatement
  <1>1. TypeOK /\ FileInv /\ DoomedInv /\ [Next]_vars => [RowsLeaveWithStatement]_vars
    <2> SUFFICES ASSUME TypeOK, FileInv, DoomedInv, [Next]_vars PROVE RowsLeaveWithStatement
      OBVIOUS
    <2>1. ledger \subseteq Transaction /\ row \in [Statements -> Row]
      BY DEF TypeOK, StoreTypeOK
    <2>2. CASE StepQuiet
      BY <2>2 DEF StepQuiet, RowsLeaveWithStatement
    <2>3. CASE \E s \in Statements : StepAccepts(s)
      BY <2>3 DEF StepAccepts, RowsLeaveWithStatement
    <2>4. CASE \E s \in Statements : StepImports(s)
      BY <2>4 DEF StepImports, RowsLeaveWithStatement
    <2>5. CASE \E s \in Statements : StepRemoves(s)
      <3>1. PICK s \in Statements : StepRemoves(s)
        BY <2>5
      <3>2. row'[s].deleted
        BY <2>1, <3>1 DEF StepRemoves, Row
      <3>3. \A r \in ledger \ ledger' : r.stmt = s
        BY <3>1 DEF StepRemoves, OwnRows
      <3> QED
        BY <3>2, <3>3 DEF RowsLeaveWithStatement
    <2> QED
      BY <2>2, <2>3, <2>4, <2>5, EveryStepKind DEF StepKind
  <1> QED
    BY <1>1, TypeCorrect, FilesCorrect, DoomedCorrect, PTL
    DEF Spec, RowsLeaveOnlyWithTheirStatement

-----------------------------------------------------------------------------
(* Refinement *)

\* The initial state maps to the contract's.
LEMMA ContractInit == Init => Contract!Init
  BY DEF Init, StoreInit, Contract!Init, Accepted, Imported, Removed

\* Each kind of step maps to one step of the contract, or to a stutter.
LEMMA ContractStep ==
    ASSUME TypeOK, FileInv, DoomedInv, [Next]_vars
    PROVE  [Contract!Next]_(Contract!contractVars)
  <1>1. row \in [Statements -> Row]
    BY DEF TypeOK, StoreTypeOK
  <1>2. CASE StepQuiet
    BY <1>2 DEF StepQuiet, Accepted, Imported, Removed, Contract!contractVars
  <1>3. CASE \E s \in Statements : StepAccepts(s)
    <2>1. PICK s \in Statements : StepAccepts(s)
      BY <1>3
    <2>2. /\ row'[s].status # "none"
          /\ row'[s].processed = row[s].processed /\ row'[s].deleted = row[s].deleted
          /\ \A t \in Statements : t # s => row'[t] = row[t]
      BY <1>1, <2>1 DEF StepAccepts, Row
    <2>3. s \notin Accepted /\ \A t \in Accepted \ Removed : DocOf[t] # DocOf[s]
      BY <2>1 DEF StepAccepts, LiveTwin, Live, Accepted, Removed
    <2>4. /\ Accepted' = Accepted \union {s}
          /\ Imported' = Imported /\ Removed' = Removed /\ ledger' = ledger
      BY <2>1, <2>2 DEF StepAccepts, Accepted, Imported, Removed
    <2>5. Contract!Accept(s)
      BY <2>3, <2>4 DEF Contract!Accept
    <2> QED
      BY <2>5 DEF Contract!Next
  <1>4. CASE \E s \in Statements : StepImports(s)
    <2>1. PICK s \in Statements : StepImports(s)
      BY <1>4
    <2>2. /\ row'[s].status # "none" /\ row'[s].processed
          /\ row'[s].deleted = row[s].deleted
          /\ \A t \in Statements : t # s => row'[t] = row[t]
      BY <1>1, <2>1 DEF StepImports, RecordStatement, Row
    <2>3. /\ s \in Accepted /\ Accepted' = Accepted
          /\ Imported' = Imported \union {s} /\ Removed' = Removed
      BY <2>1, <2>2 DEF StepImports, Accepted, Imported, Removed
    <2>4. ledger' = ledger \union
            {[fp |-> f, stmt |-> s] : f \in RowsOf[DocOf[s]] \ {r.fp : r \in ledger}}
      BY <2>1 DEF StepImports, NewRows, RowsOfStatement, InLedger
    <2>5. Contract!Import(s)
      BY <2>3, <2>4 DEF Contract!Import
    <2> QED
      BY <2>5 DEF Contract!Next
  <1>5. CASE \E s \in Statements : StepRemoves(s)
    <2>1. PICK s \in Statements : StepRemoves(s)
      BY <1>5
    <2>2. /\ row'[s].status # "none" /\ row'[s].deleted
          /\ row'[s].processed = row[s].processed
          /\ \A t \in Statements : t # s => row'[t] = row[t]
      BY <1>1, <2>1 DEF StepRemoves, Row
    <2>3. /\ s \in Accepted /\ Accepted' = Accepted
          /\ Removed' = Removed \union {s} /\ Imported' = Imported
      BY <2>1, <2>2 DEF StepRemoves, Accepted, Imported, Removed
    <2>4. \E kept \in SUBSET {r \in ledger : r.stmt = s} :
            ledger' = {r \in ledger : r.stmt # s} \union kept
      <3>1. PICK gone \in SUBSET OwnRows(s) : ledger' = ledger \ gone
        BY <2>1 DEF StepRemoves
      <3>2. ledger \ gone = {r \in ledger : r.stmt # s} \union (OwnRows(s) \ gone)
        BY DEF OwnRows
      <3>3. OwnRows(s) \ gone \in SUBSET {r \in ledger : r.stmt = s}
        BY DEF OwnRows
      <3> QED
        BY <3>1, <3>2, <3>3
    <2>5. Contract!Remove(s)
      BY <2>3, <2>4 DEF Contract!Remove
    <2> QED
      BY <2>5 DEF Contract!Next
  <1> QED
    BY <1>2, <1>3, <1>4, <1>5, EveryStepKind DEF StepKind

\* The pipeline implements the contract of the ledger.
THEOREM Implements == Spec => ImplementsContract
  BY ContractInit, ContractStep, TypeCorrect, FilesCorrect, DoomedCorrect, PTL
  DEF Spec, ImplementsContract, Contract!Spec
=============================================================================
