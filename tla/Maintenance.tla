---------------------------- MODULE Maintenance ----------------------------
(***************************************************************************)
(* Housekeeping over two stores that share no transaction: the statements  *)
(* table and the bucket.  The retention sweep, the reconciliation of the   *)
(* bucket with the table and the erasure of a tenant run beside uploads,   *)
(* deletes and imports, and each may be cut between any two of its steps.  *)
(* A storage key is the statement's id, so it is never used again.         *)
(***************************************************************************)
EXTENDS Naturals, FiniteSets

CONSTANTS
    Owners,             \* tenants
    Papers,             \* statement ids, which are also the storage keys
    OwnerOf,            \* the tenant each id is minted for
    Locked,             \* the ids whose file arrives protected by a password
    Disposable,         \* the ids whose user may delete them (bound)
    OrphanShare,        \* MAX_ORPHAN_FRACTION is one in OrphanShare
    Leavers,            \* the tenants that may be erased (bound)
    CutKinds,           \* the kinds of failure a run lets happen
    MaxCuts             \* how many failures a behaviour may contain (bound)

ASSUME MaintenanceAssumption ==
    /\ OwnerOf \in [Papers -> Owners]
    /\ IsFiniteSet(Papers)
    /\ Locked \subseteq Papers /\ Disposable \subseteq Papers
    /\ Leavers \subseteq Owners
    /\ OrphanShare \in Nat
    /\ MaxCuts \in Nat

VARIABLES
    tenant,     \* tenants: active or erased
    stmt,       \* statements: one state per id
    blob,       \* the ids under which the bucket holds an object
    storing,    \* uploads that have written the object and not committed
    removing,   \* deletes that have removed the object and not committed
    opening,    \* statements an unlock has loaded the object of and is busy with
    sweep,      \* the retention sweep
    recon,      \* the reconciliation of the bucket
    erasure,    \* the erasure of each tenant
    excused,    \* history: ids whose object their user's own request removed,
                \* or that arrived while a reconciliation was under way
    stuck,      \* history: ids whose object the store refused to remove
    putBack,    \* history: objects an unlock wrote after they had been removed
    cuts        \* failures so far

history == <<excused, stuck, putBack>>
maintVars == <<tenant, stmt, blob, storing, removing, opening, sweep, recon, erasure, history, cuts>>

\* expired: deleted longer ago than the retention window; gone: no row.
PaperState == {"none", "live", "deleted", "expired", "gone"}

Sweep == [pc : {"idle", "tenants"}, todo : SUBSET Owners, keys : SUBSET Papers]
Recon == [pc : {"idle", "reading", "deleting"}, todo : SUBSET Owners,
          live : SUBSET Papers, orphans : SUBSET Papers, known : SUBSET Papers]
Erasure == [pc : {"idle", "emptying"}, keys : SUBSET Papers, seen : SUBSET Papers]

IdleSweep == [pc |-> "idle", todo |-> {}, keys |-> {}]
IdleRecon == [pc |-> "idle", todo |-> {}, live |-> {}, orphans |-> {}, known |-> {}]
IdleErasure == [pc |-> "idle", keys |-> {}, seen |-> {}]

MaintenanceTypeOK ==
    /\ tenant \in [Owners -> {"active", "erased"}]
    /\ stmt \in [Papers -> PaperState]
    /\ blob \subseteq Papers
    /\ storing \subseteq Papers /\ removing \subseteq Papers
    /\ sweep \in Sweep /\ recon \in Recon
    /\ erasure \in [Owners -> Erasure]
    /\ opening \subseteq Papers
    /\ excused \subseteq Papers /\ stuck \subseteq Papers /\ putBack \subseteq blob
    /\ cuts \in 0..MaxCuts
    \* A row belongs to a tenant that exists: the foreign key.
    /\ \A p \in Papers : stmt[p] \in {"live", "deleted", "expired"} => tenant[OwnerOf[p]] = "active"

MaintenanceInit ==
    /\ tenant = [o \in Owners |-> "active"]
    /\ stmt = [p \in Papers |-> "none"]
    /\ blob = {} /\ storing = {} /\ removing = {} /\ opening = {}
    /\ sweep = IdleSweep /\ recon = IdleRecon
    /\ erasure = [o \in Owners |-> IdleErasure]
    /\ excused = {} /\ stuck = {} /\ putBack = {}
    /\ cuts = 0

Cut(kind) == kind \in CutKinds /\ cuts < MaxCuts /\ cuts' = cuts + 1

OwnedBy(o) == {p \in Papers : OwnerOf[p] = o}
HasRow(p) == stmt[p] \in {"live", "deleted", "expired"}

\* ops_active_tenants(): crosses row-level security, so it is never empty by
\* mistake.
ActiveTenants == {o \in Owners : tenant[o] = "active"}

\* Mutant: only the statements their users deleted.
StorageKeysDeleted(o) == {p \in OwnedBy(o) : stmt[p] \in {"deleted", "expired"}}

\* retention.storage_keys: every statement row of the tenant, deleted or not.
StorageKeys(o) == {p \in OwnedBy(o) : HasRow(p)}

\* storage.delete_statement: a failure other than "no such key" is logged,
\* and the object stays.
DropObject(p) ==
    \/ blob' = blob \ {p} /\ putBack' = putBack \ {p} /\ UNCHANGED <<stuck, cuts>>
    \/ /\ p \in blob /\ Cut("storage")
       /\ stuck' = stuck \union {p} /\ UNCHANGED <<blob, putBack>>

-----------------------------------------------------------------------------
(* What users and imports do meanwhile *)

\* ingest_upload writes the object first ...
StoreUpload(p) ==
    /\ tenant[OwnerOf[p]] = "active"
    /\ stmt[p] = "none" /\ p \notin blob \union storing
    /\ storing' = storing \union {p}
    /\ blob' = blob \union {p}
    /\ UNCHANGED <<tenant, stmt, removing, opening, sweep, recon, erasure, history, cuts>>

\* Mutant: the row is inserted whether its tenant exists or not.
CommitUploadedUnowned(p) ==
    /\ p \in storing
    /\ stmt' = [stmt EXCEPT ![p] = "live"]
    /\ storing' = storing \ {p}
    /\ UNCHANGED <<tenant, blob, removing, opening, sweep, recon, erasure, history, cuts>>

\* ... and the row at the commit, which the foreign key refuses once the
\* tenant is gone.
CommitUploaded(p) ==
    /\ p \in storing
    /\ tenant[OwnerOf[p]] = "active"
    /\ stmt' = [stmt EXCEPT ![p] = "live"]
    /\ storing' = storing \ {p}
    /\ UNCHANGED <<tenant, blob, removing, opening, sweep, recon, erasure, history, cuts>>

\* The transaction fails: the id is lost with it, the object stays.
LoseUpload(p) ==
    /\ p \in storing
    /\ tenant[OwnerOf[p]] = "active" => Cut("abort")
    /\ tenant[OwnerOf[p]] # "active" => UNCHANGED cuts
    /\ stmt' = [stmt EXCEPT ![p] = "gone"]
    /\ storing' = storing \ {p}
    /\ UNCHANGED <<tenant, blob, removing, opening, sweep, recon, erasure, history>>

\* soft_delete removes the object before its transaction commits.
RemoveFile(p) ==
    /\ p \in Disposable
    /\ stmt[p] = "live" /\ p \notin removing
    /\ removing' = removing \union {p}
    /\ DropObject(p)
    /\ excused' = excused \union {p}
    /\ UNCHANGED <<tenant, stmt, storing, opening, sweep, recon, erasure>>

CommitRemoval(p) ==
    /\ p \in removing
    /\ stmt' = [stmt EXCEPT ![p] = "deleted"]
    /\ removing' = removing \ {p}
    /\ UNCHANGED <<tenant, blob, storing, opening, sweep, recon, erasure, history, cuts>>

LoseRemoval(p) ==
    /\ p \in removing
    /\ Cut("abort")
    /\ removing' = removing \ {p}
    /\ UNCHANGED <<tenant, stmt, blob, storing, opening, sweep, recon, erasure, history>>

\* unlock_statement reads the row of a live statement without a lock on it,
\* and loads its object.  Whether a locked file is still parked is left open.
OpenLocked(p) ==
    /\ p \in Locked
    /\ stmt[p] = "live" /\ p \in blob
    /\ opening' = opening \union {p}
    /\ UNCHANGED <<tenant, stmt, blob, storing, removing, sweep, recon, erasure, history, cuts>>

\* The password opens it: the plaintext goes under the same key, whatever has
\* become of the row and the object since.
StoreOpened(p) ==
    /\ p \in opening
    /\ blob' = blob \union {p}
    /\ putBack' = IF p \in blob THEN putBack ELSE putBack \union {p}
    /\ UNCHANGED <<tenant, stmt, storing, removing, opening, sweep, recon, erasure, excused,
                   stuck, cuts>>

\* The request ends: the UPDATE commits, or finds no row and the foreign key
\* of the job refuses; or the password was wrong, the scan failed, or the
\* request was lost.  None of it is state of this module, so a statement is
\* in opening while any number of requests unlock it.
EndUnlock(p) ==
    /\ p \in opening
    /\ opening' = opening \ {p}
    /\ UNCHANGED <<tenant, stmt, blob, storing, removing, sweep, recon, erasure, history, cuts>>

\* STATEMENT_RETENTION_DAYS pass after the delete.
WindowPasses(p) ==
    /\ stmt[p] = "deleted"
    /\ stmt' = [stmt EXCEPT ![p] = "expired"]
    /\ UNCHANGED <<tenant, blob, storing, removing, opening, sweep, recon, erasure, history, cuts>>

-----------------------------------------------------------------------------
(* The retention sweep *)

SweepStart ==
    /\ sweep.pc = "idle"
    /\ sweep' = [pc |-> "tenants", todo |-> ActiveTenants, keys |-> {}]
    /\ UNCHANGED <<tenant, stmt, blob, storing, removing, opening, recon, erasure, history, cuts>>

\* Mutant: only rows whose object has already left the bucket.
ExpiringEmptied(o) == {p \in OwnedBy(o) : stmt[p] = "expired" /\ p \notin blob}

\* Statements the user deleted, and whose window has passed since.
Expiring(o) == {p \in OwnedBy(o) : stmt[p] = "expired"}

\* One tenant's transaction: the keys are read, then the rows go.
SweepRows(o) ==
    /\ sweep.pc = "tenants" /\ sweep.keys = {} /\ o \in sweep.todo
    /\ sweep' = [sweep EXCEPT !.todo = @ \ {o}, !.keys = Expiring(o)]
    /\ stmt' = [p \in Papers |-> IF p \in Expiring(o) THEN "gone" ELSE stmt[p]]
    /\ UNCHANGED <<tenant, blob, storing, removing, opening, recon, erasure, history, cuts>>

\* After the commit, each object of the rows that went.
SweepObject(p) ==
    /\ p \in sweep.keys
    /\ DropObject(p)
    /\ sweep' = [sweep EXCEPT !.keys = @ \ {p}]
    /\ UNCHANGED <<tenant, stmt, storing, removing, opening, recon, erasure, excused>>

SweepEnd ==
    /\ sweep.pc = "tenants" /\ sweep.keys = {} /\ sweep.todo = {}
    /\ sweep' = IdleSweep
    /\ UNCHANGED <<tenant, stmt, blob, storing, removing, opening, recon, erasure, history, cuts>>

\* The worker is lost: the keys it held are forgotten.
SweepLost ==
    /\ sweep.pc = "tenants" /\ Cut("lost")
    /\ sweep' = IdleSweep
    /\ UNCHANGED <<tenant, stmt, blob, storing, removing, opening, recon, erasure, history>>

-----------------------------------------------------------------------------
(* Reconciliation of the bucket, called with delete=True *)

\* known is history: the statements on record when the run begins.
ReconStart ==
    /\ recon.pc = "idle"
    /\ recon' = [IdleRecon EXCEPT !.pc = "reading", !.todo = ActiveTenants,
                                  !.known = {p \in Papers : HasRow(p)}]
    /\ UNCHANGED <<tenant, stmt, blob, storing, removing, opening, sweep, erasure, history, cuts>>

ReconKeys(o) ==
    /\ recon.pc = "reading" /\ o \in recon.todo
    /\ recon' = [recon EXCEPT !.todo = @ \ {o}, !.live = @ \union StorageKeys(o)]
    /\ UNCHANGED <<tenant, stmt, blob, storing, removing, opening, sweep, erasure, history, cuts>>

Unreferenced == blob \ recon.live

\* The refusals that depend on the bucket; no tenants is one of its cases.
Refused ==
    \/ blob # {} /\ recon.live = {}
    \/ Cardinality(Unreferenced) * OrphanShare > Cardinality(blob)

\* The bucket is listed when the keys are complete, and the run decides.
ReconList ==
    /\ recon.pc = "reading" /\ recon.todo = {}
    /\ recon' = IF Refused THEN IdleRecon
                ELSE [recon EXCEPT !.pc = "deleting", !.live = {}, !.orphans = Unreferenced]
    /\ UNCHANGED <<tenant, stmt, blob, storing, removing, opening, sweep, erasure, history, cuts>>

ReconObject(p) ==
    /\ recon.pc = "deleting" /\ p \in recon.orphans
    /\ blob' = blob \ {p} /\ putBack' = putBack \ {p}
    /\ recon' = [recon EXCEPT !.orphans = @ \ {p}]
    /\ excused' = IF p \in recon.known THEN excused ELSE excused \union {p}
    /\ UNCHANGED <<tenant, stmt, storing, removing, opening, sweep, erasure, stuck, cuts>>

ReconEnd ==
    /\ recon.pc = "deleting" /\ recon.orphans = {}
    /\ recon' = IdleRecon
    /\ UNCHANGED <<tenant, stmt, blob, storing, removing, opening, sweep, erasure, history, cuts>>

\* remove_object raises here, or the worker is lost.
ReconLost ==
    /\ recon.pc # "idle" /\ Cut("lost")
    /\ recon' = IdleRecon
    /\ UNCHANGED <<tenant, stmt, blob, storing, removing, opening, sweep, erasure, history>>

-----------------------------------------------------------------------------
(* Erasure of a tenant, inline in the request or in the task *)

EraseKeys(o) ==
    /\ o \in Leavers /\ tenant[o] = "active" /\ erasure[o].pc = "idle"
    /\ erasure' = [erasure EXCEPT ![o] = [pc |-> "emptying", keys |-> StorageKeys(o),
                                          seen |-> StorageKeys(o)]]
    /\ UNCHANGED <<tenant, stmt, blob, storing, removing, opening, sweep, recon, history, cuts>>

EraseObject(o, p) ==
    /\ erasure[o].pc = "emptying" /\ p \in erasure[o].keys
    /\ DropObject(p)
    /\ erasure' = [erasure EXCEPT ![o].keys = @ \ {p}]
    /\ excused' = excused \union {p}
    /\ UNCHANGED <<tenant, stmt, storing, removing, opening, sweep, recon>>

\* Mutant: the rows go first.
EraseRowsFirst(o) ==
    /\ erasure[o].pc = "emptying"
    /\ OwnedBy(o) \intersect removing = {}
    /\ tenant' = [tenant EXCEPT ![o] = "erased"]
    /\ stmt' = [p \in Papers |-> IF OwnerOf[p] = o /\ HasRow(p) THEN "gone" ELSE stmt[p]]
    /\ erasure' = [erasure EXCEPT ![o].pc = "idle"]
    /\ UNCHANGED <<blob, storing, removing, opening, sweep, recon, history, cuts>>

\* DELETE FROM tenants cascades over every table; it waits for a delete that
\* holds one of the statements.
EraseRows(o) ==
    /\ erasure[o].pc = "emptying" /\ erasure[o].keys = {}
    /\ OwnedBy(o) \intersect removing = {}
    /\ tenant' = [tenant EXCEPT ![o] = "erased"]
    /\ stmt' = [p \in Papers |-> IF OwnerOf[p] = o /\ HasRow(p) THEN "gone" ELSE stmt[p]]
    /\ erasure' = [erasure EXCEPT ![o].pc = "idle"]
    /\ UNCHANGED <<blob, storing, removing, opening, sweep, recon, history, cuts>>

\* Cut between the halves: rows remain that point at objects that are gone.
EraseLost(o) ==
    /\ erasure[o].pc = "emptying" /\ Cut("lost")
    /\ erasure' = [erasure EXCEPT ![o] = IdleErasure]
    /\ UNCHANGED <<tenant, stmt, blob, storing, removing, opening, sweep, recon, history>>

-----------------------------------------------------------------------------

UserStep ==
    \/ \E o \in Owners : EraseKeys(o) \/ EraseRows(o) \/ EraseLost(o)
    \/ \E p \in Papers :
        \/ StoreUpload(p) \/ CommitUploaded(p) \/ LoseUpload(p)
        \/ RemoveFile(p) \/ CommitRemoval(p) \/ LoseRemoval(p) \/ WindowPasses(p)
        \/ OpenLocked(p) \/ StoreOpened(p) \/ EndUnlock(p)
        \/ \E o \in Owners : EraseObject(o, p)

TaskStep ==
    \/ SweepStart \/ SweepEnd \/ SweepLost
    \/ ReconStart \/ ReconList \/ ReconEnd \/ ReconLost
    \/ \E o \in Owners : SweepRows(o) \/ ReconKeys(o)
    \/ \E p \in Papers : SweepObject(p) \/ ReconObject(p)

MaintenanceNext == UserStep \/ TaskStep

MaintenanceSpec == MaintenanceInit /\ [][MaintenanceNext]_maintVars

\* The nightly sweep is scheduled again and again, and a run that began goes
\* on; nothing else is owed.
SweepStep ==
    \/ SweepStart \/ SweepEnd
    \/ \E o \in Owners : SweepRows(o)
    \/ \E p \in Papers : SweepObject(p)

MaintenanceFairSpec == MaintenanceSpec /\ WF_maintVars(SweepStep)

-----------------------------------------------------------------------------
(* Properties *)

\* Whatever housekeeping runs, and wherever it is cut, a statement its user
\* can still see keeps its file, unless the user's own delete or erasure took
\* it or it was on its way in while a reconciliation was under way
\* (maintenance.py 116-129 reads the keys before it lists the bucket).
SettledFilesSurvive ==
    \A p \in Papers : stmt[p] = "live" => p \in blob \union excused

\* Once a tenant is erased, what the bucket still holds of it came after its
\* keys were read, was refused by the store, or was written by an unlock that
\* had loaded the file before it was removed (statements.py 371 and 449): no
\* interruption between the two halves leaves a document nobody knows of
\* (maintenance.py 196-203).
ErasureLeavesNothingKnown ==
    \A o \in Owners : tenant[o] = "erased" =>
        \A p \in OwnedBy(o) \intersect blob :
            p \in erasure[o].seen => p \in stuck \union putBack

\* A statement whose window has passed goes in the end, through lost workers
\* and an object store that refuses (retention.py 89-167).
ExpiredGo == \A p \in Papers : stmt[p] = "expired" ~> stmt[p] = "gone"

\* retention.py 22: object storage is emptied before the database rows go.
SweepEmptiesFirst ==
    [][\A p \in Papers : stmt[p] = "expired" /\ stmt'[p] = "gone" =>
            p \notin blob \/ tenant'[OwnerOf[p]] = "erased"]_maintVars

=============================================================================
