--------------------------- MODULE ServicesProofs ---------------------------
(***************************************************************************)
(* What the housekeeping of files, the progress stream, the enrolment of   *)
(* users and the throttle of their sign ins each keep, for any number of   *)
(* users, statements, runs, requests and failures; and that in their       *)
(* composition each behaves as it does alone.                              *)
(***************************************************************************)
EXTENDS MCServices, Sums

-----------------------------------------------------------------------------
(* Housekeeping of files *)

\* An upload on its way has no row yet; a delete on its way has its row.
UnderWayInv ==
    /\ \A p \in storing : stmt[p] = "none" /\ p \in blob \union excused
    /\ \A p \in removing : stmt[p] = "live" /\ p \in excused

\* What the sweep still has to remove has lost its row, and gets no other.
SweepInv == \A p \in sweep.keys : stmt[p] = "gone"

\* What was on record when a reconciliation began and still is has its key in
\* the run's set once its tenant was read, and so is no orphan of it.
ReconInv ==
    /\ \A p \in recon.known : stmt[p] # "none"
    /\ recon.pc = "reading" =>
         \A p \in recon.known : stmt[p] = "live" /\ OwnerOf[p] \notin recon.todo
                                => p \in recon.live
    /\ recon.pc = "deleting" =>
         \A p \in recon.known \intersect recon.orphans : stmt[p] # "live"

\* What an erasure has read is a statement, and once dealt with is out of the
\* bucket, was refused by it, or was put back by an unlock.
ErasureInv ==
    \A o \in Owners :
        /\ \A p \in erasure[o].seen : stmt[p] # "none"
        /\ \A p \in (erasure[o].seen \ erasure[o].keys) \intersect blob :
             p \in stuck \union putBack
        /\ tenant[o] = "erased" => erasure[o].keys = {}

KeepInv ==
    /\ MaintenanceTypeOK
    /\ UnderWayInv
    /\ SettledFilesSurvive
    /\ SweepInv
    /\ ReconInv
    /\ ErasureInv

\* What a step does to the bucket when the object is dropped or refused.
LEMMA DropBounds ==
  ASSUME NEW p, DropObject(p)
  PROVE  /\ blob \ {p} \subseteq blob' /\ blob' \subseteq blob
         /\ stuck \subseteq stuck' /\ (p \in blob' => p \in stuck')
         /\ stuck' \subseteq stuck \union {p}
         /\ putBack \ {p} \subseteq putBack' /\ putBack' \subseteq putBack
         /\ p \in putBack' => p \in blob'
         /\ cuts' = cuts \/ (cuts < MaxCuts /\ cuts' = cuts + 1)
  BY DEF DropObject, Cut

\* Where rows go, nothing else happens to a statement.
LEMMA RowsGo ==
  ASSUME MaintenanceTypeOK, NEW o \in Owners, SweepRows(o) \/ EraseRows(o)
  PROVE  \A p \in Papers : \/ stmt'[p] = stmt[p]
                           \/ stmt'[p] = "gone" /\ stmt[p] \in {"live", "deleted", "expired"}
  BY DEF SweepRows, EraseRows, Expiring, HasRow, MaintenanceTypeOK

\* At the start nothing is stored, and no sweep, reconciliation or erasure runs.
LEMMA KeepInit == MaintenanceInit => KeepInv
  BY MaintenanceAssumption
  DEF MaintenanceInit, KeepInv, MaintenanceTypeOK, UnderWayInv, SettledFilesSurvive,
      SweepInv,
      ReconInv, ErasureInv, IdleSweep, IdleRecon, IdleErasure, PaperState, Sweep, Recon, Erasure

\* Every step keeps the types.
LEMMA TypeKept == KeepInv /\ [MaintenanceNext]_maintVars => MaintenanceTypeOK'
<1>. SUFFICES ASSUME KeepInv, [MaintenanceNext]_maintVars PROVE MaintenanceTypeOK'
  OBVIOUS
<1>1. ASSUME NEW p \in Papers, StoreUpload(p) PROVE MaintenanceTypeOK'
  BY <1>1, MaintenanceAssumption
  DEF StoreUpload, history, KeepInv, MaintenanceTypeOK, UnderWayInv, PaperState, Sweep,
      Recon, Erasure
<1>2. ASSUME NEW p \in Papers, CommitUploaded(p) PROVE MaintenanceTypeOK'
  BY <1>2, MaintenanceAssumption
  DEF CommitUploaded, history, KeepInv, MaintenanceTypeOK, UnderWayInv, PaperState,
      Sweep, Recon, Erasure
<1>3. ASSUME NEW p \in Papers, LoseUpload(p) PROVE MaintenanceTypeOK'
  BY <1>3, MaintenanceAssumption
  DEF LoseUpload, history, Cut, KeepInv, MaintenanceTypeOK, UnderWayInv, PaperState,
      Sweep, Recon, Erasure
<1>4. ASSUME NEW p \in Papers, RemoveFile(p) PROVE MaintenanceTypeOK'
  BY <1>4, MaintenanceAssumption, DropBounds
  DEF RemoveFile, history, KeepInv, MaintenanceTypeOK, UnderWayInv, PaperState, Sweep,
      Recon, Erasure
<1>5. ASSUME NEW p \in Papers, CommitRemoval(p) PROVE MaintenanceTypeOK'
  BY <1>5, MaintenanceAssumption
  DEF CommitRemoval, history, KeepInv, MaintenanceTypeOK, UnderWayInv, PaperState,
      Sweep, Recon, Erasure
<1>6. ASSUME NEW p \in Papers, LoseRemoval(p) PROVE MaintenanceTypeOK'
  BY <1>6, MaintenanceAssumption
  DEF LoseRemoval, history, Cut, KeepInv, MaintenanceTypeOK, UnderWayInv, PaperState,
      Sweep, Recon, Erasure
<1>7. ASSUME NEW p \in Papers, WindowPasses(p) PROVE MaintenanceTypeOK'
  BY <1>7, MaintenanceAssumption
  DEF WindowPasses, history, KeepInv, MaintenanceTypeOK, UnderWayInv, PaperState,
      Sweep, Recon, Erasure
<1>8. CASE SweepStart
  BY <1>8, MaintenanceAssumption
  DEF SweepStart, history, IdleSweep, ActiveTenants, KeepInv, MaintenanceTypeOK,
      UnderWayInv, PaperState, Sweep, Recon, Erasure
<1>9. ASSUME NEW o \in Owners, SweepRows(o) PROVE MaintenanceTypeOK'
  BY <1>9, MaintenanceAssumption, RowsGo
  DEF SweepRows, history, Expiring, OwnedBy, KeepInv, MaintenanceTypeOK, UnderWayInv,
      PaperState, Sweep, Recon, Erasure
<1>10. ASSUME NEW p \in Papers, SweepObject(p) PROVE MaintenanceTypeOK'
  BY <1>10, MaintenanceAssumption, DropBounds
  DEF SweepObject, history, KeepInv, MaintenanceTypeOK, UnderWayInv, PaperState, Sweep,
      Recon, Erasure
<1>11. CASE SweepEnd
  BY <1>11, MaintenanceAssumption
  DEF SweepEnd, history, IdleSweep, KeepInv, MaintenanceTypeOK, UnderWayInv,
      PaperState, Sweep, Recon, Erasure
<1>12. CASE SweepLost
  BY <1>12, MaintenanceAssumption
  DEF SweepLost, history, IdleSweep, Cut, KeepInv, MaintenanceTypeOK, UnderWayInv,
      PaperState, Sweep, Recon, Erasure
<1>13. CASE ReconStart
  BY <1>13, MaintenanceAssumption
  DEF ReconStart, history, IdleRecon, ActiveTenants, HasRow, KeepInv,
      MaintenanceTypeOK, UnderWayInv, PaperState, Sweep, Recon, Erasure
<1>14. ASSUME NEW o \in Owners, ReconKeys(o) PROVE MaintenanceTypeOK'
  BY <1>14, MaintenanceAssumption
  DEF ReconKeys, history, StorageKeys, OwnedBy, HasRow, KeepInv, MaintenanceTypeOK,
      UnderWayInv, PaperState, Sweep, Recon, Erasure
<1>15. CASE ReconList
  BY <1>15, MaintenanceAssumption
  DEF ReconList, history, IdleRecon, Unreferenced, KeepInv, MaintenanceTypeOK,
      UnderWayInv, PaperState, Sweep, Recon, Erasure
<1>16. ASSUME NEW p \in Papers, ReconObject(p) PROVE MaintenanceTypeOK'
  <2>1. recon' \in Recon /\ blob' \subseteq Papers /\ excused' \subseteq Papers
    BY <1>16 DEF ReconObject, KeepInv, MaintenanceTypeOK, Recon
  <2>. QED  BY <1>16, <2>1 DEF ReconObject, KeepInv, MaintenanceTypeOK
<1>17. CASE ReconEnd
  BY <1>17, MaintenanceAssumption
  DEF ReconEnd, history, IdleRecon, KeepInv, MaintenanceTypeOK, UnderWayInv,
      PaperState, Sweep, Recon, Erasure
<1>18. CASE ReconLost
  BY <1>18, MaintenanceAssumption
  DEF ReconLost, history, IdleRecon, Cut, KeepInv, MaintenanceTypeOK, UnderWayInv,
      PaperState, Sweep, Recon, Erasure
<1>19. ASSUME NEW o \in Owners, EraseKeys(o) PROVE MaintenanceTypeOK'
  BY <1>19, MaintenanceAssumption
  DEF EraseKeys, history, StorageKeys, OwnedBy, HasRow, KeepInv, MaintenanceTypeOK,
      UnderWayInv, PaperState, Sweep, Recon, Erasure
<1>20. ASSUME NEW o \in Owners, NEW p \in Papers, EraseObject(o, p) PROVE MaintenanceTypeOK'
  BY <1>20, MaintenanceAssumption, DropBounds
  DEF EraseObject, history, KeepInv, MaintenanceTypeOK, UnderWayInv, PaperState, Sweep,
      Recon, Erasure
<1>21. ASSUME NEW o \in Owners, EraseRows(o) PROVE MaintenanceTypeOK'
  <2>1. /\ tenant' = [tenant EXCEPT ![o] = "erased"]
        /\ stmt' = [p \in Papers |-> IF OwnerOf[p] = o /\ HasRow(p) THEN "gone" ELSE stmt[p]]
        /\ erasure' = [erasure EXCEPT ![o].pc = "idle"]
        /\ UNCHANGED <<blob, storing, removing, opening, sweep, recon, excused, stuck,
                       putBack, cuts>>
    BY <1>21 DEF EraseRows, history
  <2>2. MaintenanceTypeOK
    BY DEF KeepInv
  <2>3. stmt' \in [Papers -> PaperState]
    BY <2>1, <2>2 DEF MaintenanceTypeOK, PaperState
  <2>4. erasure' \in [Owners -> Erasure]
    BY <2>1, <2>2 DEF MaintenanceTypeOK, Erasure
  <2>5. tenant' \in [Owners -> {"active", "erased"}]
    BY <2>1, <2>2 DEF MaintenanceTypeOK
  <2>6. ASSUME NEW p \in Papers, stmt'[p] \in {"live", "deleted", "expired"}
        PROVE  tenant'[OwnerOf[p]] = "active"
    <3>1. stmt'[p] = stmt[p] /\ OwnerOf[p] # o /\ OwnerOf[p] \in Owners
      BY <2>1, <2>6, MaintenanceAssumption DEF HasRow
    <3>. QED  BY <2>1, <2>2, <2>6, <3>1 DEF MaintenanceTypeOK
  <2>. QED  BY <2>1, <2>2, <2>3, <2>4, <2>5, <2>6 DEF MaintenanceTypeOK
<1>22. ASSUME NEW o \in Owners, EraseLost(o) PROVE MaintenanceTypeOK'
  BY <1>22, MaintenanceAssumption
  DEF EraseLost, history, IdleErasure, Cut, KeepInv, MaintenanceTypeOK, UnderWayInv,
      PaperState, Sweep, Recon, Erasure
<1>23. CASE UNCHANGED maintVars
  BY <1>23
  DEF maintVars, history, KeepInv, MaintenanceTypeOK, UnderWayInv, PaperState, Sweep,
      Recon, Erasure
<1>24. ASSUME NEW p \in Papers, OpenLocked(p) PROVE MaintenanceTypeOK'
  BY <1>24, MaintenanceAssumption
  DEF OpenLocked, history, KeepInv, MaintenanceTypeOK, UnderWayInv, PaperState, Sweep,
      Recon, Erasure
<1>25. ASSUME NEW p \in Papers, StoreOpened(p) PROVE MaintenanceTypeOK'
  BY <1>25, MaintenanceAssumption
  DEF StoreOpened, history, KeepInv, MaintenanceTypeOK, UnderWayInv, PaperState, Sweep,
      Recon, Erasure
<1>26. ASSUME NEW p \in Papers, EndUnlock(p) PROVE MaintenanceTypeOK'
  BY <1>26, MaintenanceAssumption
  DEF EndUnlock, history, KeepInv, MaintenanceTypeOK, UnderWayInv, PaperState, Sweep,
      Recon, Erasure
<1>. QED
  BY <1>1, <1>2, <1>3, <1>4, <1>5, <1>6, <1>7, <1>8, <1>9, <1>10, <1>11, <1>12, <1>13,
     <1>14, <1>15, <1>16, <1>17, <1>18, <1>19, <1>20, <1>21, <1>22, <1>23, <1>24,
     <1>25, <1>26
  DEF MaintenanceNext, UserStep, TaskStep

\* Every step keeps what an upload and a delete under way have of their row.
LEMMA UnderWayKept == KeepInv /\ [MaintenanceNext]_maintVars => UnderWayInv'
<1>. SUFFICES ASSUME KeepInv, [MaintenanceNext]_maintVars PROVE UnderWayInv'
  OBVIOUS
<1>1. ASSUME NEW p \in Papers, StoreUpload(p) PROVE UnderWayInv'
  BY <1>1, MaintenanceAssumption
  DEF StoreUpload, history, KeepInv, UnderWayInv, MaintenanceTypeOK, SweepInv,
      ReconInv
<1>2. ASSUME NEW p \in Papers, CommitUploaded(p) PROVE UnderWayInv'
  BY <1>2, MaintenanceAssumption
  DEF CommitUploaded, history, KeepInv, UnderWayInv, MaintenanceTypeOK, SweepInv,
      ReconInv
<1>3. ASSUME NEW p \in Papers, LoseUpload(p) PROVE UnderWayInv'
  BY <1>3, MaintenanceAssumption
  DEF LoseUpload, history, Cut, KeepInv, UnderWayInv, MaintenanceTypeOK, SweepInv,
      ReconInv
<1>4. ASSUME NEW p \in Papers, RemoveFile(p) PROVE UnderWayInv'
  BY <1>4, MaintenanceAssumption, DropBounds
  DEF RemoveFile, history, KeepInv, UnderWayInv, MaintenanceTypeOK, SweepInv, ReconInv
<1>5. ASSUME NEW p \in Papers, CommitRemoval(p) PROVE UnderWayInv'
  BY <1>5, MaintenanceAssumption
  DEF CommitRemoval, history, KeepInv, UnderWayInv, MaintenanceTypeOK, SweepInv,
      ReconInv
<1>6. ASSUME NEW p \in Papers, LoseRemoval(p) PROVE UnderWayInv'
  BY <1>6, MaintenanceAssumption
  DEF LoseRemoval, history, Cut, KeepInv, UnderWayInv, MaintenanceTypeOK, SweepInv,
      ReconInv
<1>7. ASSUME NEW p \in Papers, WindowPasses(p) PROVE UnderWayInv'
  BY <1>7, MaintenanceAssumption
  DEF WindowPasses, history, KeepInv, UnderWayInv, MaintenanceTypeOK, SweepInv,
      ReconInv
<1>8. CASE SweepStart
  BY <1>8, MaintenanceAssumption
  DEF SweepStart, history, IdleSweep, ActiveTenants, KeepInv, UnderWayInv,
      MaintenanceTypeOK, SweepInv, ReconInv
<1>9. ASSUME NEW o \in Owners, SweepRows(o) PROVE UnderWayInv'
  BY <1>9, MaintenanceAssumption, RowsGo
  DEF SweepRows, history, Expiring, OwnedBy, KeepInv, UnderWayInv, MaintenanceTypeOK,
      SweepInv, ReconInv
<1>10. ASSUME NEW p \in Papers, SweepObject(p) PROVE UnderWayInv'
  BY <1>10, MaintenanceAssumption, DropBounds
  DEF SweepObject, history, KeepInv, UnderWayInv, MaintenanceTypeOK, SweepInv,
      ReconInv
<1>11. CASE SweepEnd
  BY <1>11, MaintenanceAssumption
  DEF SweepEnd, history, IdleSweep, KeepInv, UnderWayInv, MaintenanceTypeOK, SweepInv,
      ReconInv
<1>12. CASE SweepLost
  BY <1>12, MaintenanceAssumption
  DEF SweepLost, history, IdleSweep, Cut, KeepInv, UnderWayInv, MaintenanceTypeOK,
      SweepInv, ReconInv
<1>13. CASE ReconStart
  BY <1>13, MaintenanceAssumption
  DEF ReconStart, history, IdleRecon, ActiveTenants, HasRow, KeepInv, UnderWayInv,
      MaintenanceTypeOK, SweepInv, ReconInv
<1>14. ASSUME NEW o \in Owners, ReconKeys(o) PROVE UnderWayInv'
  BY <1>14, MaintenanceAssumption
  DEF ReconKeys, history, StorageKeys, OwnedBy, HasRow, KeepInv, UnderWayInv,
      MaintenanceTypeOK, SweepInv, ReconInv
<1>15. CASE ReconList
  BY <1>15, MaintenanceAssumption
  DEF ReconList, history, IdleRecon, Unreferenced, KeepInv, UnderWayInv,
      MaintenanceTypeOK, SweepInv, ReconInv
<1>16. ASSUME NEW p \in Papers, ReconObject(p) PROVE UnderWayInv'
  BY <1>16, MaintenanceAssumption
  DEF ReconObject, history, KeepInv, UnderWayInv, MaintenanceTypeOK, SweepInv,
      ReconInv
<1>17. CASE ReconEnd
  BY <1>17, MaintenanceAssumption
  DEF ReconEnd, history, IdleRecon, KeepInv, UnderWayInv, MaintenanceTypeOK, SweepInv,
      ReconInv
<1>18. CASE ReconLost
  BY <1>18, MaintenanceAssumption
  DEF ReconLost, history, IdleRecon, Cut, KeepInv, UnderWayInv, MaintenanceTypeOK,
      SweepInv, ReconInv
<1>19. ASSUME NEW o \in Owners, EraseKeys(o) PROVE UnderWayInv'
  BY <1>19, MaintenanceAssumption
  DEF EraseKeys, history, StorageKeys, OwnedBy, HasRow, KeepInv, UnderWayInv,
      MaintenanceTypeOK, SweepInv, ReconInv
<1>20. ASSUME NEW o \in Owners, NEW p \in Papers, EraseObject(o, p) PROVE UnderWayInv'
  BY <1>20, MaintenanceAssumption, DropBounds
  DEF EraseObject, history, KeepInv, UnderWayInv, MaintenanceTypeOK, SweepInv,
      ReconInv
<1>21. ASSUME NEW o \in Owners, EraseRows(o) PROVE UnderWayInv'
  BY <1>21, MaintenanceAssumption, RowsGo
  DEF EraseRows, history, OwnedBy, HasRow, KeepInv, UnderWayInv, MaintenanceTypeOK,
      SweepInv, ReconInv
<1>22. ASSUME NEW o \in Owners, EraseLost(o) PROVE UnderWayInv'
  BY <1>22, MaintenanceAssumption
  DEF EraseLost, history, IdleErasure, Cut, KeepInv, UnderWayInv, MaintenanceTypeOK,
      SweepInv, ReconInv
<1>23. CASE UNCHANGED maintVars
  BY <1>23
  DEF maintVars, history, KeepInv, UnderWayInv, MaintenanceTypeOK, SweepInv, ReconInv
<1>24. ASSUME NEW p \in Papers, OpenLocked(p) PROVE UnderWayInv'
  BY <1>24, MaintenanceAssumption
  DEF OpenLocked, history, KeepInv, UnderWayInv, MaintenanceTypeOK, SweepInv, ReconInv
<1>25. ASSUME NEW p \in Papers, StoreOpened(p) PROVE UnderWayInv'
  BY <1>25, MaintenanceAssumption
  DEF StoreOpened, history, KeepInv, UnderWayInv, MaintenanceTypeOK, SweepInv, ReconInv
<1>26. ASSUME NEW p \in Papers, EndUnlock(p) PROVE UnderWayInv'
  BY <1>26, MaintenanceAssumption
  DEF EndUnlock, history, KeepInv, UnderWayInv, MaintenanceTypeOK, SweepInv, ReconInv
<1>. QED
  BY <1>1, <1>2, <1>3, <1>4, <1>5, <1>6, <1>7, <1>8, <1>9, <1>10, <1>11, <1>12, <1>13,
     <1>14, <1>15, <1>16, <1>17, <1>18, <1>19, <1>20, <1>21, <1>22, <1>23, <1>24,
     <1>25, <1>26
  DEF MaintenanceNext, UserStep, TaskStep

\* No step deletes the file of a settled statement.
LEMMA SettledKept == KeepInv /\ [MaintenanceNext]_maintVars => SettledFilesSurvive'
<1>. SUFFICES ASSUME KeepInv, [MaintenanceNext]_maintVars PROVE SettledFilesSurvive'
  OBVIOUS
<1>1. ASSUME NEW p \in Papers, StoreUpload(p) PROVE SettledFilesSurvive'
  BY <1>1, MaintenanceAssumption
  DEF StoreUpload, history, KeepInv, SettledFilesSurvive, MaintenanceTypeOK,
      UnderWayInv, SweepInv, ReconInv
<1>2. ASSUME NEW p \in Papers, CommitUploaded(p) PROVE SettledFilesSurvive'
  BY <1>2, MaintenanceAssumption
  DEF CommitUploaded, history, KeepInv, SettledFilesSurvive, MaintenanceTypeOK,
      UnderWayInv, SweepInv, ReconInv
<1>3. ASSUME NEW p \in Papers, LoseUpload(p) PROVE SettledFilesSurvive'
  BY <1>3, MaintenanceAssumption
  DEF LoseUpload, history, Cut, KeepInv, SettledFilesSurvive, MaintenanceTypeOK,
      UnderWayInv, SweepInv, ReconInv
<1>4. ASSUME NEW p \in Papers, RemoveFile(p) PROVE SettledFilesSurvive'
  BY <1>4, MaintenanceAssumption, DropBounds
  DEF RemoveFile, history, KeepInv, SettledFilesSurvive, MaintenanceTypeOK,
      UnderWayInv, SweepInv, ReconInv
<1>5. ASSUME NEW p \in Papers, CommitRemoval(p) PROVE SettledFilesSurvive'
  BY <1>5, MaintenanceAssumption
  DEF CommitRemoval, history, KeepInv, SettledFilesSurvive, MaintenanceTypeOK,
      UnderWayInv, SweepInv, ReconInv
<1>6. ASSUME NEW p \in Papers, LoseRemoval(p) PROVE SettledFilesSurvive'
  BY <1>6, MaintenanceAssumption
  DEF LoseRemoval, history, Cut, KeepInv, SettledFilesSurvive, MaintenanceTypeOK,
      UnderWayInv, SweepInv, ReconInv
<1>7. ASSUME NEW p \in Papers, WindowPasses(p) PROVE SettledFilesSurvive'
  BY <1>7, MaintenanceAssumption
  DEF WindowPasses, history, KeepInv, SettledFilesSurvive, MaintenanceTypeOK,
      UnderWayInv, SweepInv, ReconInv
<1>8. CASE SweepStart
  BY <1>8, MaintenanceAssumption
  DEF SweepStart, history, IdleSweep, ActiveTenants, KeepInv, SettledFilesSurvive,
      MaintenanceTypeOK, UnderWayInv, SweepInv, ReconInv
<1>9. ASSUME NEW o \in Owners, SweepRows(o) PROVE SettledFilesSurvive'
  BY <1>9, MaintenanceAssumption, RowsGo
  DEF SweepRows, history, Expiring, OwnedBy, KeepInv, SettledFilesSurvive,
      MaintenanceTypeOK, UnderWayInv, SweepInv, ReconInv
<1>10. ASSUME NEW p \in Papers, SweepObject(p) PROVE SettledFilesSurvive'
  BY <1>10, MaintenanceAssumption, DropBounds
  DEF SweepObject, history, KeepInv, SettledFilesSurvive, MaintenanceTypeOK,
      UnderWayInv, SweepInv, ReconInv
<1>11. CASE SweepEnd
  BY <1>11, MaintenanceAssumption
  DEF SweepEnd, history, IdleSweep, KeepInv, SettledFilesSurvive, MaintenanceTypeOK,
      UnderWayInv, SweepInv, ReconInv
<1>12. CASE SweepLost
  BY <1>12, MaintenanceAssumption
  DEF SweepLost, history, IdleSweep, Cut, KeepInv, SettledFilesSurvive,
      MaintenanceTypeOK, UnderWayInv, SweepInv, ReconInv
<1>13. CASE ReconStart
  BY <1>13, MaintenanceAssumption
  DEF ReconStart, history, IdleRecon, ActiveTenants, HasRow, KeepInv,
      SettledFilesSurvive, MaintenanceTypeOK, UnderWayInv, SweepInv, ReconInv
<1>14. ASSUME NEW o \in Owners, ReconKeys(o) PROVE SettledFilesSurvive'
  BY <1>14, MaintenanceAssumption
  DEF ReconKeys, history, StorageKeys, OwnedBy, HasRow, KeepInv, SettledFilesSurvive,
      MaintenanceTypeOK, UnderWayInv, SweepInv, ReconInv
<1>15. CASE ReconList
  BY <1>15, MaintenanceAssumption
  DEF ReconList, history, IdleRecon, Unreferenced, KeepInv, SettledFilesSurvive,
      MaintenanceTypeOK, UnderWayInv, SweepInv, ReconInv
<1>16. ASSUME NEW p \in Papers, ReconObject(p) PROVE SettledFilesSurvive'
  BY <1>16, MaintenanceAssumption
  DEF ReconObject, history, KeepInv, SettledFilesSurvive, MaintenanceTypeOK,
      UnderWayInv, SweepInv, ReconInv
<1>17. CASE ReconEnd
  BY <1>17, MaintenanceAssumption
  DEF ReconEnd, history, IdleRecon, KeepInv, SettledFilesSurvive, MaintenanceTypeOK,
      UnderWayInv, SweepInv, ReconInv
<1>18. CASE ReconLost
  BY <1>18, MaintenanceAssumption
  DEF ReconLost, history, IdleRecon, Cut, KeepInv, SettledFilesSurvive,
      MaintenanceTypeOK, UnderWayInv, SweepInv, ReconInv
<1>19. ASSUME NEW o \in Owners, EraseKeys(o) PROVE SettledFilesSurvive'
  BY <1>19, MaintenanceAssumption
  DEF EraseKeys, history, StorageKeys, OwnedBy, HasRow, KeepInv, SettledFilesSurvive,
      MaintenanceTypeOK, UnderWayInv, SweepInv, ReconInv
<1>20. ASSUME NEW o \in Owners, NEW p \in Papers, EraseObject(o, p) PROVE SettledFilesSurvive'
  BY <1>20, MaintenanceAssumption, DropBounds
  DEF EraseObject, history, KeepInv, SettledFilesSurvive, MaintenanceTypeOK,
      UnderWayInv, SweepInv, ReconInv
<1>21. ASSUME NEW o \in Owners, EraseRows(o) PROVE SettledFilesSurvive'
  BY <1>21, MaintenanceAssumption, RowsGo
  DEF EraseRows, history, OwnedBy, HasRow, KeepInv, SettledFilesSurvive,
      MaintenanceTypeOK, UnderWayInv, SweepInv, ReconInv
<1>22. ASSUME NEW o \in Owners, EraseLost(o) PROVE SettledFilesSurvive'
  BY <1>22, MaintenanceAssumption
  DEF EraseLost, history, IdleErasure, Cut, KeepInv, SettledFilesSurvive,
      MaintenanceTypeOK, UnderWayInv, SweepInv, ReconInv
<1>23. CASE UNCHANGED maintVars
  BY <1>23
  DEF maintVars, history, KeepInv, SettledFilesSurvive, MaintenanceTypeOK, UnderWayInv,
      SweepInv, ReconInv
<1>24. ASSUME NEW p \in Papers, OpenLocked(p) PROVE SettledFilesSurvive'
  BY <1>24, MaintenanceAssumption
  DEF OpenLocked, history, KeepInv, SettledFilesSurvive, MaintenanceTypeOK, UnderWayInv,
      SweepInv, ReconInv
<1>25. ASSUME NEW p \in Papers, StoreOpened(p) PROVE SettledFilesSurvive'
  BY <1>25, MaintenanceAssumption
  DEF StoreOpened, history, KeepInv, SettledFilesSurvive, MaintenanceTypeOK,
      UnderWayInv, SweepInv, ReconInv
<1>26. ASSUME NEW p \in Papers, EndUnlock(p) PROVE SettledFilesSurvive'
  BY <1>26, MaintenanceAssumption
  DEF EndUnlock, history, KeepInv, SettledFilesSurvive, MaintenanceTypeOK, UnderWayInv,
      SweepInv, ReconInv
<1>. QED
  BY <1>1, <1>2, <1>3, <1>4, <1>5, <1>6, <1>7, <1>8, <1>9, <1>10, <1>11, <1>12, <1>13,
     <1>14, <1>15, <1>16, <1>17, <1>18, <1>19, <1>20, <1>21, <1>22, <1>23, <1>24,
     <1>25, <1>26
  DEF MaintenanceNext, UserStep, TaskStep

\* Every step keeps the keys of the sweep without a row.
LEMMA SweepKept == KeepInv /\ [MaintenanceNext]_maintVars => SweepInv'
<1>. SUFFICES ASSUME KeepInv, [MaintenanceNext]_maintVars PROVE SweepInv'
  OBVIOUS
<1>1. ASSUME NEW p \in Papers, StoreUpload(p) PROVE SweepInv'
  BY <1>1, MaintenanceAssumption
  DEF StoreUpload, history, KeepInv, SweepInv, MaintenanceTypeOK, UnderWayInv
<1>2. ASSUME NEW p \in Papers, CommitUploaded(p) PROVE SweepInv'
  BY <1>2, MaintenanceAssumption
  DEF CommitUploaded, history, KeepInv, SweepInv, MaintenanceTypeOK, UnderWayInv
<1>3. ASSUME NEW p \in Papers, LoseUpload(p) PROVE SweepInv'
  BY <1>3, MaintenanceAssumption
  DEF LoseUpload, history, Cut, KeepInv, SweepInv, MaintenanceTypeOK, UnderWayInv
<1>4. ASSUME NEW p \in Papers, RemoveFile(p) PROVE SweepInv'
  BY <1>4, MaintenanceAssumption, DropBounds
  DEF RemoveFile, history, KeepInv, SweepInv, MaintenanceTypeOK, UnderWayInv
<1>5. ASSUME NEW p \in Papers, CommitRemoval(p) PROVE SweepInv'
  BY <1>5, MaintenanceAssumption
  DEF CommitRemoval, history, KeepInv, SweepInv, MaintenanceTypeOK, UnderWayInv
<1>6. ASSUME NEW p \in Papers, LoseRemoval(p) PROVE SweepInv'
  BY <1>6, MaintenanceAssumption
  DEF LoseRemoval, history, Cut, KeepInv, SweepInv, MaintenanceTypeOK, UnderWayInv
<1>7. ASSUME NEW p \in Papers, WindowPasses(p) PROVE SweepInv'
  BY <1>7, MaintenanceAssumption
  DEF WindowPasses, history, KeepInv, SweepInv, MaintenanceTypeOK, UnderWayInv
<1>8. CASE SweepStart
  BY <1>8, MaintenanceAssumption
  DEF SweepStart, history, IdleSweep, ActiveTenants, KeepInv, SweepInv,
      MaintenanceTypeOK, UnderWayInv
<1>9. ASSUME NEW o \in Owners, SweepRows(o) PROVE SweepInv'
  <2>1. sweep'.keys = Expiring(o)
    BY <1>9 DEF SweepRows, KeepInv, MaintenanceTypeOK, Sweep
  <2>2. \A p \in Expiring(o) : stmt'[p] = "gone"
    BY <1>9 DEF SweepRows, Expiring, OwnedBy
  <2>. QED  BY <2>1, <2>2 DEF SweepInv
<1>10. ASSUME NEW p \in Papers, SweepObject(p) PROVE SweepInv'
  BY <1>10, MaintenanceAssumption, DropBounds
  DEF SweepObject, history, KeepInv, SweepInv, MaintenanceTypeOK, UnderWayInv
<1>11. CASE SweepEnd
  BY <1>11, MaintenanceAssumption
  DEF SweepEnd, history, IdleSweep, KeepInv, SweepInv, MaintenanceTypeOK, UnderWayInv
<1>12. CASE SweepLost
  BY <1>12, MaintenanceAssumption
  DEF SweepLost, history, IdleSweep, Cut, KeepInv, SweepInv, MaintenanceTypeOK,
      UnderWayInv
<1>13. CASE ReconStart
  BY <1>13, MaintenanceAssumption
  DEF ReconStart, history, IdleRecon, ActiveTenants, HasRow, KeepInv, SweepInv,
      MaintenanceTypeOK, UnderWayInv
<1>14. ASSUME NEW o \in Owners, ReconKeys(o) PROVE SweepInv'
  BY <1>14, MaintenanceAssumption
  DEF ReconKeys, history, StorageKeys, OwnedBy, HasRow, KeepInv, SweepInv,
      MaintenanceTypeOK, UnderWayInv
<1>15. CASE ReconList
  BY <1>15, MaintenanceAssumption
  DEF ReconList, history, IdleRecon, Unreferenced, KeepInv, SweepInv,
      MaintenanceTypeOK, UnderWayInv
<1>16. ASSUME NEW p \in Papers, ReconObject(p) PROVE SweepInv'
  BY <1>16, MaintenanceAssumption
  DEF ReconObject, history, KeepInv, SweepInv, MaintenanceTypeOK, UnderWayInv
<1>17. CASE ReconEnd
  BY <1>17, MaintenanceAssumption
  DEF ReconEnd, history, IdleRecon, KeepInv, SweepInv, MaintenanceTypeOK, UnderWayInv
<1>18. CASE ReconLost
  BY <1>18, MaintenanceAssumption
  DEF ReconLost, history, IdleRecon, Cut, KeepInv, SweepInv, MaintenanceTypeOK,
      UnderWayInv
<1>19. ASSUME NEW o \in Owners, EraseKeys(o) PROVE SweepInv'
  BY <1>19, MaintenanceAssumption
  DEF EraseKeys, history, StorageKeys, OwnedBy, HasRow, KeepInv, SweepInv,
      MaintenanceTypeOK, UnderWayInv
<1>20. ASSUME NEW o \in Owners, NEW p \in Papers, EraseObject(o, p) PROVE SweepInv'
  BY <1>20, MaintenanceAssumption, DropBounds
  DEF EraseObject, history, KeepInv, SweepInv, MaintenanceTypeOK, UnderWayInv
<1>21. ASSUME NEW o \in Owners, EraseRows(o) PROVE SweepInv'
  <2>1. sweep' = sweep
    BY <1>21 DEF EraseRows
  <2>2. \A p \in Papers : stmt[p] = "gone" => stmt'[p] = "gone"
    <3>1. MaintenanceTypeOK
      BY DEF KeepInv
    <3>2. SweepRows(o) \/ EraseRows(o)
      BY <1>21
    <3>. QED  BY <3>1, <3>2, RowsGo
  <2>. QED  BY <2>1, <2>2 DEF SweepInv, KeepInv, MaintenanceTypeOK, Sweep
<1>22. ASSUME NEW o \in Owners, EraseLost(o) PROVE SweepInv'
  BY <1>22, MaintenanceAssumption
  DEF EraseLost, history, IdleErasure, Cut, KeepInv, SweepInv, MaintenanceTypeOK,
      UnderWayInv
<1>23. CASE UNCHANGED maintVars
  BY <1>23 DEF maintVars, history, KeepInv, SweepInv, MaintenanceTypeOK, UnderWayInv
<1>24. ASSUME NEW p \in Papers, OpenLocked(p) PROVE SweepInv'
  BY <1>24, MaintenanceAssumption
  DEF OpenLocked, history, KeepInv, SweepInv, MaintenanceTypeOK, UnderWayInv
<1>25. ASSUME NEW p \in Papers, StoreOpened(p) PROVE SweepInv'
  BY <1>25, MaintenanceAssumption
  DEF StoreOpened, history, KeepInv, SweepInv, MaintenanceTypeOK, UnderWayInv
<1>26. ASSUME NEW p \in Papers, EndUnlock(p) PROVE SweepInv'
  BY <1>26, MaintenanceAssumption
  DEF EndUnlock, history, KeepInv, SweepInv, MaintenanceTypeOK, UnderWayInv
<1>. QED
  BY <1>1, <1>2, <1>3, <1>4, <1>5, <1>6, <1>7, <1>8, <1>9, <1>10, <1>11, <1>12, <1>13,
     <1>14, <1>15, <1>16, <1>17, <1>18, <1>19, <1>20, <1>21, <1>22, <1>23, <1>24,
     <1>25, <1>26
  DEF MaintenanceNext, UserStep, TaskStep

\* No step makes a recorded statement an orphan of a reconciliation.
LEMMA ReconKept == KeepInv /\ [MaintenanceNext]_maintVars => ReconInv'
<1>. SUFFICES ASSUME KeepInv, [MaintenanceNext]_maintVars PROVE ReconInv'
  OBVIOUS
<1>1. ASSUME NEW p \in Papers, StoreUpload(p) PROVE ReconInv'
  BY <1>1, MaintenanceAssumption
  DEF StoreUpload, history, KeepInv, ReconInv, MaintenanceTypeOK, UnderWayInv
<1>2. ASSUME NEW p \in Papers, CommitUploaded(p) PROVE ReconInv'
  BY <1>2, MaintenanceAssumption
  DEF CommitUploaded, history, KeepInv, ReconInv, MaintenanceTypeOK, UnderWayInv
<1>3. ASSUME NEW p \in Papers, LoseUpload(p) PROVE ReconInv'
  BY <1>3, MaintenanceAssumption
  DEF LoseUpload, history, Cut, KeepInv, ReconInv, MaintenanceTypeOK, UnderWayInv
<1>4. ASSUME NEW p \in Papers, RemoveFile(p) PROVE ReconInv'
  BY <1>4, MaintenanceAssumption, DropBounds
  DEF RemoveFile, history, KeepInv, ReconInv, MaintenanceTypeOK, UnderWayInv
<1>5. ASSUME NEW p \in Papers, CommitRemoval(p) PROVE ReconInv'
  BY <1>5, MaintenanceAssumption
  DEF CommitRemoval, history, KeepInv, ReconInv, MaintenanceTypeOK, UnderWayInv
<1>6. ASSUME NEW p \in Papers, LoseRemoval(p) PROVE ReconInv'
  BY <1>6, MaintenanceAssumption
  DEF LoseRemoval, history, Cut, KeepInv, ReconInv, MaintenanceTypeOK, UnderWayInv
<1>7. ASSUME NEW p \in Papers, WindowPasses(p) PROVE ReconInv'
  BY <1>7, MaintenanceAssumption
  DEF WindowPasses, history, KeepInv, ReconInv, MaintenanceTypeOK, UnderWayInv
<1>8. CASE SweepStart
  BY <1>8, MaintenanceAssumption
  DEF SweepStart, history, IdleSweep, ActiveTenants, KeepInv, ReconInv,
      MaintenanceTypeOK, UnderWayInv
<1>9. ASSUME NEW o \in Owners, SweepRows(o) PROVE ReconInv'
  <2>1. recon' = recon
    BY <1>9 DEF SweepRows
  <2>2. \A p \in Papers : \/ stmt'[p] = stmt[p]
                          \/ stmt'[p] = "gone" /\ stmt[p] \in {"live", "deleted", "expired"}
    <3>1. MaintenanceTypeOK
      BY DEF KeepInv
    <3>2. SweepRows(o) \/ EraseRows(o)
      BY <1>9
    <3>. QED  BY <3>1, <3>2, RowsGo
  <2>. QED  BY <2>1, <2>2 DEF KeepInv, ReconInv, MaintenanceTypeOK, Recon
<1>10. ASSUME NEW p \in Papers, SweepObject(p) PROVE ReconInv'
  BY <1>10, MaintenanceAssumption, DropBounds
  DEF SweepObject, history, KeepInv, ReconInv, MaintenanceTypeOK, UnderWayInv
<1>11. CASE SweepEnd
  BY <1>11, MaintenanceAssumption
  DEF SweepEnd, history, IdleSweep, KeepInv, ReconInv, MaintenanceTypeOK, UnderWayInv
<1>12. CASE SweepLost
  BY <1>12, MaintenanceAssumption
  DEF SweepLost, history, IdleSweep, Cut, KeepInv, ReconInv, MaintenanceTypeOK,
      UnderWayInv
<1>13. CASE ReconStart
  BY <1>13, MaintenanceAssumption
  DEF ReconStart, history, IdleRecon, ActiveTenants, HasRow, KeepInv, ReconInv,
      MaintenanceTypeOK, UnderWayInv
<1>14. ASSUME NEW o \in Owners, ReconKeys(o) PROVE ReconInv'
  <2>1. /\ recon.pc = "reading" /\ stmt' = stmt
        /\ recon'.pc = "reading" /\ recon'.known = recon.known
        /\ recon'.todo = recon.todo \ {o}
        /\ recon'.live = recon.live \union StorageKeys(o)
    BY <1>14 DEF ReconKeys, KeepInv, MaintenanceTypeOK, Recon
  <2>2. \A p \in Papers : stmt[p] = "live" /\ OwnerOf[p] = o => p \in StorageKeys(o)
    BY DEF StorageKeys, OwnedBy, HasRow
  <2>. QED  BY <2>1, <2>2 DEF KeepInv, ReconInv, MaintenanceTypeOK, Recon
<1>15. CASE ReconList
  BY <1>15, MaintenanceAssumption
  DEF ReconList, history, IdleRecon, Unreferenced, KeepInv, ReconInv,
      MaintenanceTypeOK, UnderWayInv
<1>16. ASSUME NEW p \in Papers, ReconObject(p) PROVE ReconInv'
  BY <1>16, MaintenanceAssumption
  DEF ReconObject, history, KeepInv, ReconInv, MaintenanceTypeOK, UnderWayInv
<1>17. CASE ReconEnd
  BY <1>17, MaintenanceAssumption
  DEF ReconEnd, history, IdleRecon, KeepInv, ReconInv, MaintenanceTypeOK, UnderWayInv
<1>18. CASE ReconLost
  BY <1>18, MaintenanceAssumption
  DEF ReconLost, history, IdleRecon, Cut, KeepInv, ReconInv, MaintenanceTypeOK,
      UnderWayInv
<1>19. ASSUME NEW o \in Owners, EraseKeys(o) PROVE ReconInv'
  BY <1>19, MaintenanceAssumption
  DEF EraseKeys, history, StorageKeys, OwnedBy, HasRow, KeepInv, ReconInv,
      MaintenanceTypeOK, UnderWayInv
<1>20. ASSUME NEW o \in Owners, NEW p \in Papers, EraseObject(o, p) PROVE ReconInv'
  BY <1>20, MaintenanceAssumption, DropBounds
  DEF EraseObject, history, KeepInv, ReconInv, MaintenanceTypeOK, UnderWayInv
<1>21. ASSUME NEW o \in Owners, EraseRows(o) PROVE ReconInv'
  <2>1. recon' = recon
    BY <1>21 DEF EraseRows
  <2>2. \A p \in Papers : \/ stmt'[p] = stmt[p]
                          \/ stmt'[p] = "gone" /\ stmt[p] \in {"live", "deleted", "expired"}
    <3>1. MaintenanceTypeOK
      BY DEF KeepInv
    <3>2. SweepRows(o) \/ EraseRows(o)
      BY <1>21
    <3>. QED  BY <3>1, <3>2, RowsGo
  <2>. QED  BY <2>1, <2>2 DEF KeepInv, ReconInv, MaintenanceTypeOK, Recon
<1>22. ASSUME NEW o \in Owners, EraseLost(o) PROVE ReconInv'
  BY <1>22, MaintenanceAssumption
  DEF EraseLost, history, IdleErasure, Cut, KeepInv, ReconInv, MaintenanceTypeOK,
      UnderWayInv
<1>23. CASE UNCHANGED maintVars
  BY <1>23 DEF maintVars, history, KeepInv, ReconInv, MaintenanceTypeOK, UnderWayInv
<1>24. ASSUME NEW p \in Papers, OpenLocked(p) PROVE ReconInv'
  BY <1>24, MaintenanceAssumption
  DEF OpenLocked, history, KeepInv, ReconInv, MaintenanceTypeOK, UnderWayInv
<1>25. ASSUME NEW p \in Papers, StoreOpened(p) PROVE ReconInv'
  BY <1>25, MaintenanceAssumption
  DEF StoreOpened, history, KeepInv, ReconInv, MaintenanceTypeOK, UnderWayInv
<1>26. ASSUME NEW p \in Papers, EndUnlock(p) PROVE ReconInv'
  BY <1>26, MaintenanceAssumption
  DEF EndUnlock, history, KeepInv, ReconInv, MaintenanceTypeOK, UnderWayInv
<1>. QED
  BY <1>1, <1>2, <1>3, <1>4, <1>5, <1>6, <1>7, <1>8, <1>9, <1>10, <1>11, <1>12, <1>13,
     <1>14, <1>15, <1>16, <1>17, <1>18, <1>19, <1>20, <1>21, <1>22, <1>23, <1>24,
     <1>25, <1>26
  DEF MaintenanceNext, UserStep, TaskStep

\* Every step keeps what an erasure has dealt with out of the bucket.
LEMMA ErasureKept == KeepInv /\ [MaintenanceNext]_maintVars => ErasureInv'
<1>. SUFFICES ASSUME KeepInv, [MaintenanceNext]_maintVars PROVE ErasureInv'
  OBVIOUS
<1>1. ASSUME NEW p \in Papers, StoreUpload(p) PROVE ErasureInv'
  BY <1>1, MaintenanceAssumption
  DEF StoreUpload, history, KeepInv, ErasureInv, MaintenanceTypeOK, UnderWayInv
<1>2. ASSUME NEW p \in Papers, CommitUploaded(p) PROVE ErasureInv'
  BY <1>2, MaintenanceAssumption
  DEF CommitUploaded, history, KeepInv, ErasureInv, MaintenanceTypeOK, UnderWayInv
<1>3. ASSUME NEW p \in Papers, LoseUpload(p) PROVE ErasureInv'
  BY <1>3, MaintenanceAssumption
  DEF LoseUpload, history, Cut, KeepInv, ErasureInv, MaintenanceTypeOK, UnderWayInv
<1>4. ASSUME NEW p \in Papers, RemoveFile(p) PROVE ErasureInv'
  BY <1>4, MaintenanceAssumption, DropBounds
  DEF RemoveFile, history, KeepInv, ErasureInv, MaintenanceTypeOK, UnderWayInv
<1>5. ASSUME NEW p \in Papers, CommitRemoval(p) PROVE ErasureInv'
  BY <1>5, MaintenanceAssumption
  DEF CommitRemoval, history, KeepInv, ErasureInv, MaintenanceTypeOK, UnderWayInv
<1>6. ASSUME NEW p \in Papers, LoseRemoval(p) PROVE ErasureInv'
  BY <1>6, MaintenanceAssumption
  DEF LoseRemoval, history, Cut, KeepInv, ErasureInv, MaintenanceTypeOK, UnderWayInv
<1>7. ASSUME NEW p \in Papers, WindowPasses(p) PROVE ErasureInv'
  BY <1>7, MaintenanceAssumption
  DEF WindowPasses, history, KeepInv, ErasureInv, MaintenanceTypeOK, UnderWayInv
<1>8. CASE SweepStart
  BY <1>8, MaintenanceAssumption
  DEF SweepStart, history, IdleSweep, ActiveTenants, KeepInv, ErasureInv,
      MaintenanceTypeOK, UnderWayInv
<1>9. ASSUME NEW o \in Owners, SweepRows(o) PROVE ErasureInv'
  <2>1. /\ erasure' = erasure /\ tenant' = tenant
        /\ blob' = blob /\ stuck' = stuck /\ putBack' = putBack
    BY <1>9 DEF SweepRows, history
  <2>2. \A p \in Papers : stmt[p] # "none" => stmt'[p] # "none"
    <3>1. MaintenanceTypeOK
      BY DEF KeepInv
    <3>2. SweepRows(o) \/ EraseRows(o)
      BY <1>9
    <3>. QED  BY <3>1, <3>2, RowsGo
  <2>. QED  BY <2>1, <2>2 DEF KeepInv, ErasureInv, MaintenanceTypeOK, Erasure
<1>10. ASSUME NEW p \in Papers, SweepObject(p) PROVE ErasureInv'
  BY <1>10, MaintenanceAssumption, DropBounds
  DEF SweepObject, history, KeepInv, ErasureInv, MaintenanceTypeOK, UnderWayInv
<1>11. CASE SweepEnd
  BY <1>11, MaintenanceAssumption
  DEF SweepEnd, history, IdleSweep, KeepInv, ErasureInv, MaintenanceTypeOK,
      UnderWayInv
<1>12. CASE SweepLost
  BY <1>12, MaintenanceAssumption
  DEF SweepLost, history, IdleSweep, Cut, KeepInv, ErasureInv, MaintenanceTypeOK,
      UnderWayInv
<1>13. CASE ReconStart
  BY <1>13, MaintenanceAssumption
  DEF ReconStart, history, IdleRecon, ActiveTenants, HasRow, KeepInv, ErasureInv,
      MaintenanceTypeOK, UnderWayInv
<1>14. ASSUME NEW o \in Owners, ReconKeys(o) PROVE ErasureInv'
  BY <1>14, MaintenanceAssumption
  DEF ReconKeys, history, StorageKeys, OwnedBy, HasRow, KeepInv, ErasureInv,
      MaintenanceTypeOK, UnderWayInv
<1>15. CASE ReconList
  BY <1>15, MaintenanceAssumption
  DEF ReconList, history, IdleRecon, Unreferenced, KeepInv, ErasureInv,
      MaintenanceTypeOK, UnderWayInv
<1>16. ASSUME NEW p \in Papers, ReconObject(p) PROVE ErasureInv'
  BY <1>16, MaintenanceAssumption
  DEF ReconObject, history, KeepInv, ErasureInv, MaintenanceTypeOK, UnderWayInv
<1>17. CASE ReconEnd
  BY <1>17, MaintenanceAssumption
  DEF ReconEnd, history, IdleRecon, KeepInv, ErasureInv, MaintenanceTypeOK,
      UnderWayInv
<1>18. CASE ReconLost
  BY <1>18, MaintenanceAssumption
  DEF ReconLost, history, IdleRecon, Cut, KeepInv, ErasureInv, MaintenanceTypeOK,
      UnderWayInv
<1>19. ASSUME NEW o \in Owners, EraseKeys(o) PROVE ErasureInv'
  BY <1>19, MaintenanceAssumption
  DEF EraseKeys, history, StorageKeys, OwnedBy, HasRow, KeepInv, ErasureInv,
      MaintenanceTypeOK, UnderWayInv
<1>20. ASSUME NEW o \in Owners, NEW p \in Papers, EraseObject(o, p) PROVE ErasureInv'
  BY <1>20, MaintenanceAssumption, DropBounds
  DEF EraseObject, history, KeepInv, ErasureInv, MaintenanceTypeOK, UnderWayInv
<1>21. ASSUME NEW o \in Owners, EraseRows(o) PROVE ErasureInv'
  <2>1. /\ blob' = blob /\ stuck' = stuck /\ putBack' = putBack
        /\ tenant' = [tenant EXCEPT ![o] = "erased"]
        /\ erasure' = [erasure EXCEPT ![o].pc = "idle"] /\ erasure[o].keys = {}
    BY <1>21 DEF EraseRows, history
  <2>2. \A p \in Papers : stmt[p] # "none" => stmt'[p] # "none"
    <3>1. MaintenanceTypeOK
      BY DEF KeepInv
    <3>2. SweepRows(o) \/ EraseRows(o)
      BY <1>21
    <3>. QED  BY <3>1, <3>2, RowsGo
  <2>3. \A q \in Owners : /\ erasure'[q].keys = erasure[q].keys
                          /\ erasure'[q].seen = erasure[q].seen
                          /\ tenant'[q] = "erased" => q = o \/ tenant[q] = "erased"
    BY <2>1 DEF KeepInv, MaintenanceTypeOK, Erasure
  <2>. QED  BY <2>1, <2>2, <2>3 DEF KeepInv, ErasureInv, MaintenanceTypeOK, Erasure
<1>22. ASSUME NEW o \in Owners, EraseLost(o) PROVE ErasureInv'
  BY <1>22, MaintenanceAssumption
  DEF EraseLost, history, IdleErasure, Cut, KeepInv, ErasureInv, MaintenanceTypeOK,
      UnderWayInv
<1>23. CASE UNCHANGED maintVars
  BY <1>23 DEF maintVars, history, KeepInv, ErasureInv, MaintenanceTypeOK, UnderWayInv
<1>24. ASSUME NEW p \in Papers, OpenLocked(p) PROVE ErasureInv'
  BY <1>24, MaintenanceAssumption
  DEF OpenLocked, history, KeepInv, ErasureInv, MaintenanceTypeOK, UnderWayInv
<1>25. ASSUME NEW p \in Papers, StoreOpened(p) PROVE ErasureInv'
  BY <1>25, MaintenanceAssumption
  DEF StoreOpened, history, KeepInv, ErasureInv, MaintenanceTypeOK, UnderWayInv
<1>26. ASSUME NEW p \in Papers, EndUnlock(p) PROVE ErasureInv'
  BY <1>26, MaintenanceAssumption
  DEF EndUnlock, history, KeepInv, ErasureInv, MaintenanceTypeOK, UnderWayInv
<1>. QED
  BY <1>1, <1>2, <1>3, <1>4, <1>5, <1>6, <1>7, <1>8, <1>9, <1>10, <1>11, <1>12, <1>13,
     <1>14, <1>15, <1>16, <1>17, <1>18, <1>19, <1>20, <1>21, <1>22, <1>23, <1>24,
     <1>25, <1>26
  DEF MaintenanceNext, UserStep, TaskStep

\* Every step keeps the invariant of the maintenance.
LEMMA KeepStep == KeepInv /\ [MaintenanceNext]_maintVars => KeepInv'
  BY TypeKept, UnderWayKept, SettledKept, SweepKept, ReconKept, ErasureKept DEF KeepInv

\* The invariant of the maintenance holds in every behaviour.
LEMMA AlwaysKept == MaintenanceSpec => []KeepInv
<1>1. MaintenanceInit => KeepInv
  BY KeepInit
<1>2. KeepInv /\ [MaintenanceNext]_maintVars => KeepInv'
  BY KeepStep
<1>. QED  BY <1>1, <1>2, PTL DEF MaintenanceSpec

\* Every variable keeps its type, and no row outlives its tenant.
THEOREM MaintenanceTypeCorrect == MaintenanceSpec => []MaintenanceTypeOK
<1>1. KeepInv => MaintenanceTypeOK
  BY DEF KeepInv
<1>. QED  BY <1>1, AlwaysKept, PTL

\* However the sweep, the reconciliation and the erasures cross uploads and
\* deletes, and wherever they are cut, a visible statement keeps its file.
THEOREM FilesSurvive == MaintenanceSpec => []SettledFilesSurvive
<1>1. KeepInv => SettledFilesSurvive
  BY DEF KeepInv
<1>. QED  BY <1>1, AlwaysKept, PTL

\* However often an erasure is cut and taken up again, once the tenant is gone
\* nothing its last run had read is left, but for what the store refused and
\* what an unlock put back.
THEOREM ErasedIsEmptied == MaintenanceSpec => []ErasureLeavesNothingKnown
<1>1. KeepInv => ErasureLeavesNothingKnown
  BY DEF KeepInv, ErasureInv, ErasureLeavesNothingKnown, OwnedBy
<1>. QED  BY <1>1, AlwaysKept, PTL

-----------------------------------------------------------------------------
(* The progress stream *)

\* Every stamp is handed out once: the events in hand are not in the history,
\* and no two runs hold the same.
InHand(r) == run[r].pc \in {"stamped", "published"}

StampInv ==
    /\ \A e \in events : e.at > 0
    /\ \A r \in Runs : InHand(r) =>
         /\ 0 < run[r].at /\ run[r].at <= clock
         /\ \A e \in events : e.at # run[r].at
    /\ \A r, q \in Runs : InHand(r) /\ InHand(q) /\ r # q => run[r].at # run[q].at

\* The list of failures keeps its type and its bound.
LEMMA FaultKept ==
    ASSUME FaultsOK, ConstantsAssumption, NEW kind, Fault(kind)
    PROVE  FaultsOK'
  <1>1. kind \in FaultKinds /\ faults' = Append(faults, kind) /\ Len(faults) < MaxFaults
    BY DEF Fault
  <1>2. faults' \in Seq(FaultKinds) /\ Len(faults') = Len(faults) + 1 /\ Len(faults) \in Nat
    BY <1>1 DEF FaultsOK
  <1> QED
    BY <1>1, <1>2 DEF FaultsOK, ConstantsAssumption

\* An event published is an event, and the channel keeps its type.
LEMMA PublishType ==
    ASSUME TypeOK, ConstantsAssumption, NEW e \in Event, Publish(e)
    PROVE  channel' \in Seq(Event) /\ offered' \subseteq Event /\ FaultsOK'
  <1>1. channel \in Seq(Event) /\ offered \subseteq Event /\ FaultsOK
    BY DEF TypeOK
  <1>2. Append(channel, e) \in Seq(Event)
    BY <1>1
  <1>3. CASE /\ channel' = IF Listening THEN Append(channel, e) ELSE channel
             /\ offered' \subseteq offered \union {e}
             /\ UNCHANGED faults
    BY <1>1, <1>2, <1>3 DEF FaultsOK
  <1>4. CASE Fault("redis") /\ UNCHANGED <<channel, offered>>
    BY <1>1, <1>4, FaultKept
  <1> QED
    BY <1>3, <1>4 DEF Publish

\* The initial state.
LEMMA StreamInit == ConstantsAssumption /\ Init => TypeOK /\ StampInv
  BY DEF Init, ConstantsAssumption, TypeOK, StampInv, InHand, Queued, Event, State,
         ProgressStates, TerminalStates, Run, Stream, FaultsOK

\* A run with something left has a state to emit and a rest.
LEMMA HeadOfLeft ==
    ASSUME TypeOK, NEW r \in Runs, run[r].left # <<>>
    PROVE  Head(run[r].left) \in State /\ Tail(run[r].left) \in Seq(State)
  BY DEF TypeOK, Run

\* The head of what is left is published under a stamp: an event.
LEMMA EventInHand ==
    ASSUME TypeOK, NEW r \in Runs, run[r].left # <<>>, NEW at \in Nat
    PROVE  [at |-> at, state |-> Head(run[r].left)] \in Event
  BY HeadOfLeft DEF Event

\* The head of the channel is an event, the rest is a channel.
LEMMA HeadOfChannel ==
    ASSUME TypeOK, channel # <<>>
    PROVE  Head(channel) \in Event /\ Tail(channel) \in Seq(Event)
  BY DEF TypeOK

\* What is left of TypeOK when the runs and the stream are set aside.
RestOK ==
    /\ clock \in Nat
    /\ events \subseteq Event
    /\ channel \in Seq(Event)
    /\ offered \subseteq Event
    /\ FaultsOK
    /\ \A e, f \in events : e.at = f.at => e = f
    /\ \A e \in events : e.at <= clock

\* One run moves, the history as it was: the stamp it holds, if any, must be
\* new.
LEMMA RunMoves ==
    ASSUME TypeOK, StampInv, NEW r \in Runs, RestOK',
           run' \in [Runs -> Run], \A q \in Runs : q # r => run'[q] = run[q],
           run'[r].pc \in {"ready", "stamped", "published"} => run'[r].left # <<>>,
           clock <= clock', UNCHANGED <<events, stream>>,
           run'[r].pc \in {"stamped", "published"} =>
             /\ 0 < run'[r].at /\ run'[r].at <= clock'
             /\ \A e \in events : e.at # run'[r].at
             /\ \A q \in Runs : InHand(q) /\ q # r => run[q].at # run'[r].at
    PROVE  TypeOK' /\ StampInv'
  <1>1. TypeOK'
    BY DEF TypeOK, RestOK
  <1>2. clock \in Nat /\ clock' \in Nat /\ \A q \in Runs : run[q].at \in Nat
    BY DEF TypeOK, RestOK, Run
  <1>3. StampInv'
    BY <1>2 DEF StampInv, InHand
  <1> QED
    BY <1>1, <1>3

\* Types and stamps are kept by every step of a run.
LEMMA RunKeepsTypes ==
    ASSUME TypeOK, StampInv, ConstantsAssumption, NEW r \in Runs, RunStep(r) \/ Fail(r)
    PROVE  TypeOK' /\ StampInv'
  <1> USE DEF Run
  <1>0. run \in [Runs -> Run] /\ run[r] \in Run
    BY DEF TypeOK
  <1>1. CASE Deliver(r)
    <2>1. PICK script \in Scripts :
            run' = [run EXCEPT ![r].pc = "ready", ![r].left = script]
      BY <1>1 DEF Deliver
    <2>2. script \in Seq(State) /\ script # <<>>
      BY DEF ConstantsAssumption
    <2>3. /\ run' \in [Runs -> Run] /\ \A q \in Runs : q # r => run'[q] = run[q]
          /\ run'[r].pc = "ready" /\ run'[r].left = script
      BY <1>0, <2>1, <2>2
    <2>4. RestOK' /\ clock <= clock' /\ UNCHANGED <<events, stream>>
      BY <1>1 DEF Deliver, TypeOK, RestOK, FaultsOK
    <2> QED
      BY <2>2, <2>3, <2>4, RunMoves
  <1>2. CASE Stamp(r)
    <2>1. clock \in Nat /\ \A e \in events : e.at \in Nat /\ e.at <= clock
      BY DEF TypeOK, Event
    <2>0. Now \in Nat /\ Now = clock + 1
      BY <2>1 DEF Now
    <2>2. /\ run' \in [Runs -> Run] /\ \A q \in Runs : q # r => run'[q] = run[q]
          /\ run'[r].left = run[r].left /\ run'[r].at = Now
      BY <1>0, <1>2, <2>0 DEF Stamp
    <2>3. run[r].left # <<>>
      BY <1>2 DEF Stamp, TypeOK
    <2>4. RestOK' /\ clock <= clock' /\ UNCHANGED <<events, stream>> /\ clock' = clock + 1
      BY <1>2, <2>1 DEF Stamp, Now, TypeOK, RestOK, FaultsOK
    <2>5. /\ 0 < clock + 1
          /\ \A e \in events : e.at # clock + 1
          /\ \A q \in Runs : InHand(q) => run[q].at # clock + 1
      BY <1>0, <2>1 DEF StampInv
    <2> QED
      BY <2>0, <2>2, <2>3, <2>4, <2>5, RunMoves
  <1>3. CASE Emit(r)
    <2>1. run[r].left # <<>> /\ run[r].at \in Nat
      BY <1>0, <1>3 DEF Emit, TypeOK
    <2>2. /\ run' \in [Runs -> Run] /\ \A q \in Runs : q # r => run'[q] = run[q]
          /\ run'[r].left = run[r].left /\ run'[r].at = run[r].at
      BY <1>0, <1>3 DEF Emit
    <2>3. channel' \in Seq(Event) /\ offered' \subseteq Event /\ FaultsOK'
      BY <1>3, <2>1, EventInHand, PublishType DEF Emit
    <2>4. RestOK' /\ clock <= clock' /\ UNCHANGED <<events, stream>>
      BY <1>3, <2>3 DEF Emit, TypeOK, RestOK
    <2>5. /\ 0 < run[r].at /\ run[r].at <= clock'
          /\ \A e \in events : e.at # run[r].at
          /\ \A q \in Runs : InHand(q) /\ q # r => run[q].at # run[r].at
      BY <1>3 DEF Emit, StampInv, InHand
    <2> QED
      BY <2>1, <2>2, <2>4, <2>5, RunMoves
  <1>4. CASE Finish(r)
    <2>1. clock \in Nat /\ \A e \in events : e.at \in Nat /\ e.at <= clock
      BY DEF TypeOK, Event
    <2>0. Now \in Nat /\ Now = clock + 1
      BY <2>1 DEF Now
    <2>2. /\ run' \in [Runs -> Run] /\ \A q \in Runs : q # r => run'[q] = run[q]
          /\ run'[r].left = run[r].left /\ run'[r].at = Now
      BY <1>0, <1>4, <2>0 DEF Finish
    <2>3. run[r].left # <<>>
      BY <1>4 DEF Finish, TypeOK
    <2>4. channel' \in Seq(Event) /\ offered' \subseteq Event /\ FaultsOK'
      BY <1>4, <2>1, <2>3, EventInHand, PublishType DEF Finish, Now
    <2>5. RestOK' /\ clock <= clock' /\ UNCHANGED <<events, stream>> /\ clock' = clock + 1
      BY <1>4, <2>1, <2>4 DEF Finish, Now, TypeOK, RestOK
    <2>6. /\ 0 < clock + 1
          /\ \A e \in events : e.at # clock + 1
          /\ \A q \in Runs : InHand(q) => run[q].at # clock + 1
      BY <1>0, <2>1 DEF StampInv
    <2> QED
      BY <2>0, <2>2, <2>3, <2>5, <2>6, RunMoves
  <1>5. CASE Commit(r)
    <2>1. Head(run[r].left) \in State /\ Tail(run[r].left) \in Seq(State)
      BY <1>5, HeadOfLeft DEF Commit, TypeOK
    <2> QED
      BY <1>5, <2>1 DEF Commit, TypeOK, StampInv, InHand, Run, Event, FaultsOK
  <1>6. CASE Fail(r)
    <2>1. PICK script \in Scripts \union {<<"failed">>} :
            run' = [run EXCEPT ![r] = [pc |-> "ready", left |-> script, at |-> 0]]
      BY <1>6 DEF Fail
    <2>2. "failed" \in State
      BY DEF State, TerminalStates
    <2>3. <<"failed">> \in Seq(State) /\ <<"failed">> # <<>>
      BY <2>2
    <2>4. script \in Seq(State) /\ script # <<>>
      BY <2>3 DEF ConstantsAssumption
    <2>5. /\ run' \in [Runs -> Run] /\ \A q \in Runs : q # r => run'[q] = run[q]
          /\ run'[r].pc = "ready" /\ run'[r].left = script
      BY <1>0, <2>1, <2>4
    <2>0. FaultsOK'
      BY <1>6, FaultKept DEF Fail, TypeOK
    <2>6. RestOK' /\ clock <= clock' /\ UNCHANGED <<events, stream>>
      BY <1>6, <2>0 DEF Fail, TypeOK, RestOK
    <2> QED
      BY <2>4, <2>5, <2>6, RunMoves
  <1> QED
    BY <1>1, <1>2, <1>3, <1>4, <1>5, <1>6 DEF RunStep

\* A well-formed stream beside runs and a history that do not move.
LEMMA StreamMoves ==
    ASSUME TypeOK, StampInv, UNCHANGED <<clock, events, run, offered>>,
           stream' \in Stream, channel' \in Seq(Event), FaultsOK'
    PROVE  TypeOK' /\ StampInv'
  BY DEF TypeOK, StampInv, InHand

\* To show an event leaves a well-formed stream.
LEMMA ShowType ==
    ASSUME TypeOK, NEW e \in Event
    PROVE  Show(e) \in Stream
  <1>1. Append(stream.shown, e) \in Seq(Event) /\ e.at \in Nat
    BY DEF TypeOK, Stream, Event
  <1> QED
    BY <1>1 DEF Show, TypeOK, Stream

\* Types and stamps are kept by every step of the stream.
LEMMA StreamKeepsTypes ==
    ASSUME TypeOK, StampInv, ConstantsAssumption, Subscribe \/ StreamStep \/ Close
    PROVE  TypeOK' /\ StampInv'
  <1>0. stream \in Stream /\ channel \in Seq(Event) /\ FaultsOK
    BY DEF TypeOK
  <1>1. CASE Subscribe
    BY <1>0, <1>1, StreamMoves DEF Subscribe, Stream, FaultsOK
  <1>2. CASE ReadHistory
    BY <1>0, <1>2, StreamMoves DEF ReadHistory, Stream, TypeOK, FaultsOK
  <1>3. CASE \E e \in stream.todo : Replay(e)
    <2>1. PICK e \in stream.todo : Replay(e)
      BY <1>3
    <2>2. e \in Event /\ stream.todo \subseteq Event
      BY <1>0 DEF Stream
    <2>3. Show(e) \in Stream
      BY <2>2, ShowType
    <2>4. stream' \in Stream
      BY <2>1, <2>2, <2>3 DEF Replay, Show, Ends, Stream
    <2>5. channel' \in Seq(Event)
      BY <1>0, <2>1 DEF Replay
    <2> QED
      BY <1>0, <2>1, <2>4, <2>5, StreamMoves DEF Replay, FaultsOK
  <1>4. CASE Receive
    <2> DEFINE e == Head(channel)
    <2>1. e \in Event /\ Tail(channel) \in Seq(Event)
      BY <1>4, HeadOfChannel DEF Receive
    <2>2. Show(e) \in Stream
      BY <2>1, ShowType
    <2>3. channel' \in Seq(Event)
      BY <1>4, <2>1 DEF Receive
    <2>4. CASE Covered(e)
      BY <1>0, <1>4, <2>3, <2>4, StreamMoves DEF Receive, FaultsOK
    <2>5. CASE ~Covered(e)
      <3>1. stream' \in Stream
        BY <1>4, <2>2, <2>5 DEF Receive, Ends, Stream
      <3> QED
        BY <1>0, <1>4, <2>3, <3>1, StreamMoves DEF Receive, FaultsOK
    <2> QED
      BY <2>4, <2>5
  <1>5. CASE Close
    <2>1. <<>> \in Seq(Event)
      OBVIOUS
    <2>2. FaultsOK'
      BY <1>0, <1>5, FaultKept DEF Close
    <2> QED
      BY <1>0, <1>5, <2>1, <2>2, StreamMoves DEF Close, Stream
  <1> QED
    BY <1>1, <1>2, <1>3, <1>4, <1>5 DEF StreamStep

\* Types and stamps are invariant.
LEMMA StreamTypes == Spec => [](TypeOK /\ StampInv)
  <1>1. TypeOK /\ StampInv /\ [Next]_vars => (TypeOK /\ StampInv)'
    <2> SUFFICES ASSUME TypeOK, StampInv, [Next]_vars PROVE TypeOK' /\ StampInv'
      OBVIOUS
    <2>1. CASE \E r \in Runs : RunStep(r) \/ Fail(r)
      BY <2>1, RunKeepsTypes, ConstantsAssumption
    <2>2. CASE Subscribe \/ StreamStep \/ Close
      BY <2>2, StreamKeepsTypes, ConstantsAssumption
    <2>3. CASE UNCHANGED vars
      BY <2>3 DEF vars, TypeOK, StampInv, InHand, FaultsOK
    <2> QED
      BY <2>1, <2>2, <2>3 DEF Next
  <1> QED
    BY <1>1, StreamInit, ConstantsAssumption, PTL DEF Spec

\* Every variable keeps its type; a stamp names one committed event and the
\* clock is never behind one.
THEOREM StreamTypeCorrect == Spec => []TypeOK
  BY StreamTypes, PTL

\* seen is the stamp of the last event shown, and what is still to be
\* replayed is newer.
OrderInv ==
    /\ InOrder
    /\ \A i \in DOMAIN stream.shown : stream.shown[i].at <= stream.seen
    /\ stream.pc \in {"new", "subscribed"} => stream.seen = 0
    /\ stream.todo \subseteq events
    /\ stream.pc # "replaying" => stream.todo = {} \/ stream.pc = "closed"
    /\ stream.pc = "replaying" => \A e \in stream.todo : e.at > stream.seen

\* Showing a newer event keeps the order.
LEMMA ShowKeepsOrder ==
    ASSUME TypeOK, OrderInv, NEW e \in Event, e.at > stream.seen,
           stream'.shown = Append(stream.shown, e), stream'.seen = e.at
    PROVE  /\ InOrder'
           /\ \A i \in DOMAIN stream'.shown : stream'.shown[i].at <= stream'.seen
  <1>1. stream.shown \in Seq(Event) /\ stream.seen \in Nat /\ e.at \in Nat
    BY DEF TypeOK, Stream, Event
  <1>2. /\ Len(stream'.shown) = Len(stream.shown) + 1
        /\ DOMAIN stream'.shown = 1..(Len(stream.shown) + 1)
        /\ stream'.shown[Len(stream.shown) + 1] = e
        /\ \A i \in 1..Len(stream.shown) : stream'.shown[i] = stream.shown[i]
    BY <1>1
  <1>3. \A i \in 1..Len(stream.shown) : stream.shown[i].at \in Nat
    <2>1. \A i \in 1..Len(stream.shown) : stream.shown[i] \in Event
      BY <1>1
    <2> QED
      BY <2>1 DEF Event
  <1>4. \A i \in 1..Len(stream.shown) : stream.shown[i].at < e.at
    BY <1>1, <1>3 DEF OrderInv
  <1>5. ASSUME NEW i \in DOMAIN stream'.shown, NEW k \in DOMAIN stream'.shown, i < k
        PROVE  stream'.shown[i].at < stream'.shown[k].at
    <2>1. i \in 1..Len(stream.shown)
      BY <1>1, <1>2, <1>5
    <2>2. CASE k = Len(stream.shown) + 1
      BY <1>2, <1>4, <2>1, <2>2
    <2>3. CASE k \in 1..Len(stream.shown)
      BY <1>1, <1>2, <1>5, <2>1, <2>3 DEF OrderInv, InOrder
    <2> QED
      BY <1>1, <1>2, <2>2, <2>3
  <1> QED
    BY <1>1, <1>2, <1>3, <1>4, <1>5 DEF InOrder

\* Steps of the runs leave the stream alone and only add to the history.
LEMMA RunsLeaveStream ==
    ASSUME NEW r \in Runs, RunStep(r) \/ Fail(r)
    PROVE  UNCHANGED stream /\ events \subseteq events'
  BY DEF RunStep, Fail, Deliver, Stamp, Emit, Finish, Commit

\* OrderInv is inductive, given the types and the stamps.
LEMMA OrderStep ==
    ASSUME TypeOK, StampInv, OrderInv, Next
    PROVE  OrderInv'
  <1>1. CASE \E r \in Runs : RunStep(r) \/ Fail(r)
    <2>1. UNCHANGED stream /\ events \subseteq events'
      BY <1>1, RunsLeaveStream
    <2> QED
      BY <2>1 DEF OrderInv, InOrder
  <1>2. CASE Subscribe
    BY <1>2 DEF Subscribe, TypeOK, Stream, OrderInv, InOrder
  <1>3. CASE ReadHistory
    BY <1>3 DEF ReadHistory, TypeOK, Stream, OrderInv, InOrder, StampInv
  <1>4. CASE \E e \in stream.todo : Replay(e)
    <2>1. PICK e \in stream.todo : Replay(e)
      BY <1>4
    <2>2. e \in Event /\ e \in events /\ e.at > stream.seen
      BY <2>1 DEF Replay, TypeOK, OrderInv
    <2>3. stream'.shown = Append(stream.shown, e) /\ stream'.seen = e.at
          /\ stream'.todo = stream.todo \ {e} /\ events' = events
          /\ stream'.pc = (IF stream.todo = {e} /\ Ends(e) THEN "closed"
                           ELSE IF stream.todo = {e} THEN "live" ELSE "replaying")
      BY <2>1 DEF Replay, Show, TypeOK, Stream
    <2>4. /\ InOrder'
          /\ \A i \in DOMAIN stream'.shown : stream'.shown[i].at <= stream'.seen
      BY <2>2, <2>3, ShowKeepsOrder
    <2>5. \A f \in stream'.todo : f.at > stream'.seen
      BY <2>1, <2>2, <2>3 DEF Replay, TypeOK, OrderInv, Event
    <2> QED
      BY <2>2, <2>3, <2>4, <2>5 DEF OrderInv
  <1>5. CASE Receive
    <2>1. CASE Covered(Head(channel))
      BY <1>5, <2>1 DEF Receive, OrderInv, InOrder
    <2>2. CASE ~Covered(Head(channel))
      <3> DEFINE e == Head(channel)
      <3>0. e \in Event
        BY <1>5, HeadOfChannel DEF Receive
      <3>1. e \in Event /\ e.at > stream.seen
        BY <2>2, <3>0 DEF Covered, TypeOK, Stream, Event
      <3>2. stream'.shown = Append(stream.shown, e) /\ stream'.seen = e.at
            /\ stream'.todo = stream.todo /\ events' = events
            /\ stream.pc = "live" /\ stream'.pc \in {"closed", "live"}
        BY <1>5, <2>2 DEF Receive, Show, TypeOK, Stream
      <3>3. /\ InOrder'
            /\ \A i \in DOMAIN stream'.shown : stream'.shown[i].at <= stream'.seen
        BY <3>1, <3>2, ShowKeepsOrder
      <3> QED
        BY <3>2, <3>3 DEF OrderInv
    <2> QED
      BY <2>1, <2>2
  <1>6. CASE Close
    BY <1>6 DEF Close, TypeOK, Stream, OrderInv, InOrder
  <1> QED
    BY <1>1, <1>2, <1>3, <1>4, <1>5, <1>6 DEF Next, StreamStep

\* What a stream shows is in the order of the stamps, and shown once.
THEOREM ShownInOrder == Spec => []InOrder
  <1>1. Init => OrderInv
    BY DEF Init, OrderInv, InOrder
  <1>2. TypeOK /\ StampInv /\ OrderInv /\ [Next]_vars => OrderInv'
    <2>1. UNCHANGED vars /\ OrderInv => OrderInv'
      BY DEF vars, OrderInv, InOrder
    <2> QED
      BY <2>1, OrderStep
  <1>3. OrderInv => InOrder
    BY DEF OrderInv
  <1> QED
    BY <1>1, <1>2, <1>3, StreamTypes, PTL DEF Spec

\* NeverBehind, from the subscription on.
KeepsUp(e) == e.at <= stream.seen \/ \E i \in DOMAIN channel : channel[i] = e

UpInv ==
    /\ stream.pc = "new" => offered = {}
    /\ stream.pc \in {"subscribed", "replaying", "live"} => \A e \in offered : KeepsUp(e)

\* What is published reaches the channel of a stream that is open.
LEMMA PublishKeepsUp ==
    ASSUME TypeOK, UpInv, NEW e \in Event, Publish(e), UNCHANGED stream
    PROVE  UpInv'
  <1>1. CASE UNCHANGED <<channel, offered>>
    BY <1>1 DEF UpInv, KeepsUp
  <1>2. CASE stream.pc \in {"new", "closed"}
    BY <1>2 DEF UpInv, KeepsUp, Publish
  <1>3. CASE stream.pc \in {"subscribed", "replaying", "live"}
             /\ channel' = Append(channel, e) /\ offered' = offered \union {e}
    <2>1. channel \in Seq(Event)
      BY DEF TypeOK
    <2>2. /\ \A i \in DOMAIN channel : i \in DOMAIN channel' /\ channel'[i] = channel[i]
          /\ Len(channel) + 1 \in DOMAIN channel' /\ channel'[Len(channel) + 1] = e
      BY <1>3, <2>1
    <2> QED
      BY <1>3, <2>2 DEF UpInv, KeepsUp
  <1> QED
    BY <1>1, <1>2, <1>3 DEF Publish, Listening, TypeOK, Stream

\* UpInv is inductive, given the types and the order.
LEMMA UpStep ==
    ASSUME TypeOK, OrderInv, UpInv, Next
    PROVE  UpInv'
  <1>1. CASE \E r \in Runs : Emit(r)
    <2>1. PICK r \in Runs : Emit(r)
      BY <1>1
    <2>2. [at |-> run[r].at, state |-> Head(run[r].left)] \in Event
      BY <2>1, HeadOfLeft DEF Emit, TypeOK, Run, Event
    <2> QED
      BY <2>1, <2>2, PublishKeepsUp DEF Emit
  <1>2. CASE \E r \in Runs : Finish(r)
    <2>1. PICK r \in Runs : Finish(r)
      BY <1>2
    <2>2. [at |-> Now, state |-> Head(run[r].left)] \in Event
      BY <2>1, HeadOfLeft DEF Finish, Now, TypeOK, Run, Event
    <2> QED
      BY <2>1, <2>2, PublishKeepsUp DEF Finish
  <1>3. CASE \E r \in Runs : Deliver(r) \/ Stamp(r) \/ Commit(r) \/ Fail(r)
    BY <1>3 DEF Deliver, Stamp, Commit, Fail, UpInv, KeepsUp
  <1>4. CASE Subscribe
    BY <1>4 DEF Subscribe, UpInv, KeepsUp, TypeOK, Stream
  <1>5. CASE ReadHistory
    BY <1>5 DEF ReadHistory, UpInv, KeepsUp, TypeOK, Stream
  <1>6. CASE \E e \in stream.todo : Replay(e)
    <2>1. PICK e \in stream.todo : Replay(e)
      BY <1>6
    <2>2. /\ e.at \in Nat /\ stream.seen \in Nat /\ stream.seen < e.at
          /\ stream'.seen = e.at /\ offered' = offered
          /\ stream.pc = "replaying"
          /\ stream'.pc = "closed" \/ (stream'.pc \in {"live", "replaying"} /\ channel' = channel)
      BY <2>1 DEF Replay, Show, OrderInv, TypeOK, Stream, Event
    <2> QED
      BY <2>2 DEF UpInv, KeepsUp, TypeOK, Event
  <1>7. CASE Receive
    <2> DEFINE e == Head(channel)
    <2>1. /\ channel \in Seq(Event) /\ channel # <<>> /\ e \in Event
          /\ stream.seen \in Nat /\ stream'.seen \in Nat /\ offered' = offered
          /\ stream.seen <= stream'.seen /\ e.at <= stream'.seen /\ stream.pc = "live"
          /\ stream'.pc = "closed" \/ (stream'.pc = "live" /\ channel' = Tail(channel))
      <3>1. e \in Event /\ channel \in Seq(Event) /\ channel # <<>>
        BY <1>7, HeadOfChannel DEF Receive, TypeOK
      <3>2. e.at \in Nat /\ stream.seen \in Nat /\ stream \in Stream
        BY <3>1 DEF Event, Stream, TypeOK
      <3> HIDE DEF e
      <3>3. CASE Covered(e)
        BY <1>7, <3>1, <3>2, <3>3 DEF Receive, Covered, e
      <3>4. CASE ~Covered(e)
        BY <1>7, <3>1, <3>2, <3>4 DEF Receive, Show, Covered, Stream, e
      <3> QED
        BY <3>3, <3>4
    <2>2. ASSUME NEW f \in offered', stream'.pc = "live" PROVE KeepsUp(f)'
      <3>1. f.at \in Nat /\ KeepsUp(f)
        BY <2>1, <2>2 DEF UpInv, TypeOK, Event
      <3>2. CASE f.at <= stream.seen
        BY <2>1, <3>1, <3>2 DEF KeepsUp
      <3>3. CASE \E i \in DOMAIN channel : channel[i] = f
        <4>1. PICK i \in DOMAIN channel : channel[i] = f
          BY <3>3
        <4>2. CASE i = 1
          BY <2>1, <4>1, <4>2 DEF KeepsUp
        <4>3. CASE i # 1
          <5>1. i - 1 \in DOMAIN Tail(channel) /\ Tail(channel)[i - 1] = f
            BY <2>1, <4>1, <4>3
          <5> QED
            BY <2>1, <2>2, <5>1 DEF KeepsUp
        <4> QED
          BY <4>2, <4>3
      <3> QED
        BY <3>1, <3>2, <3>3 DEF KeepsUp
    <2> QED
      BY <2>1, <2>2 DEF UpInv
  <1>8. CASE Close
    BY <1>8 DEF Close, UpInv, TypeOK, Stream
  <1> QED
    BY <1>1, <1>2, <1>3, <1>4, <1>5, <1>6, <1>7, <1>8 DEF Next, RunStep, StreamStep

\* A live stream is never behind what was published since it was opened.
THEOREM LiveKeepsUp == Spec => []NeverBehind
  <1>1. Init => OrderInv /\ UpInv
    BY DEF Init, OrderInv, InOrder, UpInv
  <1>2. TypeOK /\ StampInv /\ OrderInv /\ UpInv /\ [Next]_vars => (OrderInv /\ UpInv)'
    <2>1. UNCHANGED vars /\ OrderInv /\ UpInv => (OrderInv /\ UpInv)'
      BY DEF vars, OrderInv, InOrder, UpInv, KeepsUp
    <2> QED
      BY <2>1, OrderStep, UpStep
  <1>3. UpInv => NeverBehind
    BY DEF UpInv, KeepsUp, NeverBehind
  <1> QED
    BY <1>1, <1>2, <1>3, StreamTypes, PTL DEF Spec

-----------------------------------------------------------------------------
(* Enrolment *)

\* What each row knows of the identity it was made for.
RowInv ==
    /\ \A a \in Accounts : account[a].subject # Nobody =>
            account[a].email = EmailOf[account[a].subject]
    /\ \A a, b \in Here : account[a].email = account[b].email => a = b

\* What each request under way knows of who sent it, and of what it has found.
FormInv == \A f \in Forms :
    /\ form[f].pc # "free" => form[f].email \in Emails
    /\ form[f].subject # Nobody => form[f].email = EmailOf[form[f].subject]
    /\ form[f].pc \in {"google", "create", "enter"} => form[f].subject # Nobody
    /\ form[f].pc = "enter" => /\ form[f].found \in Accounts
                               /\ account[form[f].found].state # "unborn"
                               /\ account[form[f].found].subject = form[f].subject

\* A session once granted is of an account that was made for it.
GrantInv == \A g \in granted :
    /\ account[g.account].state # "unborn"
    /\ account[g.account].email = g.email
    /\ account[g.account].subject = g.subject

OwnInv == EnrolmentTypeOK /\ RowInv /\ FormInv /\ GrantInv

\* At the start nobody is registered and no form is open.
LEMMA OwnInit == EnrolmentInit => OwnInv
  BY DEF EnrolmentInit, OwnInv, EnrolmentTypeOK, RowInv, FormInv, GrantInv,
         AccountRow, Form, FreeForm, Here

\* An insert leaves every other row alone, and its row had no reader yet.
LEMMA InsertKeeps ==
  ASSUME OwnInv, NEW a \in Accounts, NEW e \in Emails, NEW s \in Subjects \cup {Nobody},
         s # Nobody => e = EmailOf[s], Insert(a, e, s)
  PROVE  /\ account' \in [Accounts -> AccountRow]
         /\ \A b \in Here' : account'[b].email # Nobody
         /\ RowInv'
         /\ \A b \in Accounts : account[b].state # "unborn" => account'[b] = account[b]
         /\ account'[a] = [state |-> "here", email |-> e, subject |-> s]
<1>. USE EnrolmentAssumption
<1>1. /\ account[a].state = "unborn" /\ ByEmail(e) = {}
      /\ account' = [account EXCEPT ![a] = [state |-> "here", email |-> e, subject |-> s]]
      /\ account \in [Accounts -> AccountRow]
  BY DEF Insert, Admissible, OwnInv, EnrolmentTypeOK
<1>2. account'[a] = [state |-> "here", email |-> e, subject |-> s]
  BY <1>1
<1>3. account' \in [Accounts -> AccountRow]
  BY <1>1 DEF AccountRow
<1>4. \A b \in Accounts : b # a => account'[b] = account[b]
  BY <1>1
<1>5. Here' = Here \cup {a}
  BY <1>1, <1>2, <1>4 DEF Here
<1>6. \A b \in Here : account[b].email # e
  BY <1>1 DEF ByEmail
<1>7. \A b \in Here' : account'[b].email # Nobody
  BY <1>2, <1>4, <1>5 DEF OwnInv, EnrolmentTypeOK, Here
<1>8. RowInv'
  <2>1. \A b \in Accounts : account'[b].subject # Nobody =>
            account'[b].email = EmailOf[account'[b].subject]
    BY <1>2, <1>4 DEF OwnInv, RowInv
  <2>2. ASSUME NEW b \in Here', NEW c \in Here', account'[b].email = account'[c].email
        PROVE  b = c
    BY <2>2, <1>2, <1>4, <1>5, <1>6 DEF OwnInv, RowInv, Here
  <2>. QED  BY <2>1, <2>2 DEF RowInv
<1>. QED  BY <1>1, <1>2, <1>3, <1>4, <1>7, <1>8

\* A request replaced by one that keeps to what is known of it.
LEMMA FormReplaced ==
  ASSUME OwnInv, NEW f \in Forms, NEW q \in Form, form' = [form EXCEPT ![f] = q],
         UNCHANGED <<account, granted>>,
         q.pc \in {"register", "google"}, q.email \in Emails,
         q.subject # Nobody => q.email = EmailOf[q.subject],
         q.pc = "google" => q.subject # Nobody
  PROVE  OwnInv'
<1>1. /\ form' \in [Forms -> Form] /\ form'[f] = q
      /\ \A g \in Forms \ {f} : form'[g] = form[g]
  BY DEF OwnInv, EnrolmentTypeOK
<1>2. EnrolmentTypeOK' /\ RowInv' /\ GrantInv'
  BY <1>1 DEF OwnInv, EnrolmentTypeOK, RowInv, GrantInv, Here
<1>3. ASSUME NEW g \in Forms
      PROVE  /\ form'[g].pc # "free" => form'[g].email \in Emails
             /\ form'[g].subject # Nobody => form'[g].email = EmailOf[form'[g].subject]
             /\ form'[g].pc \in {"google", "create", "enter"} => form'[g].subject # Nobody
             /\ form'[g].pc = "enter" =>
                  /\ form'[g].found \in Accounts
                  /\ account'[form'[g].found].state # "unborn"
                  /\ account'[form'[g].found].subject = form'[g].subject
  <2>1. CASE g = f
    BY <1>1, <2>1
  <2>2. CASE g # f
    BY <1>1, <2>2 DEF OwnInv, FormInv
  <2>. QED  BY <2>1, <2>2
<1>. QED  BY <1>2, <1>3 DEF OwnInv, FormInv

\* Every step keeps what is known of rows, requests and sessions.
LEMMA OwnStep == OwnInv /\ [EnrolmentNext]_enrolmentVars => OwnInv'
<1>. SUFFICES ASSUME OwnInv, [EnrolmentNext]_enrolmentVars PROVE OwnInv'
  OBVIOUS
<1>. USE EnrolmentAssumption DEF OwnInv
<1>1. ASSUME NEW f \in Forms, NEW e \in Emails, Register(f, e) PROVE OwnInv'
  <2>. DEFINE q == [FreeForm EXCEPT !.pc = "register", !.email = e]
  <2>1. form' = [form EXCEPT ![f] = q] /\ account' = account /\ granted' = granted
    BY <1>1 DEF Register
  <2>2. /\ q \in Form /\ q.pc = "register" /\ q.email = e /\ q.subject = Nobody
    BY DEF Form, FreeForm
  <2>. HIDE DEF q
  <2>. QED  BY <2>1, <2>2, FormReplaced
<1>2. ASSUME NEW f \in Forms, NEW s \in Subjects, GoogleReturns(f, s) PROVE OwnInv'
  <2>. DEFINE q == [FreeForm EXCEPT !.pc = "google", !.subject = s, !.email = EmailOf[s]]
  <2>1. form' = [form EXCEPT ![f] = q] /\ account' = account /\ granted' = granted
    BY <1>2 DEF GoogleReturns
  <2>2. /\ q \in Form /\ q.pc = "google" /\ q.email = EmailOf[s] /\ q.subject = s
        /\ s # Nobody /\ EmailOf[s] \in Emails
    BY DEF Form, FreeForm
  <2>. HIDE DEF q
  <2>. QED  BY <2>1, <2>2, FormReplaced
<1>3. ASSUME NEW f \in Forms, NEW a \in Accounts, RegisterCommit(f, a) PROVE OwnInv'
  <2>. DEFINE e == form[f].email
  <2>1. e \in Emails /\ Insert(a, e, Nobody)
    BY <1>3 DEF RegisterCommit, FormInv
  <2>2. /\ account' \in [Accounts -> AccountRow]
        /\ \A b \in Here' : account'[b].email # Nobody
        /\ RowInv'
        /\ \A b \in Accounts : account[b].state # "unborn" => account'[b] = account[b]
        /\ account'[a] = [state |-> "here", email |-> e, subject |-> Nobody]
    BY <2>1, InsertKeeps
  <2>3. /\ granted' = granted \cup {[account |-> a, email |-> e, subject |-> Nobody]}
        /\ form' = [form EXCEPT ![f] = FreeForm]
    BY <1>3 DEF RegisterCommit, Free
  <2>4. EnrolmentTypeOK'
    BY <2>1, <2>2, <2>3 DEF EnrolmentTypeOK, Form, FreeForm
  <2>5. FormInv'
    BY <2>2, <2>3 DEF FormInv, FreeForm, EnrolmentTypeOK
  <2>6. GrantInv'
    BY <2>2, <2>3 DEF GrantInv, EnrolmentTypeOK
  <2>. QED  BY <2>2, <2>4, <2>5, <2>6
<1>4. ASSUME NEW f \in Forms, NEW a \in Accounts, GoogleCreate(f, a) PROVE OwnInv'
  <2>. DEFINE e == form[f].email
              s == form[f].subject
  <2>1. e \in Emails /\ s \in Subjects /\ e = EmailOf[s] /\ Insert(a, e, s)
    BY <1>4 DEF GoogleCreate, FormInv, EnrolmentTypeOK, Form
  <2>2. /\ account' \in [Accounts -> AccountRow]
        /\ \A b \in Here' : account'[b].email # Nobody
        /\ RowInv'
        /\ \A b \in Accounts : account[b].state # "unborn" => account'[b] = account[b]
        /\ account'[a] = [state |-> "here", email |-> e, subject |-> s]
    BY <2>1, InsertKeeps
  <2>3. /\ form' = [form EXCEPT ![f].pc = "enter", ![f].found = a]
        /\ granted' = granted
    BY <1>4 DEF GoogleCreate
  <2>4. EnrolmentTypeOK'
    <3>. DEFINE q == [form[f] EXCEPT !.pc = "enter", !.found = a]
    <3>1. form \in [Forms -> Form] /\ form' = [form EXCEPT ![f] = q]
      BY <2>3 DEF EnrolmentTypeOK
    <3>2. q \in Form
      BY <3>1 DEF Form
    <3>. HIDE DEF q
    <3>3. form' \in [Forms -> Form]
      BY <3>1, <3>2
    <3>. QED  BY <2>2, <2>3, <3>3 DEF EnrolmentTypeOK
  <2>5. FormInv'
    BY <2>1, <2>2, <2>3 DEF FormInv, EnrolmentTypeOK, Form
  <2>6. GrantInv'
    BY <2>2, <2>3 DEF GrantInv, EnrolmentTypeOK
  <2>. QED  BY <2>2, <2>4, <2>5, <2>6
<1>5. ASSUME NEW f \in Forms, RegisterTaken(f) \/ GoogleTaken(f) \/ FormLost(f) PROVE OwnInv'
  BY <1>5 DEF RegisterTaken, GoogleTaken, FormLost, Free, EnrolmentTypeOK, RowInv, FormInv,
              GrantInv, Form, FreeForm, Here
<1>6. ASSUME NEW f \in Forms, GoogleLookup(f) PROVE OwnInv'
  BY <1>6 DEF GoogleLookup, Found, BySubject, ByEmail, Free, EnrolmentTypeOK, RowInv, FormInv,
              GrantInv, Form, FreeForm, Here
<1>7. ASSUME NEW f \in Forms, GoogleEnter(f) PROVE OwnInv'
  <2>. DEFINE g == [account |-> form[f].found, email |-> form[f].email,
                    subject |-> form[f].subject]
  <2>1. /\ account' = account /\ form' = [form EXCEPT ![f] = FreeForm]
        /\ granted' \subseteq granted \cup {g}
    BY <1>7 DEF GoogleEnter, Free
  <2>2. /\ form[f].found \in Accounts /\ account[form[f].found].state # "unborn"
        /\ account[form[f].found].subject = form[f].subject
        /\ form[f].email \in Emails /\ form[f].subject \in Subjects
        /\ form[f].email = EmailOf[form[f].subject]
    BY <1>7 DEF GoogleEnter, FormInv, EnrolmentTypeOK, Form
  <2>3. account[form[f].found].email = form[f].email
    BY <2>2 DEF RowInv
  <2>4. EnrolmentTypeOK'
    BY <2>1, <2>2 DEF EnrolmentTypeOK, Form, FreeForm, Here
  <2>5. GrantInv'
    BY <2>1, <2>2, <2>3 DEF GrantInv
  <2>6. RowInv' /\ FormInv'
    BY <2>1 DEF RowInv, FormInv, FreeForm, Here, EnrolmentTypeOK
  <2>. QED  BY <2>4, <2>5, <2>6
<1>8. ASSUME NEW a \in Accounts, Erase(a) PROVE OwnInv'
  BY <1>8 DEF Erase, EnrolmentTypeOK, RowInv, FormInv, GrantInv, AccountRow, Here
<1>9. CASE UNCHANGED enrolmentVars
  BY <1>9 DEF enrolmentVars, EnrolmentTypeOK, RowInv, FormInv, GrantInv, Here
<1>. QED
  BY <1>1, <1>2, <1>3, <1>4, <1>5, <1>6, <1>7, <1>8, <1>9 DEF EnrolmentNext

\* At most one account of an address, as a number.
LEMMA OneEach == OwnInv => EnteredByItsOwn
<1>. SUFFICES ASSUME OwnInv PROVE EnteredByItsOwn
  OBVIOUS
<1>1. ASSUME NEW e \in Emails PROVE Cardinality(ByEmail(e)) <= 1
  <2>1. CASE ByEmail(e) = {}
    BY <2>1, FS_EmptySet
  <2>2. CASE ByEmail(e) # {}
    <3>1. PICK a \in ByEmail(e) : TRUE
      BY <2>2
    <3>2. ByEmail(e) = {a}
      BY <3>1 DEF ByEmail, OwnInv, RowInv
    <3>3. Cardinality({a}) = 1
      BY FS_Singleton
    <3>. QED  BY <3>2, <3>3
  <2>. QED  BY <2>1, <2>2
<1>. QED  BY <1>1 DEF EnteredByItsOwn, OwnInv, GrantInv

\* However registrations, Google sign ins and erasures cross, an account is
\* entered by whom it was created for, and an address has at most one.
THEOREM EntersItsOwn == EnrolmentSpec => []EnteredByItsOwn
<1>1. EnrolmentInit => OwnInv
  BY OwnInit
<1>2. OwnInv /\ [EnrolmentNext]_enrolmentVars => OwnInv'
  BY OwnStep
<1>3. OwnInv => EnteredByItsOwn
  BY OneEach
<1>. QED  BY <1>1, <1>2, <1>3, PTL DEF EnrolmentSpec

\* Every variable keeps its type, and a live account has an address.
THEOREM EnrolmentTypeCorrect == EnrolmentSpec => []EnrolmentTypeOK
<1>1. EnrolmentInit => OwnInv
  BY OwnInit
<1>2. OwnInv /\ [EnrolmentNext]_enrolmentVars => OwnInv'
  BY OwnStep
<1>3. OwnInv => EnrolmentTypeOK
  BY DEF OwnInv
<1>. QED  BY <1>1, <1>2, <1>3, PTL DEF EnrolmentSpec

-----------------------------------------------------------------------------
(* Throttle *)

\* The types the count rests on; a window's records do not matter to it.
CountTypeOK ==
    /\ count \in Nat /\ wrongs \in Nat /\ lockedFor \in Nat /\ cooling \in Nat
    /\ overlapped \in BOOLEAN
    /\ attempt \in [Addresses -> [pc : {"idle", "right", "wrong"}, count : Nat]]

\* A sign in that has had the account to itself has read the count that stands.
AloneInv ==
    ~overlapped =>
        /\ \A a, b \in Addresses : attempt[a] # Idle /\ attempt[b] # Idle => a = b
        /\ \A a \in Addresses : attempt[a] # Idle => attempt[a].count = count
        /\ \A a \in Addresses : attempt[a] # Idle => lockedFor = 0
        /\ count = wrongs
        /\ lockedFor = IF wrongs >= MaxFailures THEN cooling ELSE 0

CountInv == CountTypeOK /\ AloneInv

\* At the start nothing is counted.
LEMMA CountInit == ThrottleInit => CountInv
<1>. SUFFICES ASSUME ThrottleInit PROVE CountInv
  OBVIOUS
<1>1. CountTypeOK
  BY DEF ThrottleInit, CountTypeOK, Idle
<1>2. \A a \in Addresses : attempt[a] = Idle
  BY DEF ThrottleInit
<1>3. AloneInv
  BY <1>2 DEF ThrottleInit, AloneInv
<1>. QED  BY <1>1, <1>3 DEF CountInv

\* Letting a sign in through reads the count, or finds the account locked.
LEMMA EnterKeeps ==
  ASSUME CountInv, NEW a \in Addresses, NEW pc \in {"right", "wrong"},
         attempt[a] = Idle, Enter(a, pc), UNCHANGED <<count, lockedFor, cooling, wrongs>>
  PROVE  CountInv'
<1>1. CASE lockedFor > 0
  BY <1>1 DEF Enter, CountInv, CountTypeOK, AloneInv, Idle
<1>2. CASE ~(lockedFor > 0)
  <2>1. /\ attempt' = [attempt EXCEPT ![a] = [pc |-> pc, count |-> count]]
        /\ overlapped' = (overlapped \/ \E b \in Addresses : attempt[b] # Idle)
    BY <1>2 DEF Enter
  <2>2. lockedFor = 0
    BY <1>2 DEF CountInv, CountTypeOK
  <2>3. CountTypeOK'
    BY <2>1 DEF CountInv, CountTypeOK
  <2>4. ASSUME ~overlapped' PROVE \A b \in Addresses : b # a => attempt'[b] = Idle
    BY <2>1, <2>4 DEF CountInv, CountTypeOK
  <2>5. attempt'[a] = [pc |-> pc, count |-> count]
    BY <2>1 DEF CountInv, CountTypeOK
  <2>6. ASSUME ~overlapped' PROVE ~overlapped
    BY <2>1, <2>6 DEF CountInv, CountTypeOK
  <2>7. ASSUME ~overlapped', NEW b \in Addresses, attempt'[b] # Idle PROVE b = a
    BY <2>4, <2>7
  <2>8. ASSUME ~overlapped'
        PROVE  /\ \A b, c \in Addresses : attempt'[b] # Idle /\ attempt'[c] # Idle => b = c
               /\ \A b \in Addresses : attempt'[b] # Idle => attempt'[b].count = count'
               /\ \A b \in Addresses : attempt'[b] # Idle => lockedFor' = 0
    BY <2>2, <2>5, <2>7, <2>8
  <2>9. ASSUME ~overlapped'
        PROVE  /\ count' = wrongs'
               /\ lockedFor' = IF wrongs' >= MaxFailures THEN cooling' ELSE 0
    BY <2>6, <2>9 DEF CountInv, AloneInv
  <2>10. AloneInv'
    BY <2>8, <2>9 DEF AloneInv
  <2>. QED  BY <2>3, <2>10 DEF CountInv
<1>. QED  BY <1>1, <1>2

\* Every step keeps the count of failures.
LEMMA CountStep == CountInv /\ [ThrottleNext]_throttleVars => CountInv'
<1>. SUFFICES ASSUME CountInv, [ThrottleNext]_throttleVars PROVE CountInv'
  OBVIOUS
<1>. USE ThrottleAssumption
<1>1. CASE Tick
  BY <1>1 DEF Tick, OneLess, CountInv, CountTypeOK, AloneInv, throttleHistory
<1>2. ASSUME NEW a \in Addresses, TurnAway(a) PROVE CountInv'
  BY <1>2 DEF TurnAway, CountInv, CountTypeOK, AloneInv, throttleHistory
<1>3. ASSUME NEW a \in Addresses, NEW pc \in {"right", "wrong"},
             LetIn(a, pc) \/ LetInUnmetered(a, pc)
      PROVE  CountInv'
  <2>1. /\ attempt[a] = Idle /\ Enter(a, pc)
        /\ UNCHANGED <<count, lockedFor, cooling, wrongs>>
    BY <1>3 DEF LetIn, LetInUnmetered, Ready
  <2>. QED  BY <2>1, EnterKeeps
<1>4. ASSUME NEW a \in Addresses, FailLogin(a) PROVE CountInv'
  <2>1. /\ count' = attempt[a].count + 1 /\ wrongs' = wrongs + 1
        /\ lockedFor' = IF count' >= MaxFailures THEN Lockout ELSE 0
        /\ cooling' = Lockout
        /\ attempt' = [attempt EXCEPT ![a] = Idle] /\ overlapped' = overlapped
        /\ attempt[a] # Idle
    BY <1>4 DEF FailLogin, Idle
  <2>2. CountTypeOK'
    BY <2>1 DEF CountInv, CountTypeOK, Idle
  <2>3. ASSUME ~overlapped PROVE \A b \in Addresses : attempt'[b] = Idle
    BY <2>1, <2>3 DEF CountInv, CountTypeOK, AloneInv
  <2>4. AloneInv'
    BY <2>1, <2>2, <2>3 DEF CountInv, CountTypeOK, AloneInv
  <2>. QED  BY <2>2, <2>4 DEF CountInv
<1>5. ASSUME NEW a \in Addresses, Succeed(a) PROVE CountInv'
  <2>1. /\ count' = 0 /\ wrongs' = 0 /\ lockedFor' = 0 /\ cooling' = 0
        /\ overlapped' = overlapped
        /\ attempt' = [attempt EXCEPT ![a] = Idle] /\ attempt[a] # Idle
    BY <1>5 DEF Succeed, Idle
  <2>2. CountTypeOK'
    BY <2>1 DEF CountInv, CountTypeOK, Idle
  <2>3. ASSUME ~overlapped PROVE \A b \in Addresses : attempt'[b] = Idle
    BY <2>1, <2>3 DEF CountInv, CountTypeOK, AloneInv
  <2>4. AloneInv'
    BY <2>1, <2>2, <2>3 DEF CountInv, CountTypeOK, AloneInv
  <2>. QED  BY <2>2, <2>4 DEF CountInv
<1>6. CASE UNCHANGED throttleVars
  BY <1>6 DEF throttleVars, throttleHistory, CountInv, CountTypeOK, AloneInv
<1>. QED
  BY <1>1, <1>2, <1>3, <1>4, <1>5, <1>6 DEF ThrottleNext, Verdict

\* As long as no two sign ins overlap, no failure is lost or counted twice, and
\* a lock stands exactly from the failure that reaches the limit, and from each
\* later one, until it has run out, whatever Redis and the window do.
THEOREM FailuresAreCounted == ThrottleSpec => []CountIsExact
<1>1. ThrottleInit => CountInv
  BY CountInit
<1>2. CountInv /\ [ThrottleNext]_throttleVars => CountInv'
  BY CountStep
<1>3. CountInv => CountIsExact
  BY DEF CountInv, AloneInv, CountIsExact
<1>. QED  BY <1>1, <1>2, <1>3, PTL DEF ThrottleSpec

\* Wrong passwords under way.
Wrong == {a \in Addresses : attempt[a].pc = "wrong"}

\* Each wrong password that was tried is under way or was written at most once,
\* and no count read is ahead of those tried.
TriedInv ==
    /\ IsFiniteSet(Wrong) /\ wrongs + Cardinality(Wrong) <= tried
    /\ count <= tried
    /\ \A a \in Addresses : /\ attempt[a].count <= tried
                            /\ attempt[a].pc = "wrong" => attempt[a].count < tried

WindowInv == ThrottleTypeOK /\ TriedInv /\ WindowHolds

\* The ages are finitely many, and what an address has at each is a number.
LEMMA AgesFinite == IsFiniteSet(Ages) /\ 0 \in Ages /\ Ages \subseteq Nat
<1>1. Window \in Nat /\ Window > 0
  BY ThrottleAssumption
<1>2. IsFiniteSet(0 .. Window - 1)
  BY <1>1, FS_Interval
<1>. QED  BY <1>1, <1>2 DEF Ages

\* What was used of a window is the sum of its record.
LEMMA UsedIsSum ==
  ASSUME NEW f
  PROVE  Used(f) = SumFunctionOnSet(f, Ages)
BY DEF Used, MapThenSumSet, SumFunctionOnSet, FoldFunctionOnSet, MapThenFoldSet

\* A record of a window.
LEMMA RecordSums ==
  ASSUME NEW f, NEW g, f \in [Ages -> Nat], g \in [Ages -> Nat]
  PROVE  /\ Used(f) \in Nat
         /\ (\A i \in Ages : f[i] <= g[i]) => Used(f) <= Used(g)
         /\ (\A i \in Ages : f[i] = 0) => Used(f) = 0
<1>1. IsFiniteSet(Ages) /\ Weights(f, Ages) /\ Weights(g, Ages)
  BY AgesFinite DEF Weights
<1>2. Used(f) = SumFunctionOnSet(f, Ages) /\ Used(g) = SumFunctionOnSet(g, Ages)
  BY UsedIsSum
<1>3. SumFunctionOnSet(f, Ages) \in Nat
  BY <1>1, SumIsNat
<1>4. ASSUME \A i \in Ages : f[i] <= g[i]
      PROVE  SumFunctionOnSet(f, Ages) <= SumFunctionOnSet(g, Ages)
  BY <1>1, <1>4, SumGrows
<1>5. ASSUME \A i \in Ages : f[i] = 0
      PROVE  SumFunctionOnSet(f, Ages) = 0
  BY <1>1, <1>5, SumOfZeros
<1>. QED  BY <1>2, <1>3, <1>4, <1>5

\* An attempt counts one.
LEMMA CountedIsOne ==
  ASSUME NEW f \in [Ages -> Nat]
  PROVE  Counted(f) \in [Ages -> Nat] /\ Used(Counted(f)) = Used(f) + 1
<1>. DEFINE g == Counted(f)
<1>1. /\ g \in [Ages -> Nat] /\ g[0] = f[0] + 1 /\ f[0] \in Nat
      /\ \A i \in Ages \ {0} : f[i] = g[i]
  BY AgesFinite DEF Counted
<1>. HIDE DEF g
<1>2. IsFiniteSet(Ages) /\ Weights(f, Ages) /\ Weights(g, Ages)
  BY <1>1, AgesFinite DEF Weights
<1>3. SumFunctionOnSet(g, Ages) - g[0] = SumFunctionOnSet(f, Ages) - f[0]
  <2>. DEFINE now == 0
  <2>1. now \in Ages /\ \A i \in Ages \ {now} : f[i] = g[i]
    BY <1>1, AgesFinite
  <2>. HIDE DEF now
  <2>2. SumFunctionOnSet(g, Ages) - g[now] = SumFunctionOnSet(f, Ages) - f[now]
    BY <1>2, <2>1, SumChanges
  <2>. QED  BY <2>2 DEF now
<1>4. SumFunctionOnSet(f, Ages) \in Nat /\ SumFunctionOnSet(g, Ages) \in Nat
  BY <1>2, SumIsNat
<1>5. SumFunctionOnSet(g, Ages) = SumFunctionOnSet(f, Ages) + 1
  BY <1>1, <1>3, <1>4
<1>6. Used(g) = Used(f) + 1
  BY <1>5, UsedIsSum
<1>. QED  BY <1>1, <1>6 DEF g

\* Growing older adds nothing.
LEMMA OlderIsLess ==
  ASSUME NEW f \in [Ages -> Nat]
  PROVE  Older(f) \in [Ages -> Nat] /\ Used(Older(f)) <= Used(f)
<1>. DEFINE g == Older(f)
            R == Ages \ {0}
            place == [i \in R |-> i - 1]
<1>1. \A i \in R : i - 1 \in Ages
  BY ThrottleAssumption DEF Ages
<1>2. /\ g \in [Ages -> Nat] /\ \A i \in R : g[i] = f[i - 1]
      /\ \A i \in Ages \ R : g[i] = 0
  BY <1>1 DEF Older
<1>3. place \in [R -> Ages] /\ \A i \in R : place[i] = i - 1
  BY <1>1
<1>4. R \in SUBSET Ages /\ \A i, j \in R : i - 1 = j - 1 => i = j
  BY AgesFinite
<1>. HIDE DEF g, R, place
<1>5. IsFiniteSet(Ages) /\ Weights(f, Ages) /\ Weights(g, Ages)
  BY <1>2, AgesFinite DEF Weights
<1>6. /\ \A i \in R : g[i] = f[place[i]]
      /\ \A i, j \in R : place[i] = place[j] => i = j
  BY <1>2, <1>3, <1>4
<1>7. SumFunctionOnSet(g, Ages) <= SumFunctionOnSet(f, Ages)
  BY <1>2, <1>3, <1>4, <1>5, <1>6, SumMoves
<1>8. Used(g) <= Used(f)
  BY <1>7, UsedIsSum
<1>. QED  BY <1>2, <1>8 DEF g

\* At the start nothing was tried.
LEMMA WindowStart == ThrottleInit => WindowInv
<1>. SUFFICES ASSUME ThrottleInit PROVE WindowInv
  OBVIOUS
<1>. USE ThrottleAssumption
<1>1. NoHits \in [Ages -> Nat] /\ \A i \in Ages : NoHits[i] = 0
  BY DEF NoHits
<1>2. Used(NoHits) = 0
  BY <1>1, RecordSums
<1>3. Wrong = {}
  BY DEF ThrottleInit, Wrong, Idle
<1>4. TriedInv
  BY <1>3, FS_EmptySet DEF ThrottleInit, TriedInv, Idle
<1>5. ThrottleTypeOK
  <2>1. NoHits \in [Ages -> 0..MaxHits]
    BY DEF NoHits
  <2>2. Idle \in Attempt
    BY DEF Attempt, Idle
  <2>3. \A a \in Addresses, i \in Ages : passed[a][i] <= hits[a][i]
    BY <1>1 DEF ThrottleInit
  <2>4. overlapped \in BOOLEAN /\ entered \in BOOLEAN
    BY DEF ThrottleInit
  <2>. QED  BY <2>1, <2>2, <2>3, <2>4 DEF ThrottleInit, ThrottleTypeOK
<1>6. WindowHolds
  BY <1>2 DEF ThrottleInit, WindowHolds
<1>. QED  BY <1>4, <1>5, <1>6 DEF WindowInv

\* The hits of an address are numbers.
LEMMA RecordsAreNats ==
  ASSUME ThrottleTypeOK, NEW a \in Addresses
  PROVE  hits[a] \in [Ages -> Nat] /\ passed[a] \in [Ages -> Nat]
BY ThrottleAssumption DEF ThrottleTypeOK

\* One attempt more on record, within the bound, and let through if there was
\* room.
LEMMA OneMoreHit ==
  ASSUME WindowInv, NEW a \in Addresses, hits[a][0] < MaxHits,
         hits' = [hits EXCEPT ![a] = Counted(@)],
         passed' = passed \/ (Admits(a) /\ passed' = [passed EXCEPT ![a] = Counted(@)])
  PROVE  /\ hits' \in [Addresses -> [Ages -> 0..MaxHits]]
         /\ passed' \in [Addresses -> [Ages -> 0..MaxHits]]
         /\ \A b \in Addresses, i \in Ages : passed'[b][i] <= hits'[b][i]
         /\ WindowHolds'
<1>. USE ThrottleAssumption
<1>1. /\ hits \in [Addresses -> [Ages -> 0..MaxHits]]
      /\ passed \in [Addresses -> [Ages -> 0..MaxHits]]
      /\ \A b \in Addresses, i \in Ages : passed[b][i] <= hits[b][i]
      /\ \A b \in Addresses : Used(passed[b]) <= Limit
  BY DEF WindowInv, ThrottleTypeOK, WindowHolds
<1>2. /\ hits[a] \in [Ages -> 0..MaxHits] /\ passed[a] \in [Ages -> 0..MaxHits]
      /\ \A i \in Ages : passed[a][i] <= hits[a][i]
  BY <1>1
<1>3. /\ Counted(hits[a]) \in [Ages -> 0..MaxHits]
      /\ Counted(passed[a]) \in [Ages -> 0..MaxHits]
      /\ \A i \in Ages : /\ passed[a][i] <= Counted(hits[a])[i]
                         /\ Counted(passed[a])[i] <= Counted(hits[a])[i]
  BY <1>2, AgesFinite DEF Counted
<1>4. /\ hits' \in [Addresses -> [Ages -> 0..MaxHits]]
      /\ hits'[a] = Counted(hits[a])
      /\ \A b \in Addresses \ {a} : hits'[b] = hits[b]
  BY <1>1, <1>3
<1>5. CASE passed' = passed
  <2>1. \A b \in Addresses, i \in Ages : passed'[b][i] <= hits'[b][i]
    BY <1>1, <1>3, <1>4, <1>5
  <2>. QED  BY <1>1, <1>4, <1>5, <2>1 DEF WindowHolds
<1>6. CASE Admits(a) /\ passed' = [passed EXCEPT ![a] = Counted(@)]
  <2>1. /\ passed' \in [Addresses -> [Ages -> 0..MaxHits]]
        /\ passed'[a] = Counted(passed[a])
        /\ \A b \in Addresses \ {a} : passed'[b] = passed[b]
    BY <1>1, <1>3, <1>6
  <2>2. \A b \in Addresses, i \in Ages : passed'[b][i] <= hits'[b][i]
    BY <1>1, <1>3, <1>4, <2>1
  <2>3. hits[a] \in [Ages -> Nat] /\ passed[a] \in [Ages -> Nat]
    BY <1>2
  <2>4. Used(passed[a]) <= Used(hits[a]) /\ Used(passed[a]) \in Nat /\ Used(hits[a]) \in Nat
    BY <1>2, <2>3, RecordSums
  <2>5. Used(passed'[a]) = Used(passed[a]) + 1
    BY <2>1, <2>3, CountedIsOne
  <2>6. Used(passed'[a]) <= Limit
    BY <1>6, <2>4, <2>5 DEF Admits
  <2>. QED  BY <1>1, <1>4, <2>1, <2>2, <2>6 DEF WindowHolds
<1>. QED  BY <1>5, <1>6

\* A sign in let in: the passwords tried count it if it is wrong.
LEMMA EnterTries ==
  ASSUME WindowInv, NEW a \in Addresses, NEW pc \in {"right", "wrong"},
         attempt[a] = Idle, Enter(a, pc), UNCHANGED <<count, lockedFor, wrongs>>
  PROVE  /\ TriedInv' /\ attempt' \in [Addresses -> Attempt] /\ tried' \in 0..MaxWrong
         /\ overlapped' \in BOOLEAN
<1>. USE ThrottleAssumption
<1>1. /\ attempt \in [Addresses -> Attempt] /\ tried \in 0..MaxWrong /\ count \in 0..MaxWrong
      /\ wrongs \in 0..MaxWrong /\ overlapped \in BOOLEAN
  BY DEF WindowInv, ThrottleTypeOK
<1>2. /\ IsFiniteSet(Wrong) /\ wrongs + Cardinality(Wrong) <= tried /\ count <= tried
      /\ \A b \in Addresses : /\ attempt[b].count <= tried
                              /\ attempt[b].pc = "wrong" => attempt[b].count < tried
      /\ Cardinality(Wrong) \in Nat
  BY FS_CardinalityType DEF WindowInv, TriedInv
<1>3. CASE lockedFor > 0
  BY <1>1, <1>2, <1>3 DEF Enter, TriedInv, Wrong
<1>4. CASE ~ (lockedFor > 0)
  <2>1. /\ attempt' = [attempt EXCEPT ![a] = [pc |-> pc, count |-> count]]
        /\ tried' = IF pc = "wrong" THEN tried + 1 ELSE tried
        /\ pc = "wrong" => tried < MaxWrong
    BY <1>4 DEF Enter
  <2>2. overlapped' \in BOOLEAN
    <3>1. overlapped' = (overlapped \/ \E b \in Addresses : attempt[b] # Idle)
      BY <1>4 DEF Enter
    <3>. QED  BY <3>1
  <2>3. /\ attempt' \in [Addresses -> Attempt]
        /\ attempt'[a].pc = pc /\ attempt'[a].count = count
        /\ \A b \in Addresses \ {a} : attempt'[b] = attempt[b]
    BY <1>1, <2>1 DEF Attempt
  <2>4. tried' \in 0..MaxWrong /\ tried' >= tried /\ (pc = "wrong" => tried' = tried + 1)
    BY <1>1, <2>1
  <2>5. a \notin Wrong
    BY DEF Wrong, Idle
  <2>6. Wrong' = IF pc = "wrong" THEN Wrong \cup {a} ELSE Wrong
    BY <2>3, <2>5 DEF Wrong
  <2>7. /\ IsFiniteSet(Wrong')
        /\ Cardinality(Wrong') = IF pc = "wrong" THEN Cardinality(Wrong) + 1
                                 ELSE Cardinality(Wrong)
    BY <1>2, <2>5, <2>6, FS_AddElement
  <2>8. wrongs' + Cardinality(Wrong') <= tried'
    BY <1>1, <1>2, <2>1, <2>7
  <2>9. ASSUME NEW b \in Addresses
        PROVE  /\ attempt'[b].count <= tried'
               /\ attempt'[b].pc = "wrong" => attempt'[b].count < tried'
    <3>1. CASE b = a
      BY <1>1, <1>2, <2>3, <2>4, <3>1
    <3>2. CASE b # a
      <4>1. attempt'[b] = attempt[b] /\ attempt[b].count \in 0..MaxWrong
        BY <1>1, <2>3, <3>2 DEF Attempt
      <4>. QED  BY <1>1, <1>2, <2>4, <4>1
    <3>. QED  BY <3>1, <3>2
  <2>10. count' <= tried'
    BY <1>1, <1>2, <2>4
  <2>. QED  BY <2>2, <2>3, <2>4, <2>7, <2>8, <2>9, <2>10 DEF TriedInv
<1>. QED  BY <1>3, <1>4

\* A sign in that is over is no wrong password under way.
LEMMA OverTries ==
  ASSUME WindowInv, NEW a \in Addresses, attempt' = [attempt EXCEPT ![a] = Idle],
         UNCHANGED tried, count' \in Nat, count' <= tried,
         \/ attempt[a].pc = "wrong" /\ wrongs' = wrongs + 1
         \/ wrongs' = 0
  PROVE  TriedInv' /\ attempt' \in [Addresses -> Attempt] /\ wrongs' \in 0..MaxWrong
<1>. USE ThrottleAssumption
<1>1. /\ attempt \in [Addresses -> Attempt] /\ tried \in 0..MaxWrong
      /\ wrongs \in 0..MaxWrong
  BY DEF WindowInv, ThrottleTypeOK
<1>2. /\ IsFiniteSet(Wrong) /\ wrongs + Cardinality(Wrong) <= tried
      /\ \A b \in Addresses : /\ attempt[b].count <= tried
                              /\ attempt[b].pc = "wrong" => attempt[b].count < tried
      /\ Cardinality(Wrong) \in Nat
  BY FS_CardinalityType DEF WindowInv, TriedInv
<1>3. /\ attempt' \in [Addresses -> Attempt] /\ attempt'[a] = Idle
      /\ \A b \in Addresses \ {a} : attempt'[b] = attempt[b]
  BY <1>1 DEF Attempt, Idle
<1>4. Wrong' = Wrong \ {a}
  BY <1>3 DEF Wrong, Idle
<1>5. /\ IsFiniteSet(Wrong')
      /\ Cardinality(Wrong') = IF a \in Wrong THEN Cardinality(Wrong) - 1
                               ELSE Cardinality(Wrong)
  BY <1>2, <1>4, FS_RemoveElement
<1>6. attempt[a].pc = "wrong" => a \in Wrong
  BY DEF Wrong
<1>7. Cardinality(Wrong') \in Nat
  BY <1>5, FS_CardinalityType
<1>8. wrongs' + Cardinality(Wrong') <= tried' /\ wrongs' \in 0..MaxWrong
  BY <1>1, <1>2, <1>5, <1>6, <1>7
<1>9. ASSUME NEW b \in Addresses
      PROVE  /\ attempt'[b].count <= tried'
             /\ attempt'[b].pc = "wrong" => attempt'[b].count < tried'
  <2>1. CASE b = a
    BY <1>1, <1>3, <2>1 DEF Idle
  <2>2. CASE b # a
    BY <1>2, <1>3, <2>2
  <2>. QED  BY <2>1, <2>2
<1>. QED  BY <1>3, <1>5, <1>8, <1>9 DEF TriedInv

\* Every step keeps the invariant.
LEMMA WindowStep == WindowInv /\ [ThrottleNext]_throttleVars => WindowInv'
<1>. SUFFICES ASSUME WindowInv, [ThrottleNext]_throttleVars PROVE WindowInv'
  OBVIOUS
<1>. USE ThrottleAssumption
<1>0. /\ ThrottleTypeOK /\ TriedInv /\ WindowHolds
      /\ wait \in 0..Window /\ outages \in 0..MaxOutages /\ count \in 0..MaxWrong
      /\ lockedFor \in 0..Lockout /\ cooling \in 0..Lockout /\ overlapped \in BOOLEAN
      /\ entered \in BOOLEAN /\ attempt \in [Addresses -> Attempt] /\ tried \in 0..MaxWrong
      /\ wrongs \in 0..MaxWrong
      /\ hits \in [Addresses -> [Ages -> 0..MaxHits]]
      /\ passed \in [Addresses -> [Ages -> 0..MaxHits]]
      /\ \A a \in Addresses, i \in Ages : passed[a][i] <= hits[a][i]
  BY DEF WindowInv, ThrottleTypeOK
<1>1. CASE Tick
  <2>1. /\ hits' = [a \in Addresses |-> Older(hits[a])]
        /\ passed' = [a \in Addresses |-> Older(passed[a])]
        /\ lockedFor' = OneLess(lockedFor) /\ cooling' = OneLess(cooling)
        /\ wait' = OneLess(wait)
        /\ UNCHANGED <<count, attempt, tried, outages, wrongs, overlapped, entered>>
    BY <1>1 DEF Tick, Older, throttleHistory
  <2>2. \A i \in Ages : i # 0 => i - 1 \in Ages
    BY DEF Ages
  <2>3. ASSUME NEW a \in Addresses
        PROVE  /\ Older(hits[a]) \in [Ages -> 0..MaxHits]
               /\ Older(passed[a]) \in [Ages -> 0..MaxHits]
               /\ \A i \in Ages : Older(passed[a])[i] <= Older(hits[a])[i]
    BY <1>0, <2>2 DEF Older
  <2>4. /\ hits' \in [Addresses -> [Ages -> 0..MaxHits]]
        /\ passed' \in [Addresses -> [Ages -> 0..MaxHits]]
        /\ \A a \in Addresses, i \in Ages : passed'[a][i] <= hits'[a][i]
    BY <2>1, <2>3
  <2>5. lockedFor' \in 0..Lockout /\ cooling' \in 0..Lockout /\ wait' \in 0..Window
    BY <1>0, <2>1 DEF OneLess
  <2>6. ThrottleTypeOK'
    BY <1>0, <2>1, <2>4, <2>5 DEF ThrottleTypeOK
  <2>7. ASSUME NEW a \in Addresses PROVE Used(passed'[a]) <= Limit
    <3>1. Used(passed[a]) <= Limit
      BY <1>0 DEF WindowHolds
    <3>2. passed[a] \in [Ages -> Nat]
      BY <1>0, RecordsAreNats
    <3>3. Used(Older(passed[a])) <= Used(passed[a]) /\ Used(passed[a]) \in Nat
      BY <3>2, OlderIsLess, RecordSums
    <3>4. Used(Older(passed[a])) \in Nat
      BY <3>2, OlderIsLess, RecordSums
    <3>. QED  BY <2>1, <3>1, <3>3, <3>4
  <2>8. TriedInv'
    BY <1>0, <2>1 DEF TriedInv, Wrong
  <2>. QED  BY <2>6, <2>7, <2>8 DEF WindowInv, WindowHolds
<1>2. ASSUME NEW a \in Addresses, TurnAway(a) PROVE WindowInv'
  <2>1. /\ hits[a][0] < MaxHits /\ hits' = [hits EXCEPT ![a] = Counted(@)]
        /\ wait' \in 0..Window /\ passed' = passed
        /\ UNCHANGED <<count, lockedFor, cooling, attempt, tried, outages, wrongs, overlapped,
                       entered>>
    BY <1>0, <1>2 DEF TurnAway, RetryAfter, throttleHistory
  <2>2. /\ hits' \in [Addresses -> [Ages -> 0..MaxHits]]
        /\ passed' \in [Addresses -> [Ages -> 0..MaxHits]]
        /\ \A b \in Addresses, i \in Ages : passed'[b][i] <= hits'[b][i]
        /\ WindowHolds'
    BY <2>1, OneMoreHit
  <2>3. ThrottleTypeOK'
    BY <1>0, <2>1, <2>2 DEF ThrottleTypeOK
  <2>4. TriedInv'
    BY <1>0, <2>1 DEF TriedInv, Wrong
  <2>. QED  BY <2>2, <2>3, <2>4 DEF WindowInv
<1>3. ASSUME NEW a \in Addresses, NEW pc \in {"right", "wrong"}, LetIn(a, pc) PROVE WindowInv'
  <2>1. /\ hits[a][0] < MaxHits /\ hits' = [hits EXCEPT ![a] = Counted(@)]
        /\ Admits(a) /\ passed' = [passed EXCEPT ![a] = Counted(@)]
        /\ attempt[a] = Idle /\ Enter(a, pc)
        /\ UNCHANGED <<count, lockedFor, cooling, wait, outages, wrongs, entered>>
    BY <1>3 DEF LetIn, Ready
  <2>2. /\ hits' \in [Addresses -> [Ages -> 0..MaxHits]]
        /\ passed' \in [Addresses -> [Ages -> 0..MaxHits]]
        /\ \A b \in Addresses, i \in Ages : passed'[b][i] <= hits'[b][i]
        /\ WindowHolds'
    BY <2>1, OneMoreHit
  <2>3. /\ TriedInv' /\ attempt' \in [Addresses -> Attempt] /\ tried' \in 0..MaxWrong
        /\ overlapped' \in BOOLEAN
    BY <2>1, EnterTries
  <2>4. ThrottleTypeOK'
    BY <1>0, <2>1, <2>2, <2>3 DEF ThrottleTypeOK
  <2>. QED  BY <2>2, <2>3, <2>4 DEF WindowInv
<1>4. ASSUME NEW a \in Addresses, NEW pc \in {"right", "wrong"}, LetInUnmetered(a, pc)
      PROVE  WindowInv'
  <2>1. /\ attempt[a] = Idle /\ Enter(a, pc) /\ outages' \in 0..MaxOutages
        /\ UNCHANGED <<hits, passed, count, lockedFor, cooling, wait, wrongs, entered>>
    BY <1>0, <1>4 DEF LetInUnmetered, Ready
  <2>2. /\ TriedInv' /\ attempt' \in [Addresses -> Attempt] /\ tried' \in 0..MaxWrong
        /\ overlapped' \in BOOLEAN
    BY <2>1, EnterTries
  <2>3. ThrottleTypeOK'
    BY <1>0, <2>1, <2>2 DEF ThrottleTypeOK
  <2>4. WindowHolds'
    BY <1>0, <2>1 DEF WindowHolds
  <2>. QED  BY <2>2, <2>3, <2>4 DEF WindowInv
<1>5. ASSUME NEW a \in Addresses, FailLogin(a) PROVE WindowInv'
  <2>1. /\ attempt[a].pc = "wrong" /\ count' = attempt[a].count + 1 /\ wrongs' = wrongs + 1
        /\ attempt' = [attempt EXCEPT ![a] = Idle]
        /\ lockedFor' \in 0..Lockout /\ cooling' \in 0..Lockout
        /\ UNCHANGED <<hits, passed, wait, tried, outages, overlapped, entered>>
    BY <1>5 DEF FailLogin
  <2>2. attempt[a].count \in 0..MaxWrong /\ attempt[a].count < tried
    BY <1>0, <2>1 DEF Attempt, TriedInv
  <2>3. count' \in 0..MaxWrong /\ count' <= tried /\ count' \in Nat
    BY <1>0, <2>1, <2>2
  <2>4. TriedInv' /\ attempt' \in [Addresses -> Attempt] /\ wrongs' \in 0..MaxWrong
    BY <2>1, <2>3, OverTries
  <2>5. ThrottleTypeOK'
    BY <1>0, <2>1, <2>3, <2>4 DEF ThrottleTypeOK
  <2>6. WindowHolds'
    BY <1>0, <2>1 DEF WindowHolds
  <2>. QED  BY <2>4, <2>5, <2>6 DEF WindowInv
<1>6. ASSUME NEW a \in Addresses, Succeed(a) PROVE WindowInv'
  <2>1. /\ count' = 0 /\ lockedFor' = 0 /\ cooling' = 0 /\ wrongs' = 0 /\ entered' = TRUE
        /\ attempt' = [attempt EXCEPT ![a] = Idle]
        /\ hits' = [hits EXCEPT ![a] = NoHits] /\ passed' = [passed EXCEPT ![a] = NoHits]
        /\ UNCHANGED <<wait, tried, outages, overlapped>>
    BY <1>6 DEF Succeed
  <2>2. TriedInv' /\ attempt' \in [Addresses -> Attempt] /\ wrongs' \in 0..MaxWrong
    <3>1. count' \in Nat /\ count' <= tried /\ UNCHANGED tried
      BY <1>0, <2>1
    <3>. QED  BY <1>0, <2>1, <3>1, OverTries DEF WindowInv
  <2>3. NoHits \in [Ages -> 0..MaxHits] /\ \A i \in Ages : NoHits[i] = 0
    BY DEF NoHits
  <2>4. /\ hits' \in [Addresses -> [Ages -> 0..MaxHits]]
        /\ passed' \in [Addresses -> [Ages -> 0..MaxHits]]
        /\ passed'[a] = NoHits /\ hits'[a] = NoHits
        /\ \A b \in Addresses \ {a} : passed'[b] = passed[b] /\ hits'[b] = hits[b]
    BY <1>0, <2>1, <2>3
  <2>5. \A b \in Addresses, i \in Ages : passed'[b][i] <= hits'[b][i]
    BY <1>0, <2>3, <2>4
  <2>6. ThrottleTypeOK'
    BY <1>0, <2>1, <2>2, <2>4, <2>5 DEF ThrottleTypeOK
  <2>7. Used(NoHits) = 0
    BY <2>3, RecordSums
  <2>8. WindowHolds'
    BY <1>0, <2>4, <2>7 DEF WindowHolds
  <2>. QED  BY <2>2, <2>6, <2>8 DEF WindowInv
<1>7. CASE UNCHANGED throttleVars
  BY <1>0, <1>7 DEF throttleVars, throttleHistory, WindowInv, ThrottleTypeOK, TriedInv, Wrong,
                    WindowHolds
<1>8. Owner \in Addresses
  OBVIOUS
<1>. QED
  BY <1>1, <1>2, <1>3, <1>4, <1>5, <1>6, <1>7, <1>8 DEF ThrottleNext, Verdict

\* Whatever the attempts of an address and the outages of Redis, no window of
\* any position has let more than the limit through.
THEOREM WindowIsKept == ThrottleSpec => []WindowHolds
<1>1. ThrottleInit => WindowInv
  BY WindowStart
<1>2. WindowInv /\ [ThrottleNext]_throttleVars => WindowInv'
  BY WindowStep
<1>3. WindowInv => WindowHolds
  BY DEF WindowInv
<1>. QED  BY <1>1, <1>2, <1>3, PTL DEF ThrottleSpec

\* Every variable keeps its type, and what was let through was counted.
THEOREM ThrottleTypeCorrect == ThrottleSpec => []ThrottleTypeOK
<1>1. ThrottleInit => WindowInv
  BY WindowStart
<1>2. WindowInv /\ [ThrottleNext]_throttleVars => WindowInv'
  BY WindowStep
<1>3. WindowInv => ThrottleTypeOK
  BY DEF WindowInv
<1>. QED  BY <1>1, <1>2, <1>3, PTL DEF ThrottleSpec

-----------------------------------------------------------------------------
(* The four, one at a time *)

\* A behaviour of the four is one of each.
THEOREM ServicesBehaveAlone ==
  ServicesSpec => MaintenanceSpec /\ ThrottleSpec /\ EnrolmentSpec /\ Spec
<1>1. ServicesInit => MaintenanceInit /\ ThrottleInit /\ EnrolmentInit /\ Init
  BY DEF ServicesInit
<1>2. [ServicesNext]_servicesVars => [MaintenanceNext]_maintVars
  BY DEF ServicesNext, servicesVars
<1>3. [ServicesNext]_servicesVars => [ThrottleNext]_throttleVars
  BY DEF ServicesNext, servicesVars
<1>4. [ServicesNext]_servicesVars => [EnrolmentNext]_enrolmentVars
  BY DEF ServicesNext, servicesVars
<1>5. [ServicesNext]_servicesVars => [Next]_vars
  BY DEF ServicesNext, servicesVars
<1>. QED
  BY <1>1, <1>2, <1>3, <1>4, <1>5, PTL
     DEF ServicesSpec, MaintenanceSpec, ThrottleSpec, EnrolmentSpec, Spec

\* Every variable keeps its type, whichever is in focus.
THEOREM ServicesTypeCorrect == ServicesSpec => []ServicesTypeOK
<1>1. MaintenanceTypeOK /\ ThrottleTypeOK /\ EnrolmentTypeOK /\ TypeOK => ServicesTypeOK
  BY DEF ServicesTypeOK
<1>. QED
  BY <1>1, ServicesBehaveAlone, MaintenanceTypeCorrect, ThrottleTypeCorrect,
     EnrolmentTypeCorrect, StreamTypeCorrect, PTL
=============================================================================
