--------------------------- MODULE MmapStoreProofs ---------------------------
(***************************************************************************)
(* Proofs about MmapStore under SafeUse, for all values of the constants:  *)
(* every step keeps the types of the variables and the control invariant;  *)
(* what synchronising calls, write-back and a power loss do to the invariant*)
(* of the store; and IInv, the inductive invariant, from which the safety  *)
(* properties, and that MmapStore implements WindowCommit, follow. One     *)
(* lemma for each step of the main thread and of a worker.                 *)
(***************************************************************************)
EXTENDS MmapStoreInv, TLAPS

-----------------------------------------------------------------------------
(***************************************************************************)
(* Types: every step keeps the types of the variables and the control      *)
(* invariant.                                                              *)
(***************************************************************************)
LEMMA MainNotGpu == "Main" \notin Gpus
  BY SolverAssumption

LEMMA IdealValues ==
  /\ Start \in Values /\ Garbage \in Values /\ Absent \in Values
  /\ \A m \in Mods, w \in 0 .. NW : Ideal(m, w) \in Values
  BY StoreAssumption DEF Values, Ideal, Windows, Start, Garbage, Absent

LEMMA BlankImage == Blank \in Images /\ NoJournal \in Journals /\ NoCheckpoint \in Checkpoints
  BY IdealValues, StoreAssumption
  DEF Blank, Images, NoJournal, Journals, NoCheckpoint, Checkpoints

LEMMA KernelImage ==
  ASSUME NEW m \in Mods, NEW w \in Windows, NEW g \in Groups, NEW in \in Images
  PROVE  Kernel(m, w, g, in) \in Images
  BY IdealValues DEF Kernel, Images, Windows

LEMMA ZeroedValue == \A c \in Cells : Zeroed(c) \in Values
  BY IdealValues DEF Zeroed

LEMMA PersistType ==
  ASSUME StoreTypeOK, NEW P, NEW E, NEW T, NEW J, Persist(P, E, T, J), UNCHANGED seen
  PROVE  StoreTypeOK'
  <1>1. disk' \in Images
    BY ZeroedValue DEF StoreTypeOK, Persist, Images
  <1>2. jnld' \in [Keys -> Journals]
    BY DEF StoreTypeOK, Persist, seen
  <1>3. QED
    BY <1>1, <1>2 DEF StoreTypeOK, Persist, seen

LEMMA FsyncType ==
  ASSUME StoreTypeOK, UNCHANGED seen,
         \/ FsyncStoreDir \/ FsyncUndoDir \/ (\E C \in SUBSET Cells : SyncIntervals(C))
         \/ CleanupTemps
  PROVE  StoreTypeOK'
  BY PersistType, StoreAssumption
  DEF FsyncStoreDir, FsyncUndoDir, SyncIntervals, PersistAll, CleanupTemps, StoreTypeOK,
      storeVars, seen, durable

-----------------------------------------------------------------------------
(***************************************************************************)
(* One lemma for each family of actions.                                   *)
(***************************************************************************)
LEMMA IdleType ==
  ASSUME Down, StoreTypeOK', printed' \subseteq Mods \X Values, faults' \in 0 .. MaxFaults
  PROVE  TypeOK'
  <1>1. 0 \in 0 .. NW
    BY StoreAssumption
  <1>2. rest' \in [Gpus \cup {Main} -> SUBSET Cells] /\ wpc' \in [Gpus -> WorkerPCs]
    BY DEF Down, Idle, WorkerPCs
  <1>3. wgrp' \in [Gpus -> Groups \cup {NoGroup}] /\ buf' \in [Gpus -> Images]
    BY BlankImage DEF Down, Idle
  <1>4. cp' \in Checkpoints /\ todo' \subseteq Groups /\ failed' \in BOOLEAN
    BY BlankImage DEF Down, Idle
  <1>5. QED
    BY <1>1, <1>2, <1>3, <1>4 DEF Down, Idle, TypeOK, MainPCs

LEMMA StartType ==
  ASSUME TypeOK, ControlOK,
         \/ \E m \in Mods, fresh \in BOOLEAN : Launch(m, fresh)
         \/ FreshRemoveCheckpoint \/ FreshRemoveUndo \/ FreshSync
         \/ LoadNothing \/ LoadResume \/ OpenFresh \/ InitStore \/ InitSync
  PROVE  TypeOK'
  <1>1. CASE \E m \in Mods, fresh \in BOOLEAN : Launch(m, fresh)
    BY <1>1 DEF Launch, TypeOK, StoreTypeOK, storeVars, seen, durable, workers, history, MainPCs
  <1>2. CASE FreshRemoveCheckpoint
    BY <1>2, BlankImage
    DEF FreshRemoveCheckpoint, TypeOK, StoreTypeOK, durable, workers, history, MainPCs
  <1>3. CASE FreshRemoveUndo
    BY <1>3, BlankImage
    DEF FreshRemoveUndo, TypeOK, StoreTypeOK, durable, workers, history, MainPCs
  <1>4. CASE FreshSync
    BY <1>4, FsyncType DEF FreshSync, TypeOK, seen, workers, history, MainPCs
  <1>5. CASE LoadNothing
    BY <1>5, FsyncType DEF LoadNothing, TypeOK, CleanupTemps, seen, storeVars, durable, StoreTypeOK, workers, history, MainPCs
  <1>6. CASE LoadResume
    BY <1>6, FsyncType DEF LoadResume, TypeOK, CleanupTemps, seen, storeVars, durable, StoreTypeOK, workers, history, MainPCs, Checkpoints
  <1>7. CASE OpenFresh
    BY <1>7, ZeroedValue DEF OpenFresh, TypeOK, StoreTypeOK, durable, workers, history, MainPCs, Images
  <1>8. CASE InitStore
    BY <1>8, IdealValues DEF InitStore, TypeOK, StoreTypeOK, durable, workers, history, MainPCs, Images
  <1>9. CASE InitSync
    BY <1>9, FsyncType, StoreAssumption DEF InitSync, TypeOK, seen, workers, history, MainPCs, Cells
  <1>10. QED
    BY <1>1, <1>2, <1>3, <1>4, <1>5, <1>6, <1>7, <1>8, <1>9

LEMMA WindowType ==
  ASSUME TypeOK, ControlOK,
         \/ BeginSameWindow \/ BeginWindow \/ BeginSync
         \/ \E g \in Groups : RecoverNothing(g) \/ RecoverDone(g) \/ RecoverUndo(g)
         \/ RestoreSlot \/ RestoreSync \/ RestoreUnlink \/ RecoverUnlinkSync
         \/ StartWorkers \/ NextWindow \/ Finish
  PROVE  TypeOK'
  <1> USE DEF workers, history
  <1>1. CASE BeginSameWindow
    BY <1>1 DEF BeginSameWindow, TypeOK, StoreTypeOK, storeVars, seen, durable, MainPCs
  <1>2. CASE BeginWindow
    BY <1>2 DEF BeginWindow, TypeOK, StoreTypeOK, durable, MainPCs, FreshCheckpoint, Checkpoints
  <1>3. CASE BeginSync
    BY <1>3, FsyncType DEF BeginSync, TypeOK, seen, MainPCs
  <1>4. CASE \E g \in Groups : RecoverNothing(g)
    BY <1>4 DEF RecoverNothing, TypeOK, StoreTypeOK, storeVars, seen, durable
  <1>5. CASE \E g \in Groups : RecoverDone(g)
    BY <1>5, BlankImage DEF RecoverDone, TypeOK, StoreTypeOK, durable, MainPCs
  <1>6. CASE \E g \in Groups : RecoverUndo(g)
    BY <1>6 DEF RecoverUndo, TypeOK, StoreTypeOK, storeVars, seen, durable, MainPCs, CellsOf
  <1>7. CASE RestoreSlot
    <2>1. JournalKey(rgrp) \in Keys
      BY <1>7 DEF RestoreSlot, ControlOK, JournalKey, Keys, Late
    <2>2. PICK c \in Cells :
            /\ cache' = [cache EXCEPT ![c] = jnl[JournalKey(rgrp)].img[c]]
            /\ rest' = [rest EXCEPT ![Main] = @ \ {c}]
      BY <1>7 DEF RestoreSlot, NextSlots, TypeOK
    <2>3. cache' \in Images
      BY <2>1, <2>2 DEF TypeOK, StoreTypeOK, Images, Journals
    <2>4. QED
      BY <1>7, <2>2, <2>3 DEF RestoreSlot, TypeOK, StoreTypeOK, durable
  <1>8. CASE RestoreSync
    BY <1>8, FsyncType DEF RestoreSync, TypeOK, seen, MainPCs, CellsOf
  <1>9. CASE RestoreUnlink
    BY <1>9, BlankImage DEF RestoreUnlink, TypeOK, StoreTypeOK, durable, MainPCs
  <1>10. CASE RecoverUnlinkSync
    BY <1>10, FsyncType DEF RecoverUnlinkSync, TypeOK, seen, MainPCs
  <1>11. CASE StartWorkers
    BY <1>11 DEF StartWorkers, TypeOK, StoreTypeOK, storeVars, seen, durable, MainPCs, WorkerPCs
  <1>12. CASE NextWindow
    BY <1>12, StoreAssumption
    DEF NextWindow, TypeOK, StoreTypeOK, storeVars, seen, durable, MainPCs
  <1>13. CASE Finish
    BY <1>13 DEF Finish, TypeOK, StoreTypeOK, durable, MainPCs, Checkpoints
  <1>14. QED
    BY <1>1, <1>2, <1>3, <1>4, <1>5, <1>6, <1>7, <1>8, <1>9, <1>10, <1>11, <1>12, <1>13

LEMMA WorkerType ==
  ASSUME TypeOK, ControlOK, NEW d \in Gpus, WorkerStep(d) \/ WorkerFails(d)
  PROVE  TypeOK'
  <1> USE DEF workers, history, Transition, WorkerPCs
  <1>1. CASE ClaimDone(d)
    BY <1>1 DEF ClaimDone, TypeOK, StoreTypeOK, storeVars, seen, durable
  <1>2. CASE Claim(d)
    BY <1>2 DEF Claim, TypeOK, StoreTypeOK, storeVars, seen, durable
  <1>3. CASE Leave(d)
    BY <1>3 DEF Leave, TypeOK, StoreTypeOK, storeVars, seen, durable
  <1>4. CASE Gather(d)
    BY <1>4, IdealValues DEF Gather, TypeOK, StoreTypeOK, storeVars, seen, durable, Images
  <1>5. CASE PrepareJournal(d)
    BY <1>5 DEF PrepareJournal, TypeOK, StoreTypeOK, durable, Journal, Journals
  <1>6. CASE JournalSync(d)
    BY <1>6, FsyncType DEF JournalSync, TypeOK, seen
  <1>7. CASE Compute(d)
    <2>1. Kernel(mod, win, wgrp[d], buf[d]) \in Images
      BY <1>7, KernelImage DEF Compute, TypeOK, ControlOK, Late
    <2>2. QED
      BY <1>7, <2>1 DEF Compute, TypeOK, StoreTypeOK, storeVars, seen, durable, CellsOf
  <1>8. CASE ScatterSlot(d)
    BY <1>8 DEF ScatterSlot, NextSlots, TypeOK, StoreTypeOK, durable, Images
  <1>9. CASE CommitSync(d)
    BY <1>9, FsyncType DEF CommitSync, TypeOK, seen, CellsOf
  <1>10. CASE MarkDone(d)
    BY <1>10 DEF MarkDone, TypeOK, ControlOK, StoreTypeOK, storeVars, seen, durable, Checkpoints
  <1>11. CASE SaveCheckpoint(d)
    BY <1>11 DEF SaveCheckpoint, TypeOK, StoreTypeOK, durable
  <1>12. CASE SaveSync(d)
    BY <1>12, FsyncType DEF SaveSync, TypeOK, seen
  <1>13. CASE Unlink(d)
    BY <1>13, BlankImage DEF Unlink, TypeOK, StoreTypeOK, durable
  <1>14. CASE UnlinkSync(d)
    BY <1>14, FsyncType DEF UnlinkSync, TypeOK, seen
  <1>15. CASE WorkerFails(d)
    BY <1>15, SolverAssumption
    DEF WorkerFails, TypeOK, StoreTypeOK, storeVars, seen, durable
  <1>16. QED
    BY <1>1, <1>2, <1>3, <1>4, <1>5, <1>6, <1>7, <1>8, <1>9, <1>10, <1>11, <1>12, <1>13,
       <1>14, <1>15 DEF WorkerStep

LEMMA EndType ==
  ASSUME TypeOK, ControlOK,
         \/ LoadRefused \/ LoadComplete \/ JoinFailed \/ FinishSync
         \/ Kill \/ PowerLoss \/ WriteBack
  PROVE  TypeOK'
  <1> USE DEF workers, history
  <1>0. CASE LoadRefused
    <2>1. StoreTypeOK'
      BY <1>0, FsyncType
      DEF LoadRefused, TypeOK, CleanupTemps, seen, storeVars, durable, StoreTypeOK
    <2>2. QED
      BY <1>0, <2>1, IdleType DEF LoadRefused, TypeOK
  <1>1. CASE JoinFailed \/ Kill
    BY <1>1, IdleType, SolverAssumption
    DEF JoinFailed, Kill, TypeOK, StoreTypeOK, storeVars, seen, durable
  <1>2. CASE LoadComplete
    <2>1. StoreTypeOK'
      BY <1>2, FsyncType
      DEF LoadComplete, TypeOK, CleanupTemps, seen, storeVars, durable, StoreTypeOK
    <2>2. printed' \subseteq Mods \X Values
      BY <1>2, StoreAssumption DEF LoadComplete, TypeOK, StoreTypeOK, Images, Cells, ControlOK
    <2>3. QED
      BY <1>2, <2>1, <2>2, IdleType DEF LoadComplete, TypeOK
  <1>3. CASE FinishSync
    <2>1. StoreTypeOK'
      BY <1>3, FsyncType DEF FinishSync, TypeOK, seen
    <2>2. printed' \subseteq Mods \X Values
      BY <1>3, StoreAssumption DEF FinishSync, TypeOK, StoreTypeOK, Images, Cells, ControlOK
    <2>3. QED
      BY <1>3, <2>1, <2>2, IdleType DEF FinishSync, TypeOK
  <1>4. CASE PowerLoss
    <2>1. StoreTypeOK'
      BY <1>4, BlankImage DEF PowerLoss, LosePower, TypeOK, StoreTypeOK
    <2>2. QED
      BY <1>4, <2>1, IdleType, SolverAssumption DEF PowerLoss, TypeOK
  <1>5. CASE WriteBack
    <2>1. StoreTypeOK'
      BY <1>5, PersistType DEF WriteBack, WriteBackMetadata, WriteBackPage, TypeOK, seen
    <2>2. QED
      BY <1>5, <2>1 DEF WriteBack, TypeOK
  <1>6. QED
    BY <1>0, <1>1, <1>2, <1>3, <1>4, <1>5

-----------------------------------------------------------------------------
(***************************************************************************)
(* The control invariant: the records and program counters that make the   *)
(* steps above well typed.                                                 *)
(***************************************************************************)
LEMMA PersistControl ==
  ASSUME GoodCheckpoint(cpv), GoodCheckpoint(cpd), NEW P, NEW E, NEW T, NEW J,
         Persist(P, E, T, J)
  PROVE  GoodCheckpoint(cpd)'
  BY DEF Persist, GoodCheckpoint

LEMMA FsyncControl ==
  ASSUME GoodCheckpoint(cpv), GoodCheckpoint(cpd),
         \/ FsyncStoreDir \/ FsyncUndoDir \/ (\E C \in SUBSET Cells : SyncIntervals(C))
         \/ CleanupTemps
  PROVE  GoodCheckpoint(cpd)'
  BY PersistControl
  DEF FsyncStoreDir, FsyncUndoDir, SyncIntervals, PersistAll, CleanupTemps, storeVars,
      durable, GoodCheckpoint

LEMMA DownControl ==
  ASSUME Down, GoodCheckpoint(cpv)', GoodCheckpoint(cpd)'
  PROVE  ControlOK'
  BY DEF Down, Idle, ControlOK, GoodCheckpoint, NoCheckpoint, Late

LEMMA StartControl ==
  ASSUME TypeOK, ControlOK,
         \/ \E m \in Mods, fresh \in BOOLEAN : Launch(m, fresh)
         \/ FreshRemoveCheckpoint \/ FreshRemoveUndo \/ FreshSync
         \/ LoadNothing \/ LoadResume \/ OpenFresh \/ InitStore \/ InitSync
  PROVE  ControlOK'
  <1> USE DEF ControlOK, Late, workers, history
  <1>1. CASE \E m \in Mods, fresh \in BOOLEAN : Launch(m, fresh)
    BY <1>1 DEF Launch, storeVars, seen, durable, GoodCheckpoint
  <1>2. CASE FreshRemoveCheckpoint
    <2>1. cpv' = NoCheckpoint \/ (RemoveErrors /\ cpv' = cpv)
      BY <1>2 DEF FreshRemoveCheckpoint
    <2>2. GoodCheckpoint(cpv)' /\ (~cpv'.here \/ RemoveErrors)
      BY <2>1 DEF GoodCheckpoint, NoCheckpoint
    <2>3. QED
      BY <1>2, <2>2 DEF FreshRemoveCheckpoint, durable, GoodCheckpoint
  <1>3. CASE FreshRemoveUndo
    BY <1>3 DEF FreshRemoveUndo, durable, GoodCheckpoint
  <1>4. CASE FreshSync
    BY <1>4, FsyncControl DEF FreshSync, seen, GoodCheckpoint
  <1>5. CASE LoadNothing
    BY <1>5, FsyncControl DEF LoadNothing, seen, CleanupTemps, storeVars, GoodCheckpoint
  <1>6. CASE LoadResume
    BY <1>6, FsyncControl DEF LoadResume, Acceptable, seen, CleanupTemps, storeVars, GoodCheckpoint
  <1>7. CASE OpenFresh
    BY <1>7 DEF OpenFresh, GoodCheckpoint
  <1>8. CASE InitStore
    BY <1>8 DEF InitStore, durable, GoodCheckpoint
  <1>9. CASE InitSync
    BY <1>9, FsyncControl, StoreAssumption DEF InitSync, seen, Cells, Windows, GoodCheckpoint
  <1>10. QED
    BY <1>1, <1>2, <1>3, <1>4, <1>5, <1>6, <1>7, <1>8, <1>9

LEMMA WindowControl ==
  ASSUME TypeOK, ControlOK,
         \/ BeginSameWindow \/ BeginWindow \/ BeginSync
         \/ \E g \in Groups : RecoverNothing(g) \/ RecoverDone(g) \/ RecoverUndo(g)
         \/ RestoreSlot \/ RestoreSync \/ RestoreUnlink \/ RecoverUnlinkSync
         \/ StartWorkers \/ NextWindow \/ Finish
  PROVE  ControlOK'
  <1> USE DEF ControlOK, Late, workers, history
  <1>1. CASE BeginSameWindow
    BY <1>1 DEF BeginSameWindow, storeVars, seen, durable, GoodCheckpoint
  <1>2. CASE BeginWindow
    BY <1>2 DEF BeginWindow, durable, GoodCheckpoint, FreshCheckpoint
  <1>3. CASE BeginSync
    BY <1>3, FsyncControl DEF BeginSync, seen, GoodCheckpoint
  <1>4. CASE \E g \in Groups : RecoverNothing(g)
    BY <1>4 DEF RecoverNothing, storeVars, seen, durable, GoodCheckpoint
  <1>5. CASE \E g \in Groups : RecoverDone(g)
    BY <1>5 DEF RecoverDone, durable, GoodCheckpoint
  <1>6. CASE \E g \in Groups : RecoverUndo(g)
    BY <1>6 DEF RecoverUndo, storeVars, seen, durable, GoodCheckpoint
  <1>7. CASE RestoreSlot
    BY <1>7 DEF RestoreSlot, durable, GoodCheckpoint
  <1>8. CASE RestoreSync
    BY <1>8, FsyncControl DEF RestoreSync, seen, CellsOf, GoodCheckpoint
  <1>9. CASE RestoreUnlink
    BY <1>9 DEF RestoreUnlink, durable, GoodCheckpoint
  <1>10. CASE RecoverUnlinkSync
    BY <1>10, FsyncControl DEF RecoverUnlinkSync, seen, GoodCheckpoint
  <1>11. CASE StartWorkers
    BY <1>11 DEF StartWorkers, storeVars, seen, durable, GoodCheckpoint
  <1>12. CASE NextWindow
    BY <1>12, StoreAssumption
    DEF NextWindow, Joined, TypeOK, Windows, storeVars, seen, durable, GoodCheckpoint
  <1>13. CASE Finish
    BY <1>13 DEF Finish, AllDone, Joined, TypeOK, durable, Checkpoints, GoodCheckpoint
  <1>14. QED
    BY <1>1, <1>2, <1>3, <1>4, <1>5, <1>6, <1>7, <1>8, <1>9, <1>10, <1>11, <1>12, <1>13

LEMMA WorkerControl ==
  ASSUME TypeOK, ControlOK, NEW d \in Gpus, WorkerStep(d) \/ WorkerFails(d)
  PROVE  ControlOK'
  <1> USE DEF workers, history, Transition, ControlOK, Late, TypeOK
  <1>1. CASE ClaimDone(d)
    BY <1>1 DEF ClaimDone, storeVars, seen, durable, GoodCheckpoint
  <1>2. CASE Claim(d)
    BY <1>2 DEF Claim, storeVars, seen, durable, GoodCheckpoint
  <1>3. CASE Leave(d)
    BY <1>3 DEF Leave, storeVars, seen, durable, GoodCheckpoint
  <1>4. CASE Gather(d)
    BY <1>4 DEF Gather, storeVars, seen, durable, GoodCheckpoint
  <1>5. CASE PrepareJournal(d)
    BY <1>5 DEF PrepareJournal, durable, GoodCheckpoint
  <1>6. CASE JournalSync(d)
    BY <1>6, FsyncControl DEF JournalSync, seen, GoodCheckpoint
  <1>7. CASE Compute(d)
    BY <1>7 DEF Compute, storeVars, seen, durable, GoodCheckpoint
  <1>8. CASE ScatterSlot(d)
    BY <1>8 DEF ScatterSlot, durable, GoodCheckpoint
  <1>9. CASE CommitSync(d)
    BY <1>9, FsyncControl DEF CommitSync, seen, CellsOf, GoodCheckpoint
  <1>10. CASE MarkDone(d)
    BY <1>10 DEF MarkDone, storeVars, seen, durable, Checkpoints, GoodCheckpoint
  <1>11. CASE SaveCheckpoint(d)
    BY <1>11 DEF SaveCheckpoint, durable, GoodCheckpoint
  <1>12. CASE SaveSync(d)
    BY <1>12, FsyncControl DEF SaveSync, seen, GoodCheckpoint
  <1>13. CASE Unlink(d)
    BY <1>13 DEF Unlink, durable, GoodCheckpoint
  <1>14. CASE UnlinkSync(d)
    BY <1>14, FsyncControl DEF UnlinkSync, seen, GoodCheckpoint
  <1>15. CASE WorkerFails(d)
    BY <1>15 DEF WorkerFails, storeVars, seen, durable, GoodCheckpoint
  <1>16. QED
    BY <1>1, <1>2, <1>3, <1>4, <1>5, <1>6, <1>7, <1>8, <1>9, <1>10, <1>11, <1>12, <1>13,
       <1>14, <1>15 DEF WorkerStep

LEMMA EndControl ==
  ASSUME TypeOK, ControlOK,
         \/ LoadRefused \/ LoadComplete \/ JoinFailed \/ FinishSync
         \/ Kill \/ PowerLoss \/ WriteBack
  PROVE  ControlOK'
  <1>0. CASE LoadRefused
    BY <1>0, DownControl, FsyncControl
    DEF LoadRefused, CleanupTemps, storeVars, seen, durable, ControlOK, GoodCheckpoint
  <1>1. CASE JoinFailed \/ Kill
    BY <1>1, DownControl
    DEF JoinFailed, Kill, storeVars, seen, durable, ControlOK, GoodCheckpoint
  <1>2. CASE LoadComplete
    BY <1>2, DownControl, FsyncControl
    DEF LoadComplete, CleanupTemps, storeVars, seen, ControlOK, GoodCheckpoint
  <1>3. CASE FinishSync
    BY <1>3, DownControl, FsyncControl DEF FinishSync, seen, ControlOK, GoodCheckpoint
  <1>4. CASE PowerLoss
    BY <1>4, DownControl DEF PowerLoss, LosePower, ControlOK, GoodCheckpoint
  <1>5. CASE WriteBack
    <2>1. GoodCheckpoint(cpd)' /\ UNCHANGED cpv
      BY <1>5, PersistControl DEF WriteBack, WriteBackMetadata, WriteBackPage, seen, ControlOK
    <2>2. QED
      BY <1>5, <2>1 DEF WriteBack, workers, history, ControlOK, GoodCheckpoint, Late
  <1>6. QED
    BY <1>0, <1>1, <1>2, <1>3, <1>4, <1>5

-----------------------------------------------------------------------------
(***************************************************************************)
(* MainStep and the other disjuncts of Next, in the families of the lemmas *)
(* above.                                                                  *)
(***************************************************************************)
LEMMA NextFamilies ==
  ASSUME Next
  PROVE  \/ \/ \E m \in Mods, fresh \in BOOLEAN : Launch(m, fresh)
            \/ FreshRemoveCheckpoint \/ FreshRemoveUndo \/ FreshSync
            \/ LoadNothing \/ LoadResume \/ OpenFresh \/ InitStore \/ InitSync
         \/ \/ BeginSameWindow \/ BeginWindow \/ BeginSync
            \/ \E g \in Groups : RecoverNothing(g) \/ RecoverDone(g) \/ RecoverUndo(g)
            \/ RestoreSlot \/ RestoreSync \/ RestoreUnlink \/ RecoverUnlinkSync
            \/ StartWorkers \/ NextWindow \/ Finish
         \/ \E d \in Gpus : WorkerStep(d) \/ WorkerFails(d)
         \/ \/ LoadRefused \/ LoadComplete \/ JoinFailed \/ FinishSync
            \/ Kill \/ PowerLoss \/ WriteBack
  BY DEF Next, MainStep

LEMMA InitTypes == Init => TypeOK /\ ControlOK
  <1>1. SUFFICES ASSUME Init PROVE TypeOK /\ ControlOK
    OBVIOUS
  <1>2. StoreTypeOK
    BY <1>1, BlankImage, IdealValues DEF Init, StoreInit, StoreTypeOK, Images
  <1>3. TypeOK
    <2>1. 0 \in 0 .. NW /\ 0 \in 0 .. MaxFaults
      BY StoreAssumption, SolverAssumption
    <2>2. rest \in [Gpus \cup {Main} -> SUBSET Cells] /\ wpc \in [Gpus -> WorkerPCs]
      BY <1>1 DEF Init, WorkerPCs
    <2>3. wgrp \in [Gpus -> Groups \cup {NoGroup}] /\ buf \in [Gpus -> Images]
      BY <1>1, BlankImage DEF Init
    <2>4. QED
      BY <1>1, <1>2, <2>1, <2>2, <2>3, BlankImage DEF Init, TypeOK, MainPCs
  <1>4. ControlOK
    BY <1>1 DEF Init, StoreInit, ControlOK, GoodCheckpoint, NoCheckpoint, Late
  <1>5. QED
    BY <1>3, <1>4

LEMMA NextTypes == TypeOK /\ ControlOK /\ [Next]_vars => TypeOK' /\ ControlOK'
  <1>1. CASE UNCHANGED vars
    BY <1>1
    DEF vars, storeVars, seen, durable, workers, history, TypeOK, StoreTypeOK, ControlOK,
        GoodCheckpoint
  <1>2. CASE Next
    BY <1>2, NextFamilies, StartType, WindowType, WorkerType, EndType, StartControl,
       WindowControl, WorkerControl, EndControl
  <1>3. QED
    BY <1>1, <1>2

(***************************************************************************)
(* Every variable keeps its type, and the checkpoint records and program   *)
(* counters stay consistent, whatever crashes, failed calls, power losses  *)
(* and write-backs happen.                                                 *)
(***************************************************************************)
THEOREM TypeCorrect == Spec => [](TypeOK /\ ControlOK)
  BY InitTypes, NextTypes, PTL DEF Spec

-----------------------------------------------------------------------------
(***************************************************************************)
(* What synchronising calls, write-back and a power loss do to the invariant*)
(* of the store (StoreInv), whatever the threads do. The file system commits*)
(* its metadata in order (Ordered).                                        *)
(***************************************************************************)
\* Some pages reach the disk and nothing else does.
PagesStep(P) ==
    /\ truncated = {} \/ P = {}
    /\ Persist(P, {}, {}, {})

\* Every synchronising call or write-back is one of the two.
DurableStep(P) == UNCHANGED seen /\ (PagesStep(P) \/ PersistAll(P))

(***************************************************************************)
(* The parts of StoreInv that speak of the store alone.                    *)
(***************************************************************************)
StoreOnly ==
    /\ SeenSound /\ DurableSound /\ JournalsGenuine /\ DirectoryOK /\ DurableLag
    /\ LagClean
    /\ truncated \in {{}, Files}
    /\ truncated # {} => ~cpv.here

LEMMA OwnGroup == \A w \in Windows, c \in Cells : Own[w][c] \in Groups /\ <<w, Own[w][c]>> \in Keys
  BY StoreAssumption DEF Keys

LEMMA StoreOnlyOfInv == StoreInv => StoreOnly
  BY DEF StoreInv, StoreOnly, TruncationOK

LEMMA EmptyFiles == Files # {} /\ \A c \in Cells : FileOf(c) \in Files
  BY DEF Files, FileOf

-----------------------------------------------------------------------------
LEMMA PagesEffect ==
  ASSUME StoreTypeOK, NEW P, PagesStep(P), UNCHANGED seen
  PROVE  /\ \A c \in Cells : disk'[c] = IF PageOf[c] \in P THEN cache[c] ELSE disk[c]
         /\ UNCHANGED <<seen, truncated, cpd, dird, jnld>>
  <1>1. jnld' = [k \in Keys |-> jnld[k]] /\ cpd' = cpd /\ dird' = dird /\ truncated' = truncated
    BY DEF PagesStep, Persist
  <1>2. jnld' = jnld
    BY <1>1 DEF StoreTypeOK
  <1>3. QED
    BY <1>1, <1>2 DEF PagesStep, Persist

LEMMA AllEffect ==
  ASSUME StoreTypeOK, NEW P, PersistAll(P), UNCHANGED seen
  PROVE  /\ \A c \in Cells :
               disk'[c] = IF PageOf[c] \in P THEN cache[c]
                          ELSE IF FileOf(c) \in truncated THEN Zeroed(c)
                          ELSE disk[c]
         /\ truncated' = {} /\ cpd' = cpv /\ dird' = dirv /\ jnld' = jnl
  <1>1. \A c \in Cells : disk'[c] = IF PageOf[c] \in P THEN cache[c]
                          ELSE IF FileOf(c) \in truncated THEN Zeroed(c)
                          ELSE disk[c]
    BY EmptyFiles DEF PersistAll, Persist
  <1>2. truncated' = {} /\ cpd' = cpv /\ dird' = dirv
    BY DEF PersistAll, Persist, StoreTypeOK, StoreEntries
  <1>3. jnld' = jnl
    <2>1. jnld' = [k \in Keys |-> jnl[k]]
      BY DEF PersistAll, Persist
    <2>2. QED
      BY <2>1 DEF StoreTypeOK
  <1>4. QED
    BY <1>1, <1>2, <1>3

LEMMA CleanKept ==
  ASSUME StoreTypeOK, NEW P, DurableStep(P), truncated = {}
  PROVE  /\ truncated' = {}
         /\ \A c \in Cells : /\ disk'[c] = disk[c] \/ disk'[c] = cache[c]
                             /\ PageOf[c] \in P => disk'[c] = cache[c]
         /\ \A c \in Cells : \A v : Clean(c, v) => Clean(c, v)'
  <1>1. truncated' = {} /\ \A c \in Cells : disk'[c] = IF PageOf[c] \in P THEN cache[c] ELSE disk[c]
    BY PagesEffect, AllEffect DEF DurableStep
  <1>2. QED
    BY <1>1 DEF Clean, DurableStep, seen

LEMMA StoreStep ==
  ASSUME StoreTypeOK, GoodCheckpoint(cpv), GoodCheckpoint(cpd), StoreOnly, NEW P, DurableStep(P)
  PROVE  StoreOnly'
  <1> USE DEF StoreOnly
  <1>1. CASE PagesStep(P)
    <2>1. /\ \A c \in Cells : disk'[c] = IF PageOf[c] \in P THEN cache[c] ELSE disk[c]
          /\ UNCHANGED <<seen, truncated, cpd, dird, jnld>>
      BY <1>1, PagesEffect DEF DurableStep
    <2>2. UNCHANGED <<cache, cpv, dirv, jnl, truncated, cpd, dird, jnld>>
      BY <2>1 DEF seen
    <2>3. SeenSound'
      <3>1. CASE truncated = {}
        BY <2>2, <3>1, CleanKept, OwnGroup DEF SeenSound, SoundSlot, GoodCheckpoint
      <3>2. CASE truncated # {}
        BY <2>2, <3>2 DEF SeenSound
      <3>3. QED
        BY <3>1, <3>2
    <2>4. DurableSound'
      <3>1. CASE truncated = {}
        BY <2>2, <3>1, CleanKept DEF DurableSound, SoundSlot
      <3>2. CASE truncated # {}
        <4>1. \A c \in Cells : disk'[c] = disk[c]
          BY <1>1, <2>1, <3>2 DEF PagesStep
        <4>2. QED
          BY <2>2, <3>2, <4>1 DEF DurableSound, SoundOnDisk
      <3>3. QED
        BY <3>1, <3>2
    <2>5. JournalsGenuine' /\ DirectoryOK'
      BY <2>2 DEF JournalsGenuine, Genuine, DirectoryOK
    <2>6. DurableLag'
      BY <2>2 DEF DurableLag, Settled
    <2>7. LagClean'
      BY <2>2, CleanKept DEF LagClean
    <2>8. QED
      BY <2>2, <2>3, <2>4, <2>5, <2>6, <2>7
  <1>2. CASE PersistAll(P)
    <2>1. /\ UNCHANGED <<cache, cpv, dirv, jnl>>
          /\ truncated' = {} /\ cpd' = cpv /\ dird' = dirv /\ jnld' = jnl
      BY <1>2, AllEffect DEF DurableStep, seen
    <2>2. SeenSound'
      <3>1. CASE cpv.here
        <4>1. truncated = {}
          BY <3>1
        <4>2. QED
          BY <2>1, <4>1, CleanKept DEF SeenSound, SoundSlot
      <3>2. CASE ~cpv.here
        BY <2>1, <3>2 DEF SeenSound
      <3>3. QED
        BY <3>1, <3>2
    <2>3. DurableSound'
      BY <2>1, <2>2 DEF SeenSound, SoundSlot, DurableSound
    <2>4. JournalsGenuine' /\ DirectoryOK'
      BY <2>1 DEF JournalsGenuine, Genuine, DirectoryOK
    <2>5. DurableLag' /\ LagClean'
      BY <2>1 DEF DurableLag, LagClean, Settled
    <2>6. QED
      BY <2>1, <2>2, <2>3, <2>4, <2>5
  <1>3. QED
    BY <1>1, <1>2 DEF DurableStep

(***************************************************************************)
(* What the threads rely on survives: a group settled durably stays so, a  *)
(* durable journal that processes still see stays durable.                 *)
(***************************************************************************)
LEMMA SettledKept ==
  ASSUME StoreTypeOK, NEW P, DurableStep(P), NEW w, NEW g, Settled(w, g),
         cpv.here, cpv.win = w, g \in cpv.done \/ jnl[<<w, g>>].here
  PROVE  Settled(w, g)'
  BY PagesEffect, AllEffect DEF DurableStep, Settled

LEMMA ProtectedKept ==
  ASSUME StoreTypeOK, NEW P, DurableStep(P), NEW g, Protected(g), UNCHANGED win,
         cpv.here, cpv.win = win, g \notin cpv.done
  PROVE  Protected(g)'
  BY PagesEffect, AllEffect DEF DurableStep, Protected, seen

-----------------------------------------------------------------------------
(***************************************************************************)
(* The calls of the code and the steps of the file system, as DurableSteps.*)
(***************************************************************************)
LEMMA FsyncIsAll ==
  ASSUME Ordered
  PROVE  /\ FsyncStoreDir => PersistAll({})
         /\ FsyncUndoDir => PersistAll({})
  BY DEF FsyncStoreDir, FsyncUndoDir

LEMMA MsyncStep ==
  ASSUME Ordered, StoreTypeOK, UNCHANGED seen, truncated \in {{}, Files},
         NEW C \in SUBSET Cells, SyncIntervals(C)
  PROVE  DurableStep(PagesOf(C))
  <1>1. CASE FilesOf(C) \cap truncated # {}
    BY <1>1 DEF SyncIntervals, DurableStep
  <1>2. CASE FilesOf(C) \cap truncated = {}
    <2>1. Persist(PagesOf(C), {}, {}, {})
      BY <1>2 DEF SyncIntervals
    <2>2. C # {} => truncated = {}
      BY <1>2, EmptyFiles DEF FilesOf
    <2>3. C = {} => PagesOf(C) = {}
      BY DEF PagesOf
    <2>4. QED
      BY <2>1, <2>2, <2>3 DEF DurableStep, PagesStep
  <1>3. QED
    BY <1>1, <1>2

LEMMA TempsStep ==
  ASSUME Ordered, StoreTypeOK, CleanupTemps
  PROVE  \E P : DurableStep(P)
  <1>1. CASE dirv
    BY <1>1, FsyncIsAll DEF CleanupTemps, DurableStep
  <1>2. CASE ~dirv
    <2>1. UNCHANGED storeVars
      BY <1>2 DEF CleanupTemps
    <2>2. disk' = [c \in Cells |-> disk[c]] /\ jnld' = [k \in Keys |-> jnld[k]]
      BY <2>1 DEF StoreTypeOK, Images, storeVars, durable
    <2>3. PagesStep({})
      BY <2>1, <2>2 DEF PagesStep, Persist, storeVars, durable
    <2>4. QED
      BY <2>1, <2>3 DEF DurableStep, storeVars
  <1>3. QED
    BY <1>1, <1>2

LEMMA WriteBackStep ==
  ASSUME Ordered, StoreTypeOK, truncated \in {{}, Files}, WriteBack
  PROVE  \E P : DurableStep(P)
  <1>1. CASE WriteBackMetadata
    BY <1>1 DEF WriteBackMetadata, MetadataUnits, PersistAll, DurableStep
  <1>2. CASE \E p \in Pages : WriteBackPage(p)
    <2>1. PICK p \in Pages : WriteBackPage(p)
      BY <1>2
    <2>2. truncated = {}
      BY <2>1, EmptyFiles DEF WriteBackPage
    <2>3. QED
      BY <2>1, <2>2 DEF WriteBackPage, DurableStep, PagesStep
  <1>3. QED
    BY <1>1, <1>2 DEF WriteBack

(***************************************************************************)
(* A power loss leaves the durable side, which is sound by DurableSound.   *)
(***************************************************************************)
LEMMA PowerStep ==
  ASSUME StoreTypeOK, GoodCheckpoint(cpd), StoreOnly, LosePower
  PROVE  StoreOnly' /\ truncated' = {}
  <1>1. /\ cache' = disk /\ disk' = disk /\ truncated' = {} /\ cpv' = cpd /\ cpd' = cpd
        /\ dirv' = dird /\ dird' = dird /\ jnl' = jnld'
        /\ jnld' = IF dird THEN jnld ELSE [k \in Keys |-> NoJournal]
    BY DEF LosePower
  <1>2. \A k \in Keys : jnld'[k].here = jnld[k].here
    <2>1. CASE dird
      BY <1>1, <2>1
    <2>2. CASE ~dird
      BY <1>1, <2>2 DEF StoreOnly, DirectoryOK, NoJournal, StoreTypeOK, Journals
    <2>3. QED
      BY <2>1, <2>2
  <1>3. \A k \in Keys : jnld[k].here => jnld'[k] = jnld[k]
    BY <1>1 DEF StoreOnly, DirectoryOK
  <1>4. SeenSound' /\ DurableSound'
    <2>1. SUFFICES ASSUME cpd.here, NEW c \in Cells
                   PROVE  SoundSlot(cpd, jnld, c)'
      BY <1>1 DEF SeenSound, DurableSound, SoundSlot
    <2>2. SoundOnDisk(c)
      BY <2>1 DEF StoreOnly, DurableSound, SoundSlot, SoundOnDisk, Clean
    <2>3. <<cpd.win, Own[cpd.win][c]>> \in Keys
      BY <2>1, OwnGroup DEF GoodCheckpoint
    <2>4. QED
      BY <1>1, <1>2, <2>2, <2>3 DEF SoundOnDisk, SoundSlot, Clean
  <1>5. JournalsGenuine' /\ DirectoryOK'
    BY <1>1, <1>2, <1>3 DEF StoreOnly, JournalsGenuine, Genuine, DirectoryOK
  <1>6. DurableLag' /\ LagClean'
    BY <1>1 DEF DurableLag, LagClean, Settled
  <1>7. QED
    BY <1>1, <1>4, <1>5, <1>6 DEF StoreOnly

-----------------------------------------------------------------------------
(***************************************************************************)
(* The inductive invariant.                                                *)
(***************************************************************************)
\* What the lemmas from here on preserve; those above preserve the rest.
Sound == StoreInv /\ ThreadInv /\ ResidueCorrect

LEMMA SoundParts == IInv <=> TypeOK /\ ControlOK /\ Sound
  BY DEF IInv, Sound

LEMMA StoreTypes == TypeOK /\ ControlOK => StoreTypeOK /\ GoodCheckpoint(cpv) /\ GoodCheckpoint(cpd)
  BY DEF TypeOK, ControlOK

\* A step that leaves the store alone leaves what is said of it alone.
LEMMA SameStore == StoreOnly /\ UNCHANGED storeVars => StoreOnly'
  BY DEF StoreOnly, storeVars, seen, durable, SeenSound, SoundSlot, DurableSound, SoundOnDisk, Clean,
         JournalsGenuine, Genuine, DirectoryOK, DurableLag, LagClean, Settled

\* Before the store is opened the threads promise nothing.
LEMMA EarlyStep ==
  ASSUME StoreOnly', ~cp'.here,
         main' \in {"down", "fresh_checkpoint", "fresh_undo", "fresh_sync", "load", "open"}
  PROVE  (StoreInv /\ ThreadInv)'
  BY DEF StoreOnly, StoreInv, TruncationOK, ThreadInv, Late, NewStore, InMemory, Recovery, Claims,
         Workers

LEMMA DownStep ==
  ASSUME StoreOnly', Down
  PROVE  (StoreInv /\ ThreadInv)'
  BY EarlyStep DEF Down, Idle, NoCheckpoint

LEMMA TempsStore ==
  ASSUME SafeUse, IInv, CleanupTemps
  PROVE  StoreOnly'
  BY TempsStep, StoreStep, StoreTypes, StoreOnlyOfInv DEF SafeUse, IInv, CleanupTemps, storeVars

\* The output of the last window, in the slot that is printed.
LEMMA FinalAnswer ==
  ASSUME IInv, cpv.here, cpv.done = Groups
  PROVE  cache[AnswerCell] = Ideal(cpv.mod, cpv.win)
  BY OwnGroup, StoreAssumption
  DEF IInv, ControlOK, GoodCheckpoint, StoreInv, SeenSound, SoundSlot, Clean, Cells

-----------------------------------------------------------------------------
(***************************************************************************)
(* Start-up, and every step after which no process is left.                *)
(***************************************************************************)
LEMMA LaunchSound ==
  ASSUME IInv, NEW m \in Mods, NEW fresh \in BOOLEAN, Launch(m, fresh)
  PROVE  Sound'
  <1>1. StoreOnly'
    BY SameStore, StoreOnlyOfInv DEF IInv, Launch
  <1>2. (StoreInv /\ ThreadInv)'
    BY <1>1, EarlyStep DEF Launch, IInv, ControlOK, Late
  <1>3. QED
    BY <1>2 DEF Sound, IInv, ResidueCorrect, Launch, history

LEMMA FreshSound ==
  ASSUME SafeUse, IInv, FreshRemoveCheckpoint \/ FreshRemoveUndo \/ FreshSync
  PROVE  Sound'
  <1> USE DEF IInv, StoreInv
  <1>1. ~cp.here /\ cp' = cp /\ main' \in {"fresh_undo", "fresh_sync", "load"}
    BY DEF ControlOK, Late, FreshRemoveCheckpoint, FreshRemoveUndo, FreshSync
  <1>2. StoreOnly'
    <2>1. CASE FreshRemoveCheckpoint
      <3>1. cpv' = NoCheckpoint
        BY <2>1 DEF FreshRemoveCheckpoint, SafeUse
      <3>2. UNCHANGED <<cache, disk, truncated, cpd, dirv, dird, jnl, jnld>>
        BY <2>1 DEF FreshRemoveCheckpoint, durable
      <3>3. DurableSound' /\ DirectoryOK' /\ SeenSound' /\ DurableLag' /\ LagClean'
        BY <3>1, <3>2
        DEF DurableSound, SoundSlot, SoundOnDisk, Clean, DirectoryOK, SeenSound, DurableLag, LagClean,
            NoCheckpoint
      <3>4. JournalsGenuine'
        <4>1. \A a, b \in Mods : a = b
          BY <2>1 DEF SafeUse, ControlOK, FreshRemoveCheckpoint
        <4>2. cpv.here => cpv.mod \in Mods
          BY DEF ControlOK, GoodCheckpoint
        <4>3. QED
          BY <3>1, <3>2, <4>1, <4>2 DEF JournalsGenuine, Genuine
      <3>5. QED
        BY <3>1, <3>2, <3>3, <3>4 DEF StoreOnly, TruncationOK, NoCheckpoint
    <2>2. CASE FreshRemoveUndo
      <3>1. ~cpv.here
        BY <2>2 DEF FreshRemoveUndo, ControlOK, SafeUse
      <3>2. UNCHANGED <<cache, disk, truncated, cpv, cpd, dird, jnld>>
        BY <2>2 DEF FreshRemoveUndo, durable
      <3>3. PICK keep \in SUBSET {k \in Keys : jnl[k].here} :
              /\ jnl' = [k \in Keys |-> IF k \in keep THEN jnl[k] ELSE NoJournal]
              /\ dirv' = (dirv /\ keep # {})
        BY <2>2 DEF FreshRemoveUndo
      <3>4. \A k \in Keys : jnl'[k].here => k \in keep /\ jnl[k].here /\ jnl'[k] = jnl[k]
        BY <3>3 DEF NoJournal
      <3>5. DurableSound' /\ SeenSound' /\ DurableLag' /\ LagClean'
        BY <3>1, <3>2
        DEF DurableSound, SoundSlot, SoundOnDisk, Clean, SeenSound, DurableLag, LagClean
      <3>6. JournalsGenuine' /\ DirectoryOK'
        BY <3>2, <3>3, <3>4 DEF JournalsGenuine, Genuine, DirectoryOK
      <3>7. QED
        BY <3>1, <3>2, <3>5, <3>6 DEF StoreOnly, TruncationOK
    <2>3. CASE FreshSync
      BY <2>3, FsyncIsAll, StoreStep, StoreTypes, StoreOnlyOfInv
      DEF FreshSync, DurableStep, SafeUse
    <2>4. QED
      BY <2>1, <2>2, <2>3
  <1>3. (StoreInv /\ ThreadInv)'
    BY <1>1, <1>2, EarlyStep
  <1>4. QED
    BY <1>3 DEF Sound, ResidueCorrect, FreshRemoveCheckpoint, FreshRemoveUndo, FreshSync, history

LEMMA LoadNothingSound ==
  ASSUME SafeUse, IInv, LoadNothing
  PROVE  Sound'
  <1>1. StoreOnly'
    BY TempsStore DEF LoadNothing
  <1>2. (StoreInv /\ ThreadInv)'
    BY <1>1, EarlyStep DEF LoadNothing, IInv, ControlOK, Late
  <1>3. QED
    BY <1>2 DEF Sound, IInv, ResidueCorrect, LoadNothing, history

LEMMA GoneSound ==
  ASSUME SafeUse, IInv,
         LoadRefused \/ LoadComplete \/ JoinFailed \/ FinishSync \/ Kill \/ PowerLoss
  PROVE  Sound'
  <1>0. CASE LoadRefused
    <2>1. StoreOnly'
      BY <1>0, TempsStore, SameStore, StoreOnlyOfInv DEF LoadRefused, IInv
    <2>2. QED
      BY <1>0, <2>1, DownStep DEF LoadRefused, history, IInv, Sound, ResidueCorrect
  <1>1. CASE JoinFailed \/ Kill
    <2>1. UNCHANGED <<storeVars, printed>> /\ Down
      BY <1>1 DEF JoinFailed, Kill, history
    <2>2. QED
      BY <2>1, SameStore, StoreOnlyOfInv, DownStep DEF IInv, Sound, ResidueCorrect
  <1>2. CASE LoadComplete
    <2>1. cache[AnswerCell] = Ideal(mod, NW)
      BY <1>2, FinalAnswer DEF LoadComplete, Acceptable, IInv, ControlOK, GoodCheckpoint
    <2>2. ResidueCorrect'
      BY <1>2, <2>1 DEF LoadComplete, IInv, ResidueCorrect
    <2>3. QED
      BY <1>2, <2>2, TempsStore, DownStep DEF LoadComplete, Sound
  <1>3. CASE FinishSync
    <2>1. StoreOnly'
      BY <1>3, FsyncIsAll, StoreStep, StoreTypes, StoreOnlyOfInv
      DEF FinishSync, DurableStep, SafeUse, IInv
    <2>2. cp.here /\ cp = cpv /\ cp.mod = mod /\ cp.done = Groups /\ cp.win = NW
      BY <1>3 DEF FinishSync, IInv, ControlOK, Late, ThreadInv, InMemory
    <2>3. ResidueCorrect'
      BY <1>3, <2>2, FinalAnswer DEF FinishSync, IInv, ResidueCorrect
    <2>4. QED
      BY <1>3, <2>1, <2>3, DownStep DEF FinishSync, Sound
  <1>4. CASE PowerLoss
    BY <1>4, PowerStep, StoreTypes, StoreOnlyOfInv, DownStep
    DEF PowerLoss, IInv, Sound, ResidueCorrect
  <1>5. QED
    BY <1>0, <1>1, <1>2, <1>3, <1>4

-----------------------------------------------------------------------------
(***************************************************************************)
(* The making of a new store, and the resumption of an old one.            *)
(***************************************************************************)
LEMMA OpenSound ==
  ASSUME IInv, OpenFresh \/ InitStore
  PROVE  Sound'
  <1> USE DEF IInv
  <1>1. StoreOnly /\ ~cpv.here /\ ~cp.here
    BY StoreOnlyOfInv DEF OpenFresh, InitStore, ControlOK, Late
  <1>2. CASE OpenFresh
    <2>1. /\ UNCHANGED <<disk, cpv, cpd, dirv, dird, jnl, jnld>>
          /\ cache' = [c \in Cells |-> Zeroed(c)] /\ truncated' = Files
      BY <1>2 DEF OpenFresh
    <2>2. SeenSound' /\ DurableLag' /\ LagClean' /\ JournalsGenuine' /\ DirectoryOK'
      BY <1>1, <2>1
      DEF StoreOnly, SeenSound, DurableLag, LagClean, JournalsGenuine, Genuine, DirectoryOK
    <2>3. DurableSound'
      BY <1>1, <2>1, EmptyFiles
      DEF StoreOnly, DurableSound, SoundSlot, SoundOnDisk, Clean
    <2>4. StoreInv' /\ TruncationOK'
      BY <1>1, <1>2, <2>1, <2>2, <2>3 DEF StoreInv, TruncationOK, OpenFresh, Late
    <2>5. ThreadInv'
      BY <1>1, <1>2, <2>1, EmptyFiles
      DEF OpenFresh, ThreadInv, NewStore, InMemory, Recovery, Claims, Workers, Zeroed
    <2>6. QED
      BY <1>2, <2>4, <2>5 DEF Sound, ResidueCorrect, OpenFresh, history
  <1>3. CASE InitStore
    <2>1. /\ UNCHANGED <<disk, truncated, cpv, cpd, dirv, dird, jnl, jnld>>
          /\ cache' = [cache EXCEPT ![InitCell] = Start]
      BY <1>3 DEF InitStore, durable
    <2>2. SeenSound' /\ DurableLag' /\ LagClean' /\ JournalsGenuine' /\ DirectoryOK'
      BY <1>1, <2>1
      DEF StoreOnly, SeenSound, DurableLag, LagClean, JournalsGenuine, Genuine, DirectoryOK
    <2>3. cpd.here => truncated # {}
      BY <1>3 DEF InitStore, ThreadInv, NewStore
    <2>4. DurableSound'
      BY <1>1, <2>1, <2>3 DEF StoreOnly, DurableSound, SoundOnDisk
    <2>5. StoreInv' /\ TruncationOK'
      BY <1>1, <1>3, <2>1, <2>2, <2>4 DEF StoreOnly, StoreInv, TruncationOK, InitStore, Late
    <2>6. cache'[InitCell] = Start /\ \A c \in Cells : c # InitCell => cache'[c] = cache[c]
      BY <2>1, StoreAssumption DEF TypeOK, StoreTypeOK, Images, Cells
    <2>7. ThreadInv'
      BY <1>1, <1>3, <2>1, <2>6
      DEF InitStore, ThreadInv, NewStore, InMemory, Recovery, Claims, Workers
    <2>8. QED
      BY <1>3, <2>5, <2>7 DEF Sound, ResidueCorrect, InitStore, history
  <1>4. QED
    BY <1>2, <1>3

LEMMA InitSyncSound ==
  ASSUME SafeUse, IInv, InitSync
  PROVE  Sound'
  <1> USE DEF IInv
  <1> DEFINE C == {InitCell}
  <1>1. StoreOnly /\ ~cpv.here /\ ~cp.here /\ C \in SUBSET Cells /\ InitCell \in Cells
    BY StoreOnlyOfInv, StoreAssumption DEF InitSync, ControlOK, Late, Cells
  <1>2. DurableStep(PagesOf(C)) /\ UNCHANGED seen
    BY <1>1, MsyncStep, StoreTypes DEF InitSync, SafeUse, StoreOnly
  <1>3. StoreOnly'
    BY <1>1, <1>2, StoreStep, StoreTypes
  <1>4. PageOf[InitCell] \in PagesOf(C)
    BY DEF PagesOf
  <1>5. \A c \in Cells : cache[c] = Start
    BY <1>1 DEF InitSync, ThreadInv, NewStore
  <1>6. truncated' = {} /\ ~cpd'.here /\ \A c \in Cells : disk'[c] = Start
    <2>1. CASE truncated = {}
      <3>1. ~cpd.here /\ \A c \in Cells : c # InitCell => disk[c] = Start
        BY <2>1 DEF InitSync, ThreadInv, NewStore
      <3>2. \A c \in Cells : disk'[c] = Start
        BY <1>2, <1>4, <1>5, <2>1, <3>1, CleanKept, StoreTypes
      <3>3. ~cpd'.here /\ truncated' = {}
        BY <1>1, <1>2, <2>1, <3>1, PagesEffect, AllEffect, StoreTypes DEF DurableStep
      <3>4. QED
        BY <3>2, <3>3
    <2>2. CASE truncated = Files
      <3>1. FilesOf(C) \cap truncated # {}
        BY <2>2, EmptyFiles, <1>1 DEF FilesOf
      <3>2. PersistAll(PagesOf(C))
        BY <3>1 DEF InitSync, SyncIntervals, SafeUse
      <3>3. QED
        BY <1>1, <1>2, <1>4, <1>5, <2>2, <3>2, AllEffect, EmptyFiles, StoreTypes DEF Zeroed
    <2>3. QED
      BY <1>1, <2>1, <2>2 DEF StoreOnly
  <1>7. StoreInv' /\ ThreadInv'
    BY <1>1, <1>2, <1>3, <1>5, <1>6
    DEF StoreOnly, StoreInv, TruncationOK, InitSync, seen, ThreadInv, NewStore, InMemory, Recovery,
        Claims, Workers, Clean
  <1>8. QED
    BY <1>7 DEF Sound, ResidueCorrect, InitSync, history

LEMMA LoadResumeSound ==
  ASSUME SafeUse, IInv, LoadResume
  PROVE  Sound'
  <1> USE DEF IInv
  <1>1. StoreOnly'
    BY TempsStore DEF LoadResume
  <1>2. UNCHANGED seen
    BY DEF LoadResume, CleanupTemps, storeVars
  <1>3. cpv.here /\ cp' = cpv /\ cpv' = cpv /\ mod' = mod /\ cpv.mod = mod /\ win' = cpv.win
        /\ main' = "begin"
    BY <1>2 DEF LoadResume, Acceptable, seen
  <1>4. \A c \in Cells : Own[cpv.win][c] \in cpv.done =>
            Clean(c, Ideal(mod, cpv.win))' /\ Settled(cpv.win, Own[cpv.win][c])'
    BY <1>1, <1>3 DEF StoreOnly, SeenSound, SoundSlot, DurableLag, Settled, Clean
  <1>5. InMemory'
    BY <1>3, <1>4 DEF InMemory, Clean, Settled
  <1>6. StoreInv' /\ ThreadInv'
    BY <1>1, <1>3, <1>5
    DEF StoreOnly, StoreInv, TruncationOK, ThreadInv, NewStore, Recovery, Claims, Workers
  <1>7. QED
    BY <1>6 DEF Sound, ResidueCorrect, LoadResume, history

-----------------------------------------------------------------------------
(***************************************************************************)
(* The opening of a window.                                                *)
(***************************************************************************)
LEMMA BeginSameSound ==
  ASSUME IInv, BeginSameWindow
  PROVE  Sound'
  <1> USE DEF IInv
  <1>1. StoreOnly' /\ UNCHANGED storeVars
    BY SameStore, StoreOnlyOfInv DEF BeginSameWindow
  <1>2. UNCHANGED <<cp, mod, win, printed>> /\ main' = "recover" /\ todo' = Groups /\ cp.here
    BY DEF BeginSameWindow, history
  <1>3. StoreInv'
    BY <1>1, <1>2
    DEF StoreOnly, StoreInv, TruncationOK, storeVars, seen, durable, BeginSameWindow, Late
  <1>4. win # cp.win + 1
    BY DEF BeginSameWindow, ControlOK, Late, Windows
  <1>5. InMemory'
    BY <1>1, <1>2, <1>4
    DEF BeginSameWindow, ThreadInv, InMemory, Clean, Settled, storeVars, seen, durable
  <1>6. ThreadInv'
    BY <1>2, <1>5 DEF ThreadInv, NewStore, Recovery, Claims, Workers
  <1>7. QED
    BY <1>2, <1>3, <1>6 DEF Sound, ResidueCorrect

LEMMA BeginWindowSound ==
  ASSUME IInv, BeginWindow
  PROVE  Sound'
  <1> USE DEF IInv
  <1>1. UNCHANGED <<cache, disk, truncated, cpd, dirv, dird, jnl, jnld, mod, win, printed>>
        /\ cpv' = FreshCheckpoint(mod, win) /\ cp' = cpv' /\ main' = "begin_sync"
        /\ main = "begin"
    BY DEF BeginWindow, durable, history
  <1>2. win \in Windows /\ mod \in Mods /\ truncated = {}
    BY <1>1 DEF ControlOK, Late, StoreInv, TruncationOK
  <1>3. cp.here => /\ win = cp.win + 1 /\ cp.win \in Windows /\ cp.done = Groups
                   /\ cpv.here /\ cpv.mod = mod /\ cpv.win = cp.win
                   /\ \A c \in Cells : Clean(c, Ideal(mod, cp.win)) /\ Settled(cp.win, Own[cp.win][c])
    BY <1>1, OwnGroup DEF BeginWindow, ThreadInv, InMemory, ControlOK, GoodCheckpoint
  <1>4. ~cp.here => win = 1 /\ ~cpv.here /\ ~cpd.here /\ \A c \in Cells : Clean(c, Start)
    BY <1>1 DEF ThreadInv, NewStore
  <1>5. \A c \in Cells : Clean(c, Ideal(mod, win - 1))
    <2>1. CASE cp.here
      BY <1>2, <1>3, <2>1 DEF Windows
    <2>2. CASE ~cp.here
      BY <1>4, <2>2 DEF Ideal
    <2>3. QED
      BY <2>1, <2>2
  <1>6. SeenSound'
    BY <1>1, <1>5 DEF SeenSound, SoundSlot, FreshCheckpoint, Clean
  <1>7. DurableSound' /\ DirectoryOK'
    BY <1>1 DEF StoreInv, DurableSound, SoundSlot, SoundOnDisk, Clean, DirectoryOK
  <1>8. JournalsGenuine'
    BY <1>1, <1>3, <1>4 DEF StoreInv, JournalsGenuine, Genuine, FreshCheckpoint
  <1>9. DurableLag'
    <2>1. CASE cp.here
      <3>1. cpd.here /\ cpd.win = cp.win /\ \A c \in Cells : Settled(cpd.win, Own[cpd.win][c])
        BY <1>3, <2>1, StoreAssumption DEF Settled, Cells
      <3>2. cpd.mod = mod
        BY <1>3, <2>1, <3>1 DEF StoreInv, DurableLag
      <3>3. QED
        BY <1>1, <1>3, <2>1, <3>1, <3>2 DEF DurableLag, FreshCheckpoint, Settled
    <2>2. CASE ~cp.here
      BY <1>1, <1>4, <2>2 DEF DurableLag, FreshCheckpoint
    <2>3. QED
      BY <2>1, <2>2
  <1>10. StoreInv'
    <2>1. LagClean'
      BY <1>1, <1>5 DEF LagClean, FreshCheckpoint, Clean
    <2>2. QED
      BY <1>1, <1>2, <1>6, <1>7, <1>8, <1>9, <2>1 DEF StoreInv, TruncationOK
  <1>11. ThreadInv'
    BY <1>1
    DEF ThreadInv, NewStore, InMemory, Recovery, Claims, Workers, FreshCheckpoint
  <1>12. QED
    BY <1>1, <1>10, <1>11 DEF Sound, ResidueCorrect

(***************************************************************************)
(* The memory of the coordinator survives a synchronising call.            *)
(***************************************************************************)
LEMMA MemoryKept ==
  ASSUME IInv, NEW P, DurableStep(P), UNCHANGED <<cp, mod>>, main \in Late,
         main' \in {"begin_sync", "recover", "restore", "restored", "unlink_sync", "finish_sync"} =>
              cp = cpv,
         main' # "begin"
  PROVE  InMemory'
  <1> USE DEF IInv
  <1>1. truncated = {}
    BY DEF StoreInv, TruncationOK
  <1>2. UNCHANGED <<cache, cpv, dirv, jnl>>
    BY DEF DurableStep, seen
  <1>3. SUFFICES ASSUME cp.here PROVE InMemory'
    BY DEF InMemory
  <1>4. SUFFICES ASSUME NEW c \in Cells, Own[cp.win][c] \in cp.done
                 PROVE  Clean(c, Ideal(mod, cp.win))' /\ Settled(cp.win, Own[cp.win][c])'
    BY <1>2, <1>3 DEF ThreadInv, InMemory
  <1>5. Clean(c, Ideal(mod, cp.win))'
    BY <1>1, <1>3, <1>4, CleanKept, StoreTypes DEF ThreadInv, InMemory, Clean
  <1>6. Settled(cp.win, Own[cp.win][c])'
    BY <1>3, <1>4, SettledKept, StoreTypes DEF ThreadInv, InMemory, Settled
  <1>7. QED
    BY <1>5, <1>6

LEMMA BeginSyncSound ==
  ASSUME SafeUse, IInv, BeginSync
  PROVE  Sound'
  <1> USE DEF IInv
  <1>1. DurableStep({})
    BY FsyncIsAll DEF BeginSync, SafeUse, DurableStep
  <1>2. StoreOnly' /\ truncated' = {}
    BY <1>1, StoreStep, CleanKept, StoreTypes, StoreOnlyOfInv DEF StoreInv, TruncationOK, BeginSync, Late
  <1>3. main = "begin_sync" /\ main' = "recover" /\ todo' = Groups /\ UNCHANGED <<cp, mod, win, printed>>
    BY DEF BeginSync, history
  <1>4. InMemory'
    BY <1>1, <1>3, MemoryKept DEF Late, ThreadInv, InMemory, ControlOK
  <1>5. StoreInv' /\ ThreadInv'
    BY <1>2, <1>3, <1>4
    DEF StoreOnly, StoreInv, TruncationOK, ThreadInv, NewStore, Recovery, Claims, Workers
  <1>6. QED
    BY <1>3, <1>5 DEF Sound, ResidueCorrect

-----------------------------------------------------------------------------
(***************************************************************************)
(* The recovery of a window. First two facts about single changes of the   *)
(* store: writing one slot, and removing one journal.                      *)
(***************************************************************************)
LEMMA SlotWritten ==
  ASSUME StoreTypeOK, GoodCheckpoint(cpv), StoreOnly, truncated = {}, NEW x \in Cells, NEW v,
         cache' = [cache EXCEPT ![x] = v],
         UNCHANGED <<disk, truncated, cpv, cpd, dirv, dird, jnl, jnld>>,
         cpv.here, Own[cpv.win][x] \notin cpv.done, jnl[<<cpv.win, Own[cpv.win][x]>>].here,
         cpd.here => \/ /\ Own[cpd.win][x] \notin cpd.done
                        /\ jnld[<<cpd.win, Own[cpd.win][x]>>].here
                     \/ disk[x] = v,
         \/ cpd.here /\ cpd.win = cpv.win
         \/ v = Ideal(cpv.mod, cpv.win - 1) /\ disk[x] = v
  PROVE  StoreOnly'
  <1>1. cache'[x] = v /\ \A c \in Cells : c # x => cache'[c] = cache[c]
    BY DEF StoreTypeOK, Images
  <1>2. SeenSound'
    BY <1>1 DEF StoreOnly, SeenSound, SoundSlot, Clean
  <1>3. DurableSound'
    BY <1>1 DEF StoreOnly, DurableSound, SoundSlot, Clean
  <1>4. JournalsGenuine' /\ DirectoryOK' /\ DurableLag'
    BY DEF StoreOnly, JournalsGenuine, Genuine, DirectoryOK, DurableLag, Settled
  <1>5. LagClean'
    BY <1>1 DEF StoreOnly, LagClean, Clean
  <1>6. QED
    BY <1>2, <1>3, <1>4, <1>5 DEF StoreOnly

LEMMA JournalRemoved ==
  ASSUME StoreTypeOK, GoodCheckpoint(cpv), StoreOnly, NEW w \in Windows, NEW g \in Groups,
         jnl' = [jnl EXCEPT ![<<w, g>>] = NoJournal],
         UNCHANGED <<cache, disk, truncated, cpv, cpd, dirv, dird, jnld>>,
         cpv.here => \/ g \in cpv.done
                     \/ \A c \in CellsOf(w, g) : Clean(c, Ideal(cpv.mod, w - 1)),
         cpv.here => cpv.win = w
  PROVE  StoreOnly'
  <1>1. <<w, g>> \in Keys
    BY DEF Keys
  <1>2. /\ jnl'[<<w, g>>].here = FALSE
        /\ \A k \in Keys : k # <<w, g>> => jnl'[k] = jnl[k]
    BY <1>1 DEF StoreTypeOK, NoJournal
  <1>3. SeenSound'
    <2>1. SUFFICES ASSUME cpv.here, NEW c \in Cells PROVE SoundSlot(cpv, jnl, c)'
      BY DEF SeenSound
    <2>2. SoundSlot(cpv, jnl, c) /\ <<cpv.win, Own[cpv.win][c]>> \in Keys
      BY <2>1, OwnGroup DEF StoreOnly, SeenSound, GoodCheckpoint
    <2>3. CASE Own[cpv.win][c] = g
      BY <2>1, <2>2, <2>3 DEF SoundSlot, CellsOf, Clean
    <2>4. CASE Own[cpv.win][c] # g
      BY <1>2, <2>1, <2>2, <2>4 DEF SoundSlot, Clean
    <2>5. QED
      BY <2>3, <2>4
  <1>4. DurableSound'
    BY DEF StoreOnly, DurableSound, SoundSlot, SoundOnDisk, Clean
  <1>5. JournalsGenuine' /\ DirectoryOK' /\ DurableLag' /\ LagClean'
    BY <1>2
    DEF StoreOnly, JournalsGenuine, Genuine, DirectoryOK, DurableLag, LagClean, Clean, Settled
  <1>6. QED
    BY <1>3, <1>4, <1>5 DEF StoreOnly

\* While groups are recovered, the coordinator has the checkpoint of this window.
LEMMA RecoverFacts ==
  ASSUME IInv, main \in {"recover", "restore", "restored", "unlink_sync"}
  PROVE  /\ cp.here /\ cpv = cp /\ cp.win = win /\ cp.mod = mod /\ win \in Windows
         /\ truncated = {} /\ StoreOnly /\ StoreTypeOK /\ GoodCheckpoint(cpv)
         /\ main \in {"restore", "restored", "unlink_sync"} => rgrp \in Groups
  BY StoreTypes, StoreOnlyOfInv
  DEF IInv, ControlOK, Late, ThreadInv, InMemory, StoreInv, TruncationOK

LEMMA RecoverSound ==
  ASSUME IInv, NEW g \in Groups, RecoverNothing(g) \/ RecoverUndo(g)
  PROVE  Sound'
  <1> USE DEF IInv
  <1>1. /\ cp.here /\ cpv = cp /\ cp.win = win /\ cp.mod = mod /\ win \in Windows
        /\ truncated = {} /\ main = "recover" /\ main' \in {"recover", "restore"}
        /\ UNCHANGED <<storeVars, cp, mod, win, printed>>
    BY RecoverFacts DEF RecoverNothing, RecoverUndo, history
  <1>2. StoreInv'
    BY <1>1, SameStore, StoreOnlyOfInv
    DEF StoreOnly, StoreInv, TruncationOK, storeVars, durable
  <1>3. InMemory'
    BY <1>1 DEF ThreadInv, InMemory, Clean, Settled, storeVars, seen, durable
  <1>4. Recovery'
    <2>1. CASE RecoverNothing(g)
      <3>1. g \notin cp.done => AtInput(g)
        BY <1>1, <2>1
        DEF RecoverNothing, JournalKey, StoreInv, SeenSound, SoundSlot, AtInput, CellsOf
      <3>2. main' = "recover" /\ todo' = todo \ {g}
        BY <1>1, <2>1 DEF RecoverNothing
      <3>3. QED
        BY <1>1, <3>1, <3>2 DEF ThreadInv, Recovery, AtInput, Clean, storeVars, seen, durable
    <2>2. CASE RecoverUndo(g)
      <3>1. rest'[Main] = CellsOf(win, g)
        BY <2>2 DEF RecoverUndo, TypeOK
      <3>2. /\ main' = "restore" /\ rgrp' = g /\ todo' = todo
            /\ jnl[<<win, g>>].here /\ g \notin cp.done
        BY <1>1, <2>2 DEF RecoverUndo, JournalKey
      <3>3. QED
        BY <1>1, <3>1, <3>2 DEF ThreadInv, Recovery, AtInput, Clean, storeVars, seen, durable
    <2>3. QED
      BY <2>1, <2>2
  <1>5. ThreadInv'
    BY <1>1, <1>3, <1>4 DEF ThreadInv, NewStore, Claims, Workers
  <1>6. QED
    BY <1>1, <1>2, <1>5 DEF Sound, ResidueCorrect

LEMMA RecoverUnlinkSound ==
  ASSUME IInv, RestoreUnlink \/ \E g \in Groups : RecoverDone(g)
  PROVE  Sound'
  <1> USE DEF IInv
  <1>1. PICK g \in Groups :
          /\ main \in {"recover", "restored"} /\ main' = "unlink_sync" /\ rgrp' = g
          /\ jnl' = [jnl EXCEPT ![<<win, g>>] = NoJournal]
          /\ UNCHANGED <<cache, disk, truncated, cpv, cpd, dirv, dird, jnld, cp, mod, win, todo,
                         printed>>
          /\ g \in cp.done \/ AtInput(g)
    <2>1. CASE RestoreUnlink
      BY <2>1, RecoverFacts
      DEF RestoreUnlink, JournalKey, ThreadInv, Recovery, durable, history
    <2>2. CASE \E g \in Groups : RecoverDone(g)
      BY <2>2, RecoverFacts DEF RecoverDone, JournalKey, durable, history
    <2>3. QED
      BY <2>1, <2>2
  <1>2. /\ cp.here /\ cpv = cp /\ cp.win = win /\ cp.mod = mod /\ win \in Windows
        /\ truncated = {} /\ StoreOnly /\ StoreTypeOK /\ GoodCheckpoint(cpv)
    BY <1>1, RecoverFacts
  <1>3. StoreInv'
    BY <1>1, <1>2, JournalRemoved
    DEF AtInput, StoreOnly, StoreInv, TruncationOK, Late
  <1>4. InMemory'
    BY <1>1, <1>2 DEF ThreadInv, InMemory, Clean, Settled
  <1>5. Recovery'
    BY <1>1, <1>2 DEF ThreadInv, Recovery, AtInput, Clean
  <1>6. ThreadInv'
    BY <1>1, <1>4, <1>5 DEF ThreadInv, NewStore, Claims, Workers
  <1>7. QED
    BY <1>1, <1>3, <1>6 DEF Sound, ResidueCorrect

LEMMA RestoreSlotSound ==
  ASSUME IInv, RestoreSlot
  PROVE  Sound'
  <1> USE DEF IInv
  <1>1. PICK x \in rest[Main] :
          /\ cache' = [cache EXCEPT ![x] = jnl[JournalKey(rgrp)].img[x]]
          /\ rest' = [rest EXCEPT ![Main] = @ \ {x}]
    BY DEF RestoreSlot, NextSlots
  <1>2. /\ cp.here /\ cpv = cp /\ cp.win = win /\ cp.mod = mod /\ win \in Windows
        /\ truncated = {} /\ StoreOnly /\ StoreTypeOK /\ GoodCheckpoint(cpv) /\ rgrp \in Groups
        /\ main = "restore" /\ main' = "restore" /\ mod \in Mods
    BY RecoverFacts DEF RestoreSlot, ControlOK
  <1>3. UNCHANGED <<disk, truncated, cpv, cpd, dirv, dird, jnl, jnld, cp, mod, win, todo, rgrp, printed>>
    BY DEF RestoreSlot, durable, history
  <1>4. /\ rgrp \notin cp.done /\ jnl[<<win, rgrp>>].here /\ rest[Main] \subseteq CellsOf(win, rgrp)
        /\ \A c \in CellsOf(win, rgrp) \ rest[Main] : cache[c] = Ideal(mod, win - 1)
    BY <1>2 DEF ThreadInv, Recovery
  <1>5. x \in Cells /\ Own[win][x] = rgrp /\ JournalKey(rgrp) = <<win, rgrp>> /\ <<win, rgrp>> \in Keys
    BY <1>1, <1>2, <1>4 DEF CellsOf, JournalKey, Keys
  <1>6. jnl[<<win, rgrp>>].img[x] = Ideal(mod, win - 1)
    BY <1>1, <1>2, <1>4, <1>5 DEF StoreOnly, JournalsGenuine, Genuine
  <1> DEFINE v == Ideal(mod, win - 1)
  <1>7. /\ cache' = [cache EXCEPT ![x] = v] /\ cache'[x] = v
        /\ \A c \in Cells : c # x => cache'[c] = cache[c]
    BY <1>1, <1>2, <1>5, <1>6 DEF StoreTypeOK, Images
  <1>8. cpd.here => \/ /\ Own[cpd.win][x] \notin cpd.done
                       /\ jnld[<<cpd.win, Own[cpd.win][x]>>].here
                    \/ disk[x] = v
    <2>1. SUFFICES ASSUME cpd.here
                   PROVE  \/ /\ Own[cpd.win][x] \notin cpd.done
                             /\ jnld[<<cpd.win, Own[cpd.win][x]>>].here
                          \/ disk[x] = v
      OBVIOUS
    <2>2. SoundSlot(cpd, jnld, x) /\ cpd.mod = mod
      BY <1>2, <1>5, <2>1 DEF StoreOnly, DurableSound, DurableLag
    <2>3. CASE cpd.win = win /\ cpd.done \subseteq cpv.done
      BY <1>2, <1>4, <1>5, <2>2, <2>3 DEF SoundSlot, Clean
    <2>4. CASE cpd.win + 1 = win /\ \A c \in Cells : Settled(cpd.win, Own[cpd.win][c])
      <3>1. cpd.win = win - 1
        BY <1>2, <2>1, <2>4, StoreTypes DEF Windows, GoodCheckpoint
      <3>2. QED
        BY <1>5, <2>2, <2>4, <3>1 DEF SoundSlot, Clean, Settled
    <2>5. QED
      BY <1>2, <2>1, <2>3, <2>4 DEF StoreOnly, DurableLag
  <1>9. StoreInv'
    <2>1. \/ cpd.here /\ cpd.win = cpv.win
          \/ v = Ideal(cpv.mod, cpv.win - 1) /\ disk[x] = v
      BY <1>2, <1>5 DEF StoreOnly, LagClean, Clean
    <2>2. StoreOnly'
      BY <1>2, <1>3, <1>4, <1>5, <1>7, <1>8, <2>1, SlotWritten
    <2>3. QED
      BY <1>2, <1>3, <2>2 DEF StoreOnly, StoreInv, TruncationOK
  <1>10. InMemory'
    BY <1>2, <1>3, <1>4, <1>5, <1>7 DEF ThreadInv, InMemory, Clean, Settled
  <1>11. Recovery'
    <2>1. rest'[Main] = rest[Main] \ {x}
      BY <1>1 DEF TypeOK
    <2>2. \A h \in Groups \ (todo \cup cp.done) : AtInput(h)'
      BY <1>2, <1>3, <1>5, <1>7 DEF ThreadInv, Recovery, AtInput, Clean, CellsOf
    <2>3. QED
      BY <1>2, <1>3, <1>4, <1>7, <2>1, <2>2 DEF Recovery, CellsOf
  <1>12. ThreadInv'
    BY <1>2, <1>10, <1>11 DEF ThreadInv, NewStore, Claims, Workers
  <1>13. QED
    BY <1>3, <1>9, <1>12 DEF Sound, ResidueCorrect

LEMMA RecoverSyncSound ==
  ASSUME SafeUse, IInv, RestoreSync \/ RecoverUnlinkSync
  PROVE  Sound'
  <1> USE DEF IInv
  <1>1. /\ cp.here /\ cpv = cp /\ cp.win = win /\ cp.mod = mod /\ win \in Windows
        /\ truncated = {} /\ StoreOnly /\ StoreTypeOK /\ GoodCheckpoint(cpv) /\ rgrp \in Groups
        /\ main' \in {"restored", "recover"} /\ main \in Late
        /\ UNCHANGED <<cache, cpv, dirv, jnl, cp, mod, win, printed>>
    BY RecoverFacts DEF RestoreSync, RecoverUnlinkSync, Late, seen, history
  <1>2. PICK P : /\ DurableStep(P)
                 /\ RestoreSync => P = PagesOf(CellsOf(win, rgrp))
    <2>1. CASE RestoreSync
      <3>1. CellsOf(win, rgrp) \in SUBSET Cells
        BY DEF CellsOf
      <3>2. DurableStep(PagesOf(CellsOf(win, rgrp)))
        BY <1>1, <2>1, <3>1, MsyncStep DEF RestoreSync, SafeUse, StoreOnly
      <3>3. QED
        BY <3>2
    <2>2. CASE RecoverUnlinkSync
      <3>1. DurableStep({})
        BY <2>2, FsyncIsAll DEF RecoverUnlinkSync, DurableStep, SafeUse
      <3>2. ~RestoreSync
        BY <2>2 DEF RestoreSync, RecoverUnlinkSync
      <3>3. QED
        BY <3>1, <3>2
    <2>3. QED
      BY <2>1, <2>2
  <1>3. StoreOnly' /\ truncated' = {}
    BY <1>1, <1>2, StoreStep, CleanKept, StoreTypes
  <1>4. \A h \in Groups : AtInput(h) => AtInput(h)'
    BY <1>1, <1>2, CleanKept DEF AtInput, CellsOf, Clean
  <1>5. InMemory'
    BY <1>1, <1>2, MemoryKept
  <1>6. Recovery'
    <2>1. CASE RestoreSync
      <3>1. \A c \in CellsOf(win, rgrp) : cache[c] = Ideal(mod, win - 1)
        BY <2>1 DEF RestoreSync, ThreadInv, Recovery
      <3>2. \A c \in CellsOf(win, rgrp) : PageOf[c] \in P
        BY <1>2, <2>1 DEF PagesOf
      <3>3. \A c \in CellsOf(win, rgrp) : c \in Cells /\ disk'[c] = cache[c]
        BY <1>1, <1>2, <3>2, CleanKept DEF CellsOf
      <3>4. UNCHANGED <<win, rgrp, mod, cache>>
        BY <1>1, <2>1 DEF RestoreSync
      <3>5. AtInput(rgrp)'
        BY <3>1, <3>3, <3>4 DEF AtInput, Clean
      <3>6. QED
        BY <1>1, <1>4, <2>1, <3>4, <3>5 DEF RestoreSync, ThreadInv, Recovery
    <2>2. CASE RecoverUnlinkSync
      BY <1>1, <1>4, <2>2 DEF RecoverUnlinkSync, ThreadInv, Recovery
    <2>3. QED
      BY <2>1, <2>2
  <1>7. StoreInv' /\ ThreadInv'
    BY <1>1, <1>3, <1>5, <1>6
    DEF StoreOnly, StoreInv, TruncationOK, ThreadInv, NewStore, Claims, Workers
  <1>8. QED
    BY <1>1, <1>7 DEF Sound, ResidueCorrect

LEMMA StartWorkersSound ==
  ASSUME IInv, StartWorkers
  PROVE  Sound'
  <1> USE DEF IInv
  <1>1. /\ main = "recover" /\ main' = "run" /\ todo = {} /\ todo' = Groups
        /\ wpc' = [d \in Gpus |-> "claim"]
        /\ UNCHANGED <<storeVars, cp, mod, win, printed>>
        /\ truncated = {}
    BY RecoverFacts DEF StartWorkers, history
  <1>2. StoreInv'
    BY <1>1, SameStore, StoreOnlyOfInv DEF StoreOnly, StoreInv, TruncationOK, storeVars, durable
  <1>3. InMemory'
    BY <1>1 DEF ThreadInv, InMemory, Clean, Settled, storeVars, seen, durable
  <1>4. Claims' /\ Workers'
    BY <1>1
    DEF ThreadInv, Recovery, Claims, Workers, ClaimOK, WorkerOK, Busy, AtInput, Clean, storeVars, seen,
        durable
  <1>5. ThreadInv'
    BY <1>1, <1>3, <1>4 DEF ThreadInv, NewStore, Recovery
  <1>6. QED
    BY <1>1, <1>2, <1>5 DEF Sound, ResidueCorrect

-----------------------------------------------------------------------------
(***************************************************************************)
(* The steps after the workers have joined, and write-back.                *)
(***************************************************************************)
LEMMA RunFacts ==
  ASSUME IInv, main = "run"
  PROVE  /\ cp.here /\ cp.win = win /\ cp.mod = mod /\ win \in Windows /\ mod \in Mods
         /\ cpv.here /\ cpv.mod = mod /\ cpv.win = win /\ cpv.done \subseteq cp.done
         /\ truncated = {} /\ StoreOnly /\ StoreTypeOK
         /\ GoodCheckpoint(cpv) /\ GoodCheckpoint(cpd) /\ GoodCheckpoint(cp)
         /\ InMemory
         /\ \A d \in Gpus : ClaimOK(d) /\ WorkerOK(d, wgrp[d])
         /\ \A d \in Gpus : Busy(d) => wgrp[d] \in Groups
  BY StoreTypes, StoreOnlyOfInv
  DEF IInv, ControlOK, Late, ThreadInv, InMemory, StoreInv, TruncationOK, Claims, Workers, Busy

LEMMA NextWindowSound ==
  ASSUME IInv, NextWindow
  PROVE  Sound'
  <1> USE DEF IInv
  <1>1. /\ main = "run" /\ main' = "begin" /\ win' = win + 1 /\ cp.done = Groups
        /\ UNCHANGED <<storeVars, cp, mod, printed>>
    BY DEF NextWindow, Joined, AllDone, history
  <1>2. StoreInv'
    BY <1>1, RunFacts, SameStore DEF StoreOnly, StoreInv, TruncationOK, storeVars, durable
  <1>3. InMemory'
    BY <1>1, RunFacts DEF InMemory, Clean, Settled, storeVars, seen, durable
  <1>4. ThreadInv'
    BY <1>1, <1>3, RunFacts DEF ThreadInv, NewStore, Recovery, Claims, Workers
  <1>5. QED
    BY <1>1, <1>2, <1>4 DEF Sound, ResidueCorrect

(***************************************************************************)
(* Saving the checkpoint of the coordinator: its done groups are durably   *)
(* settled, so it is sound to show them.                                   *)
(***************************************************************************)
LEMMA SavedStore ==
  ASSUME IInv, main = "run", NEW ck, cpv' = ck,
         ck.here, ck.mod = mod, ck.win = win, ck.done = cp.done,
         UNCHANGED <<cache, disk, truncated, cpd, dirv, dird, jnl, jnld>>
  PROVE  StoreOnly'
  <1>1. SeenSound'
    <2>1. SUFFICES ASSUME NEW c \in Cells PROVE SoundSlot(cpv, jnl, c)'
      BY DEF SeenSound
    <2>2. SoundSlot(cpv, jnl, c)
      BY RunFacts DEF StoreOnly, SeenSound
    <2>3. Own[win][c] \in cp.done => Clean(c, Ideal(mod, win))
      BY RunFacts DEF InMemory
    <2>4. QED
      BY <2>2, <2>3, RunFacts DEF SoundSlot, Clean
  <1>2. DurableSound' /\ DirectoryOK'
    BY RunFacts DEF StoreOnly, DurableSound, SoundSlot, SoundOnDisk, Clean, DirectoryOK
  <1>3. JournalsGenuine'
    BY RunFacts DEF StoreOnly, JournalsGenuine, Genuine
  <1>4. DurableLag'
    <2>1. \A c \in Cells : Own[win][c] \in cp.done => Settled(win, Own[win][c])
      BY RunFacts DEF InMemory
    <2>2. DurableLag
      BY RunFacts DEF StoreOnly
    <2>3. QED
      BY <2>1, <2>2, RunFacts DEF DurableLag, Settled
  <1>5. LagClean'
    BY RunFacts DEF StoreOnly, LagClean, Clean
  <1>6. QED
    BY <1>1, <1>2, <1>3, <1>4, <1>5, RunFacts DEF StoreOnly

LEMMA FinishSound ==
  ASSUME IInv, Finish
  PROVE  Sound'
  <1> USE DEF IInv
  <1>1. /\ main = "run" /\ main' = "finish_sync"
        /\ cp' = [cp EXCEPT !.complete = TRUE] /\ cpv' = cp'
        /\ UNCHANGED <<cache, disk, truncated, cpd, dirv, dird, jnl, jnld, mod, win, printed>>
    BY DEF Finish, Joined, durable, history
  <1>2. cp'.here /\ cp'.mod = mod /\ cp'.win = win /\ cp'.done = cp.done
    BY <1>1, RunFacts DEF TypeOK, Checkpoints
  <1>3. StoreInv'
    BY <1>1, <1>2, SavedStore, RunFacts DEF StoreOnly, StoreInv, TruncationOK
  <1>4. InMemory'
    BY <1>1, <1>2, RunFacts DEF InMemory, Clean, Settled
  <1>5. ThreadInv'
    BY <1>1, <1>4 DEF ThreadInv, NewStore, Recovery, Claims, Workers
  <1>6. QED
    BY <1>1, <1>3, <1>5 DEF Sound, ResidueCorrect

(***************************************************************************)
(* A worker e that does not move keeps its promise when the slots, the     *)
(* journal and the bits of its group are left alone.                       *)
(***************************************************************************)
LEMMA OtherWorker ==
  ASSUME NEW e \in Gpus, WorkerOK(e, wgrp[e]), Busy(e),
         wpc'[e] = wpc[e], wgrp'[e] = wgrp[e], buf'[e] = buf[e], rest'[e] = rest[e],
         UNCHANGED <<mod, win>>,
         \A c \in CellsOf(win, wgrp[e]) : cache'[c] = cache[c],
         \A c \in CellsOf(win, wgrp[e]) : \A v : Clean(c, v) => Clean(c, v)',
         jnl[<<win, wgrp[e]>>].here => jnl'[<<win, wgrp[e]>>].here,
         wpc[e] \in {"compute", "scatter", "mark"} /\ Protected(wgrp[e]) => Protected(wgrp[e])',
         wgrp[e] \in cp'.done <=> wgrp[e] \in cp.done,
         wgrp[e] \in cpv.done => wgrp[e] \in cpv'.done
  PROVE  WorkerOK(e, wgrp[e])'
  <1> DEFINE g == wgrp[e]
  <1>1. AtInput(g) => AtInput(g)'
    BY DEF AtInput
  <1>2. \A v : Holds(buf[e], g, v) => Holds(buf[e], g, v)'
    BY DEF Holds
  <1>3. wpc[e] \in {"gather", "journal", "journal_sync", "compute"} => (AtInput(g) /\ g \notin cp.done)'
    BY <1>1 DEF WorkerOK
  <1>4. wpc[e] \in {"journal", "journal_sync", "compute"} => Holds(buf[e], g, Ideal(mod, win - 1))'
    BY <1>2 DEF WorkerOK, Holds
  <1>5. wpc[e] = "scatter" => (/\ g \notin cp.done
                               /\ Holds(buf[e], g, Ideal(mod, win))
                               /\ rest[e] \subseteq CellsOf(win, g)
                               /\ \A c \in CellsOf(win, g) \ rest[e] : cache[c] = Ideal(mod, win))'
    BY <1>2 DEF WorkerOK, Holds
  <1>6. wpc[e] = "mark" => (/\ g \notin cp.done
                            /\ CellsOf(win, g) # {} => Protected(g)
                            /\ \A c \in CellsOf(win, g) : Clean(c, Ideal(mod, win)))'
    BY DEF WorkerOK
  <1>7. wpc[e] \in {"compute", "scatter"} => Protected(g)'
    BY DEF WorkerOK
  <1>8. /\ wpc[e] = "journal_sync" => jnl'[<<win, g>>].here
        /\ wpc[e] \in {"save", "save_sync", "unlink", "unlink_sync"} => g \in cp'.done
        /\ wpc[e] \in {"save_sync", "unlink", "unlink_sync"} => g \in cpv'.done
    BY DEF WorkerOK
  <1>9. QED
    BY <1>3, <1>4, <1>5, <1>6, <1>7, <1>8 DEF WorkerOK

LEMMA IdleWorker ==
  ASSUME NEW e \in Gpus, ~Busy(e)'
  PROVE  WorkerOK(e, wgrp[e])'
  BY DEF Busy, WorkerOK

LEMMA GroupApart ==
  ASSUME IInv, main = "run", NEW d \in Gpus, NEW e \in Gpus, e # d, Busy(d), Busy(e)
  PROVE  wgrp[e] # wgrp[d] /\ wgrp[d] \in Groups /\ wgrp[e] \in Groups
         /\ CellsOf(win, wgrp[e]) \cap CellsOf(win, wgrp[d]) = {}
  BY RunFacts DEF ClaimOK, CellsOf

(***************************************************************************)
(* Workers through a synchronising call.                                   *)
(***************************************************************************)
LEMMA SyncedWorker ==
  ASSUME IInv, main = "run", NEW P, DurableStep(P), NEW e \in Gpus,
         wpc'[e] = wpc[e], wgrp'[e] = wgrp[e], buf'[e] = buf[e], rest'[e] = rest[e],
         UNCHANGED <<mod, win, cp>>
  PROVE  WorkerOK(e, wgrp[e])'
  <1>1. CASE Busy(e)
    <2>1. UNCHANGED <<cache, cpv, jnl>>
      BY DEF DurableStep, seen
    <2>2. \A c \in CellsOf(win, wgrp[e]) : \A v : Clean(c, v) => Clean(c, v)'
      BY RunFacts, CleanKept DEF CellsOf
    <2>3. wpc[e] \in {"compute", "scatter", "mark"} => wgrp[e] \notin cp.done
      BY RunFacts DEF WorkerOK
    <2>4. wpc[e] \in {"compute", "scatter", "mark"} /\ Protected(wgrp[e]) => Protected(wgrp[e])'
      BY <2>3, RunFacts, ProtectedKept DEF Protected
    <2>5. QED
      BY <1>1, <2>1, <2>2, <2>4, RunFacts, OtherWorker
  <1>2. CASE ~Busy(e)
    BY <1>2, IdleWorker DEF Busy
  <1>3. QED
    BY <1>1, <1>2

LEMMA WriteBackSound ==
  ASSUME SafeUse, IInv, WriteBack
  PROVE  Sound'
  <1> USE DEF IInv
  <1>1. PICK P : DurableStep(P)
    BY WriteBackStep, StoreTypes DEF SafeUse, StoreInv, TruncationOK
  <1>2. /\ UNCHANGED <<cache, cpv, dirv, jnl, main, mod, cp, win, todo, rgrp, rest, printed>>
        /\ UNCHANGED <<wpc, wgrp, buf>>
    BY <1>1 DEF WriteBack, DurableStep, seen, workers, history
  <1>3. StoreOnly'
    BY <1>1, StoreStep, StoreTypes, StoreOnlyOfInv
  <1>4. truncated = {} => truncated' = {}
    BY <1>1, CleanKept, StoreTypes
  <1>5. StoreInv'
    BY <1>2, <1>3, <1>4 DEF StoreOnly, StoreInv, TruncationOK
  <1>6. main \in Late => \A c \in Cells : \A v : Clean(c, v) => Clean(c, v)'
    BY <1>1, CleanKept, StoreTypes DEF StoreInv, TruncationOK
  <1>7. cpd'.here => cpd.here \/ cpv.here
    BY <1>1, PagesEffect, AllEffect, StoreTypes DEF DurableStep
  <1>8. NewStore'
    <2>1. CASE main \in {"init", "init_sync"} /\ truncated' = {}
      <3>1. ~cpv.here /\ \A c \in Cells : c # InitCell => cache[c] = Start
        BY <2>1 DEF ControlOK, ThreadInv, NewStore
      <3>2. CASE truncated = {}
        <4>1. ~cpd.here /\ \A c \in Cells : c # InitCell => disk[c] = Start
          BY <2>1, <3>2 DEF ThreadInv, NewStore
        <4>2. \A c \in Cells : c # InitCell => disk'[c] = Start
          BY <1>1, <3>1, <3>2, <4>1, CleanKept, StoreTypes
        <4>3. QED
          BY <1>2, <1>7, <2>1, <3>1, <4>1, <4>2 DEF ThreadInv, NewStore
      <3>3. CASE truncated # {}
        <4>1. PersistAll(P)
          BY <1>1, <2>1, <3>3, PagesEffect, StoreTypes DEF DurableStep
        <4>2. \A c \in Cells : c # InitCell => disk'[c] = Start
          BY <1>1, <3>1, <3>3, <4>1, AllEffect, StoreTypes, EmptyFiles
          DEF DurableStep, Zeroed, StoreInv, TruncationOK
        <4>3. ~cpd'.here
          BY <1>1, <3>1, <4>1, AllEffect, StoreTypes DEF DurableStep
        <4>4. QED
          BY <1>2, <2>1, <3>1, <4>2, <4>3 DEF ThreadInv, NewStore
      <3>4. QED
        BY <3>2, <3>3
    <2>2. CASE main \in {"init", "init_sync"} /\ truncated' # {}
      BY <1>2, <2>2 DEF ThreadInv, NewStore
    <2>3. CASE main \notin {"init", "init_sync"}
      BY <1>2, <1>6, <1>7, <2>3 DEF ThreadInv, NewStore, Late
    <2>4. QED
      BY <2>1, <2>2, <2>3
  <1>9. InMemory'
    <2>1. CASE cp.here
      <3>1. main \in Late
        BY <2>1 DEF ControlOK
      <3>2. \A c \in Cells : Own[cp.win][c] \in cp.done =>
                Clean(c, Ideal(mod, cp.win))' /\ Settled(cp.win, Own[cp.win][c])'
        BY <1>1, <1>2, <1>6, <2>1, <3>1, SettledKept, StoreTypes DEF ThreadInv, InMemory, Clean
      <3>3. QED
        BY <1>2, <2>1, <3>2 DEF ThreadInv, InMemory, Clean, Settled
    <2>2. CASE ~cp.here
      BY <1>2, <2>2 DEF InMemory
    <2>3. QED
      BY <2>1, <2>2
  <1>10. main \in Late => \A g \in Groups : AtInput(g) => AtInput(g)'
    BY <1>2, <1>6 DEF AtInput, CellsOf
  <1>11. Recovery'
    BY <1>2, <1>10 DEF ThreadInv, Recovery, Late, ControlOK
  <1>12. Claims' /\ Workers'
    <2>1. SUFFICES ASSUME main = "run" PROVE Claims' /\ Workers'
      BY <1>2 DEF Claims, Workers
    <2>2. Claims'
      BY <1>2, <1>10, <2>1 DEF ThreadInv, Claims, ClaimOK, Busy, Late, TypeOK
    <2>3. Workers'
      BY <1>1, <1>2, <2>1, SyncedWorker DEF Workers
    <2>4. QED
      BY <2>2, <2>3
  <1>13. QED
    BY <1>2, <1>5, <1>8, <1>9, <1>11, <1>12 DEF Sound, ThreadInv, ResidueCorrect

-----------------------------------------------------------------------------
(***************************************************************************)
(* The steps of a worker d. Each shows the five parts of RunningSound.     *)
(***************************************************************************)
LEMMA RunningSound ==
  ASSUME IInv, main' = "run", printed' = printed, StoreOnly', truncated' = {}, InMemory',
         \A g \in todo' \ cp'.done : AtInput(g)',
         \A e \in Gpus : ClaimOK(e)',
         \A e \in Gpus : WorkerOK(e, wgrp[e])'
  PROVE  Sound'
  BY DEF IInv, StoreOnly, StoreInv, TruncationOK, ThreadInv, NewStore, Recovery, Claims, Workers,
         Sound, ResidueCorrect

\* A worker that takes no new group leaves the claims as they are.
LEMMA ClaimsKept ==
  ASSUME IInv, main = "run", NEW d \in Gpus, NEW to,
         wpc' = [wpc EXCEPT ![d] = to], wgrp' = wgrp, todo' \subseteq todo,
         to \in {"claim", "stopped"} \/ Busy(d)
  PROVE  \A e \in Gpus : ClaimOK(e)'
  <1>1. wpc'[d] = to /\ \A e \in Gpus : e # d => wpc'[e] = wpc[e]
    BY DEF IInv, TypeOK
  <1>2. \A e \in Gpus : Busy(e)' => Busy(e)
    BY <1>1 DEF Busy
  <1>3. QED
    BY <1>2, RunFacts DEF ClaimOK

\* What the other workers see of a step of d that leaves the store alone.
LEMMA OthersIdleStore ==
  ASSUME IInv, main = "run", NEW d \in Gpus, NEW e \in Gpus, e # d,
         wpc'[e] = wpc[e], wgrp'[e] = wgrp[e], buf'[e] = buf[e], rest'[e] = rest[e],
         UNCHANGED <<storeVars, mod, win>>,
         Busy(e) => (wgrp[e] \in cp'.done <=> wgrp[e] \in cp.done)
  PROVE  WorkerOK(e, wgrp[e])'
  <1>1. CASE Busy(e)
    <2>1. Protected(wgrp[e]) => Protected(wgrp[e])'
      BY DEF Protected, storeVars, seen, durable
    <2>2. UNCHANGED <<cache, disk, jnl, cpv>>
      BY DEF storeVars, seen, durable
    <2>3. QED
      BY <1>1, <2>1, <2>2, RunFacts, OtherWorker DEF Clean
  <1>2. CASE ~Busy(e)
    BY <1>2, IdleWorker DEF Busy
  <1>3. QED
    BY <1>1, <1>2

LEMMA SameMemory ==
  ASSUME IInv, main = "run", main' = "run", UNCHANGED <<storeVars, cp, mod, win>>
  PROVE  /\ StoreOnly' /\ truncated' = {} /\ InMemory'
         /\ \A g \in Groups : AtInput(g) => AtInput(g)'
  <1>1. StoreOnly' /\ truncated' = {}
    BY RunFacts, SameStore DEF storeVars, durable
  <1>2. InMemory'
    BY RunFacts DEF InMemory, Clean, Settled, storeVars, seen, durable
  <1>3. QED
    BY <1>1, <1>2 DEF AtInput, Clean, storeVars, seen, durable

LEMMA ClaimSound ==
  ASSUME IInv, NEW d \in Gpus, ClaimDone(d) \/ Claim(d) \/ Leave(d)
  PROVE  Sound'
  <1> USE DEF IInv
  <1>1. /\ main = "run" /\ main' = "run" /\ wpc[d] = "claim" /\ printed' = printed
        /\ UNCHANGED <<storeVars, cp, mod, win, rest, buf>> /\ todo' \subseteq todo
    BY DEF ClaimDone, Claim, Leave, Transition, workers, history
  <1>2. \A g \in todo' \ cp'.done : AtInput(g)'
    BY <1>1, SameMemory DEF ThreadInv, Claims, TypeOK
  <1>3. CASE ClaimDone(d) \/ Leave(d)
    <2>1. wgrp' = wgrp /\ wpc'[d] \in {"claim", "stopped"}
          /\ \A e \in Gpus : e # d => wpc'[e] = wpc[e]
      BY <1>1, <1>3 DEF ClaimDone, Leave, Transition, workers, TypeOK
    <2>2. \A e \in Gpus : ClaimOK(e)'
      BY <1>1, <2>1, RunFacts DEF ClaimOK, Busy
    <2>3. \A e \in Gpus : WorkerOK(e, wgrp[e])'
      BY <1>1, <2>1, OthersIdleStore, IdleWorker DEF Busy
    <2>4. QED
      BY <1>1, <1>2, <2>2, <2>3, SameMemory, RunningSound
  <1>4. CASE Claim(d)
    <2>1. PICK g \in todo \ cp.done :
            /\ wpc' = [wpc EXCEPT ![d] = IF CellsOf(win, g) = {} THEN "mark" ELSE "gather"]
            /\ todo' = todo \ {g}
            /\ wgrp' = [wgrp EXCEPT ![d] = g]
      BY <1>4 DEF Claim, Transition
    <2>2. /\ wgrp'[d] = g /\ wpc'[d] = IF CellsOf(win, g) = {} THEN "mark" ELSE "gather"
          /\ \A e \in Gpus : e # d => wpc'[e] = wpc[e] /\ wgrp'[e] = wgrp[e]
      BY <2>1 DEF TypeOK
    <2>3. \A e \in Gpus : Busy(e) => wgrp[e] # g
      BY <1>1, <2>1, RunFacts DEF ClaimOK
    <2>4. \A e \in Gpus : ClaimOK(e)'
      BY <1>1, <2>1, <2>2, <2>3, RunFacts DEF ClaimOK, Busy
    <2>5. AtInput(g)'
      BY <1>1, <2>1, SameMemory DEF ThreadInv, Claims, TypeOK
    <2>6. WorkerOK(d, wgrp[d])'
      <3>1. CASE CellsOf(win, g) = {}
        BY <1>1, <2>1, <2>2, <3>1 DEF WorkerOK
      <3>2. CASE CellsOf(win, g) # {}
        BY <1>1, <2>1, <2>2, <2>5, <3>2 DEF WorkerOK
      <3>3. QED
        BY <3>1, <3>2
    <2>7. \A e \in Gpus : WorkerOK(e, wgrp[e])'
      BY <1>1, <2>2, <2>6, OthersIdleStore
    <2>8. QED
      BY <1>1, <1>2, <2>4, <2>7, SameMemory, RunningSound
  <1>5. QED
    BY <1>3, <1>4

LEMMA ComputeSound ==
  ASSUME IInv, NEW d \in Gpus, Gather(d) \/ Compute(d)
  PROVE  Sound'
  <1> USE DEF IInv
  <1>1. /\ main = "run" /\ main' = "run" /\ wpc[d] \in {"gather", "compute"} /\ printed' = printed
        /\ UNCHANGED <<storeVars, cp, mod, win, todo, wgrp>>
        /\ \A e \in Gpus : e # d => wpc'[e] = wpc[e] /\ buf'[e] = buf[e] /\ rest'[e] = rest[e]
    BY DEF Gather, Compute, Transition, history, TypeOK
  <1>2. \A g \in todo' \ cp'.done : AtInput(g)'
    BY <1>1, SameMemory DEF ThreadInv, Claims, TypeOK
  <1>3. \A e \in Gpus : ClaimOK(e)'
    BY <1>1, ClaimsKept DEF Gather, Compute, Transition, Busy
  <1>4. WorkerOK(d, wgrp[d]) /\ wgrp[d] \in Groups
    BY <1>1, RunFacts DEF Busy
  <1>5. WorkerOK(d, wgrp[d])'
    <2>1. CASE Gather(d)
      <3>1. wpc[d] = "gather" /\ wpc'[d] = "journal"
        BY <2>1 DEF Gather, Transition, TypeOK
      <3>2. buf'[d] = [c \in Cells |-> IF c \in CellsOf(win, wgrp[d]) THEN cache[c] ELSE Garbage]
        BY <2>1 DEF Gather, TypeOK
      <3>3. AtInput(wgrp[d]) /\ AtInput(wgrp[d])' /\ wgrp[d] \notin cp.done
        BY <1>1, <1>4, <3>1, SameMemory DEF WorkerOK
      <3>4. Holds(buf'[d], wgrp[d], Ideal(mod, win - 1))
        BY <3>2, <3>3 DEF Holds, AtInput, CellsOf, Clean
      <3>5. QED
        BY <1>1, <3>1, <3>3, <3>4 DEF WorkerOK, Holds
    <2>2. CASE Compute(d)
      <3>1. /\ wpc[d] = "compute" /\ wpc'[d] = "scatter"
            /\ buf'[d] = Kernel(mod, win, wgrp[d], buf[d])
            /\ rest'[d] = CellsOf(win, wgrp[d])
        BY <2>2 DEF Compute, Transition, TypeOK
      <3>2. wgrp[d] \notin cp.done /\ Protected(wgrp[d]) /\ Holds(buf[d], wgrp[d], Ideal(mod, win - 1))
        BY <1>4, <3>1 DEF WorkerOK
      <3>3. Holds(buf'[d], wgrp[d], Ideal(mod, win))
        BY <3>1, <3>2 DEF Holds, Kernel, CellsOf
      <3>4. Protected(wgrp[d])'
        BY <1>1, <3>2 DEF Protected, storeVars, seen, durable
      <3>5. QED
        BY <1>1, <3>1, <3>2, <3>3, <3>4 DEF WorkerOK, Holds
    <2>3. QED
      BY <2>1, <2>2
  <1>6. \A e \in Gpus : WorkerOK(e, wgrp[e])'
    BY <1>1, <1>5, OthersIdleStore
  <1>7. QED
    BY <1>1, <1>2, <1>3, <1>6, SameMemory, RunningSound

LEMMA WorkerFailsSound ==
  ASSUME IInv, NEW d \in Gpus, WorkerFails(d)
  PROVE  Sound'
  <1> USE DEF IInv
  <1>1. /\ main = "run" /\ main' = "run" /\ printed' = printed
        /\ wpc' = [wpc EXCEPT ![d] = "stopped"]
        /\ UNCHANGED <<storeVars, cp, mod, win, todo, wgrp, rest, buf>>
    BY DEF WorkerFails, Transition
  <1>2. \A g \in todo' \ cp'.done : AtInput(g)'
    BY <1>1, SameMemory DEF ThreadInv, Claims, TypeOK
  <1>3. \A e \in Gpus : ClaimOK(e)'
    BY <1>1, ClaimsKept
  <1>4. wpc'[d] = "stopped" /\ \A e \in Gpus : e # d => wpc'[e] = wpc[e]
    BY <1>1 DEF TypeOK
  <1>5. \A e \in Gpus : WorkerOK(e, wgrp[e])'
    BY <1>1, <1>4, OthersIdleStore, IdleWorker DEF Busy
  <1>6. QED
    BY <1>1, <1>2, <1>3, <1>5, SameMemory, RunningSound

LEMMA MarkDoneSound ==
  ASSUME IInv, NEW d \in Gpus, MarkDone(d)
  PROVE  Sound'
  <1> USE DEF IInv
  <1> DEFINE g == wgrp[d]
  <1>1. /\ main = "run" /\ main' = "run" /\ wpc[d] = "mark" /\ printed' = printed /\ Busy(d)
        /\ wpc' = [wpc EXCEPT ![d] = "save"] /\ cp' = [cp EXCEPT !.done = @ \cup {g}]
        /\ UNCHANGED <<storeVars, mod, win, todo, wgrp, rest, buf>>
    BY DEF MarkDone, Transition, Busy, history
  <1>2. /\ cp'.here = cp.here /\ cp'.mod = cp.mod /\ cp'.win = cp.win /\ cp'.done = cp.done \cup {g}
        /\ wpc'[d] = "save" /\ \A e \in Gpus : e # d => wpc'[e] = wpc[e]
    BY <1>1 DEF TypeOK, Checkpoints
  <1>3. StoreOnly' /\ truncated' = {}
    BY <1>1, RunFacts, SameStore DEF storeVars, durable
  <1>4. g \in Groups /\ WorkerOK(d, g)
    BY <1>1, RunFacts
  <1>5. \A c \in CellsOf(win, g) : Clean(c, Ideal(mod, win)) /\ Protected(g)
    BY <1>1, <1>4 DEF WorkerOK
  <1>6. InMemory'
    <2>1. UNCHANGED <<cache, disk, jnl, cpv, cpd, jnld>>
      BY <1>1 DEF storeVars, seen, durable
    <2>2. \A c \in Cells : Own[win][c] = g =>
             Clean(c, Ideal(mod, win)) /\ Settled(win, g) /\ jnl[<<win, g>>].here
      BY <1>5 DEF CellsOf, Protected, Settled
    <2>3. QED
      BY <1>1, <1>2, <2>1, <2>2, RunFacts DEF InMemory, Clean, Settled
  <1>7. \A h \in todo' \ cp'.done : AtInput(h)'
    BY <1>1, <1>2 DEF ThreadInv, Claims, AtInput, Clean, storeVars, seen, durable
  <1>8. \A e \in Gpus : ClaimOK(e)'
    BY <1>1, ClaimsKept
  <1>9. WorkerOK(d, wgrp[d])'
    BY <1>1, <1>2 DEF WorkerOK
  <1>10. \A e \in Gpus : WorkerOK(e, wgrp[e])'
    BY <1>1, <1>2, <1>9, GroupApart, OthersIdleStore
  <1>11. QED
    BY <1>1, <1>3, <1>6, <1>7, <1>8, <1>10, RunningSound

(***************************************************************************)
(* The steps of a worker that change what processes see.                   *)
(***************************************************************************)
LEMMA PrepareJournalSound ==
  ASSUME IInv, NEW d \in Gpus, PrepareJournal(d)
  PROVE  Sound'
  <1> USE DEF IInv
  <1> DEFINE g == wgrp[d]
  <1>1. /\ main = "run" /\ main' = "run" /\ wpc[d] = "journal" /\ printed' = printed /\ Busy(d)
        /\ wpc' = [wpc EXCEPT ![d] = "journal_sync"]
        /\ jnl' = [jnl EXCEPT ![<<win, g>>] = Journal(buf[d])] /\ dirv' = TRUE
        /\ UNCHANGED <<cache, disk, truncated, cpv, cpd, dird, jnld, cp, mod, win, todo, wgrp, rest, buf>>
    BY RunFacts DEF PrepareJournal, Transition, Busy, JournalKey, durable, history
  <1>2. g \in Groups /\ WorkerOK(d, g) /\ <<win, g>> \in Keys
    BY <1>1, RunFacts DEF Keys
  <1>3. Holds(buf[d], g, Ideal(mod, win - 1)) /\ AtInput(g) /\ g \notin cp.done
    BY <1>1, <1>2 DEF WorkerOK
  <1>4. /\ jnl'[<<win, g>>].here /\ jnl'[<<win, g>>].img = buf[d]
        /\ \A k \in Keys : k # <<win, g>> => jnl'[k] = jnl[k]
    BY <1>1, <1>2 DEF TypeOK, StoreTypeOK, Journal
  <1>5. \A k \in Keys : jnl[k].here => jnl'[k].here
    BY <1>4
  <1>6. StoreOnly' /\ truncated' = {}
    <2>1. SeenSound'
      BY <1>1, <1>5, RunFacts, OwnGroup DEF StoreOnly, SeenSound, SoundSlot, Clean
    <2>2. DurableSound' /\ DurableLag' /\ LagClean'
      BY <1>1, RunFacts
      DEF StoreOnly, DurableSound, SoundSlot, SoundOnDisk, Clean, DurableLag, LagClean, Settled
    <2>3. JournalsGenuine'
      BY <1>1, <1>3, <1>4, RunFacts DEF StoreOnly, JournalsGenuine, Genuine, Holds
    <2>4. DirectoryOK'
      BY <1>1, RunFacts DEF StoreOnly, DirectoryOK
    <2>5. QED
      BY <1>1, <2>1, <2>2, <2>3, <2>4, RunFacts DEF StoreOnly
  <1>7. InMemory'
    BY <1>1, <1>5, RunFacts, OwnGroup DEF InMemory, Clean, Settled
  <1>8. \A h \in todo' \ cp'.done : AtInput(h)'
    BY <1>1 DEF ThreadInv, Claims, AtInput, Clean
  <1>9. \A e \in Gpus : ClaimOK(e)'
    BY <1>1, ClaimsKept
  <1>10. wpc'[d] = "journal_sync" /\ \A e \in Gpus : e # d => wpc'[e] = wpc[e]
    BY <1>1 DEF TypeOK
  <1>11. WorkerOK(d, wgrp[d])'
    BY <1>1, <1>3, <1>4, <1>10 DEF WorkerOK, AtInput, Clean, Holds
  <1>12. ASSUME NEW e \in Gpus, e # d PROVE WorkerOK(e, wgrp[e])'
    <2>1. CASE Busy(e)
      <3>1. wgrp[e] \in Groups /\ <<win, wgrp[e]>> \in Keys
        BY <1>1, <2>1, RunFacts DEF Keys
      <3>2. Protected(wgrp[e]) => Protected(wgrp[e])'
        BY <1>1, <1>5, <3>1 DEF Protected
      <3>3. QED
        BY <1>1, <1>5, <1>10, <1>12, <2>1, <3>1, <3>2, RunFacts, OtherWorker DEF Clean
    <2>2. CASE ~Busy(e)
      BY <1>10, <1>12, <2>2, IdleWorker DEF Busy
    <2>3. QED
      BY <2>1, <2>2
  <1>13. QED
    BY <1>1, <1>6, <1>7, <1>8, <1>9, <1>11, <1>12, RunningSound

LEMMA ScatterSound ==
  ASSUME IInv, NEW d \in Gpus, ScatterSlot(d)
  PROVE  Sound'
  <1> USE DEF IInv
  <1> DEFINE g == wgrp[d]
  <1> DEFINE v == Ideal(mod, win)
  <1>1. PICK x \in rest[d] :
          /\ cache' = [cache EXCEPT ![x] = buf[d][x]]
          /\ rest' = [rest EXCEPT ![d] = @ \ {x}]
    BY DEF ScatterSlot, NextSlots
  <1>2. /\ main = "run" /\ main' = "run" /\ wpc[d] = "scatter" /\ printed' = printed /\ Busy(d)
        /\ UNCHANGED <<disk, truncated, cpv, cpd, dirv, dird, jnl, jnld, cp, mod, win, todo,
                       wpc, wgrp, buf>>
    BY DEF ScatterSlot, Busy, durable, workers, history
  <1>3. g \in Groups /\ WorkerOK(d, g) /\ <<win, g>> \in Keys
    BY <1>2, RunFacts DEF Keys
  <1>4. /\ g \notin cp.done /\ Protected(g) /\ Holds(buf[d], g, v)
        /\ rest[d] \subseteq CellsOf(win, g)
        /\ \A c \in CellsOf(win, g) \ rest[d] : cache[c] = v
    BY <1>2, <1>3 DEF WorkerOK
  <1>5. x \in CellsOf(win, g) /\ x \in Cells /\ Own[win][x] = g /\ buf[d][x] = v
    BY <1>1, <1>4 DEF CellsOf, Holds
  <1>6. /\ cache' = [cache EXCEPT ![x] = v] /\ cache'[x] = v
        /\ \A c \in Cells : c # x => cache'[c] = cache[c]
    BY <1>1, <1>5 DEF TypeOK, StoreTypeOK, Images
  <1>7. StoreOnly' /\ truncated' = {}
    BY <1>2, <1>4, <1>5, <1>6, RunFacts, SlotWritten DEF Protected
  <1>8. InMemory'
    BY <1>2, <1>4, <1>5, <1>6, RunFacts DEF InMemory, Clean, Settled
  <1>9. \A h \in todo' \ cp'.done : AtInput(h)'
    <2>1. g \notin todo
      BY <1>2, RunFacts DEF ClaimOK
    <2>2. QED
      BY <1>2, <1>5, <1>6, <2>1 DEF ThreadInv, Claims, AtInput, Clean, CellsOf
  <1>10. \A e \in Gpus : ClaimOK(e)'
    BY <1>2, RunFacts DEF ClaimOK, Busy
  <1>11. rest'[d] = rest[d] \ {x} /\ \A e \in Gpus : e # d => rest'[e] = rest[e]
    BY <1>1 DEF TypeOK
  <1>12. WorkerOK(d, wgrp[d])'
    <2>1. Protected(g)'
      BY <1>2, <1>4 DEF Protected
    <2>2. \A c \in CellsOf(win, g) \ rest'[d] : cache'[c] = v
      BY <1>4, <1>6, <1>11 DEF CellsOf
    <2>3. QED
      BY <1>2, <1>4, <1>11, <2>1, <2>2 DEF WorkerOK, Holds
  <1>13. ASSUME NEW e \in Gpus, e # d PROVE WorkerOK(e, wgrp[e])'
    <2>1. CASE Busy(e)
      <3>1. \A c \in CellsOf(win, wgrp[e]) : cache'[c] = cache[c]
        BY <1>2, <1>5, <1>6, <1>13, <2>1, GroupApart DEF CellsOf
      <3>2. Protected(wgrp[e]) => Protected(wgrp[e])'
        BY <1>2 DEF Protected
      <3>3. QED
        BY <1>2, <1>11, <1>13, <2>1, <3>1, <3>2, RunFacts, OtherWorker DEF Clean
    <2>2. CASE ~Busy(e)
      BY <1>2, <2>2, IdleWorker DEF Busy
    <2>3. QED
      BY <2>1, <2>2
  <1>14. QED
    BY <1>2, <1>7, <1>8, <1>9, <1>10, <1>12, <1>13, RunningSound

LEMMA SaveSound ==
  ASSUME IInv, NEW d \in Gpus, SaveCheckpoint(d)
  PROVE  Sound'
  <1> USE DEF IInv
  <1>1. /\ main = "run" /\ main' = "run" /\ wpc[d] = "save" /\ printed' = printed /\ Busy(d)
        /\ wpc' = [wpc EXCEPT ![d] = "save_sync"] /\ cpv' = cp
        /\ UNCHANGED <<cache, disk, truncated, cpd, dirv, dird, jnl, jnld, cp, mod, win, todo, wgrp,
                       rest, buf>>
    BY DEF SaveCheckpoint, Transition, Busy, durable, history
  <1>2. StoreOnly' /\ truncated' = {}
    BY <1>1, RunFacts, SavedStore
  <1>3. InMemory'
    BY <1>1, RunFacts DEF InMemory, Clean, Settled
  <1>4. \A h \in todo' \ cp'.done : AtInput(h)'
    BY <1>1 DEF ThreadInv, Claims, AtInput, Clean
  <1>5. \A e \in Gpus : ClaimOK(e)'
    BY <1>1, ClaimsKept
  <1>6. wpc'[d] = "save_sync" /\ \A e \in Gpus : e # d => wpc'[e] = wpc[e]
    BY <1>1 DEF TypeOK
  <1>7. WorkerOK(d, wgrp[d])'
    BY <1>1, <1>6, RunFacts DEF WorkerOK
  <1>8. ASSUME NEW e \in Gpus, e # d PROVE WorkerOK(e, wgrp[e])'
    <2>1. CASE Busy(e)
      <3>1. Protected(wgrp[e]) => Protected(wgrp[e])'
        BY <1>1 DEF Protected
      <3>2. QED
        BY <1>1, <1>6, <1>8, <2>1, <3>1, RunFacts, OtherWorker DEF Clean
    <2>2. CASE ~Busy(e)
      BY <1>6, <1>8, <2>2, IdleWorker DEF Busy
    <2>3. QED
      BY <2>1, <2>2
  <1>9. QED
    BY <1>1, <1>2, <1>3, <1>4, <1>5, <1>7, <1>8, RunningSound

LEMMA UnlinkSound ==
  ASSUME IInv, NEW d \in Gpus, Unlink(d)
  PROVE  Sound'
  <1> USE DEF IInv
  <1> DEFINE g == wgrp[d]
  <1>1. /\ main = "run" /\ main' = "run" /\ wpc[d] = "unlink" /\ printed' = printed /\ Busy(d)
        /\ wpc' = [wpc EXCEPT ![d] = "unlink_sync"]
        /\ jnl' = [jnl EXCEPT ![<<win, g>>] = NoJournal]
        /\ UNCHANGED <<cache, disk, truncated, cpv, cpd, dirv, dird, jnld, cp, mod, win, todo, wgrp,
                       rest, buf>>
    BY RunFacts DEF Unlink, Transition, Busy, JournalKey, durable, history
  <1>2. g \in Groups /\ WorkerOK(d, g)
    BY <1>1, RunFacts
  <1>3. g \in cp.done /\ g \in cpv.done
    BY <1>1, <1>2 DEF WorkerOK
  <1>4. StoreOnly' /\ truncated' = {}
    BY <1>1, <1>2, <1>3, RunFacts, JournalRemoved
  <1>5. \A h \in Groups : h # g => jnl'[<<win, h>>] = jnl[<<win, h>>]
    BY <1>1, <1>2, RunFacts DEF StoreTypeOK, Keys
  <1>6. InMemory'
    BY <1>1, <1>3, <1>5, RunFacts, OwnGroup DEF InMemory, Clean, Settled
  <1>7. \A h \in todo' \ cp'.done : AtInput(h)'
    BY <1>1 DEF ThreadInv, Claims, AtInput, Clean
  <1>8. \A e \in Gpus : ClaimOK(e)'
    BY <1>1, ClaimsKept
  <1>9. wpc'[d] = "unlink_sync" /\ \A e \in Gpus : e # d => wpc'[e] = wpc[e]
    BY <1>1 DEF TypeOK
  <1>10. WorkerOK(d, wgrp[d])'
    BY <1>1, <1>3, <1>9 DEF WorkerOK
  <1>11. ASSUME NEW e \in Gpus, e # d PROVE WorkerOK(e, wgrp[e])'
    <2>1. CASE Busy(e)
      <3>1. jnl'[<<win, wgrp[e]>>] = jnl[<<win, wgrp[e]>>]
        BY <1>1, <1>5, <1>11, <2>1, GroupApart
      <3>2. Protected(wgrp[e]) => Protected(wgrp[e])'
        BY <1>1, <3>1 DEF Protected
      <3>3. QED
        BY <1>1, <1>9, <1>11, <2>1, <3>1, <3>2, RunFacts, OtherWorker DEF Clean
    <2>2. CASE ~Busy(e)
      BY <1>9, <1>11, <2>2, IdleWorker DEF Busy
    <2>3. QED
      BY <2>1, <2>2
  <1>12. QED
    BY <1>1, <1>4, <1>6, <1>7, <1>8, <1>10, <1>11, RunningSound

(***************************************************************************)
(* The synchronising calls of a worker.                                    *)
(***************************************************************************)
LEMMA WorkerSyncSound ==
  ASSUME SafeUse, IInv, NEW d \in Gpus, JournalSync(d) \/ CommitSync(d) \/ SaveSync(d) \/ UnlinkSync(d)
  PROVE  Sound'
  <1> USE DEF IInv
  <1> DEFINE g == wgrp[d]
  <1>1. /\ main = "run" /\ main' = "run" /\ printed' = printed /\ Busy(d)
        /\ UNCHANGED <<cache, cpv, dirv, jnl, cp, mod, win, todo, wgrp, rest, buf>>
        /\ \A e \in Gpus : e # d => wpc'[e] = wpc[e]
        /\ \E to : wpc' = [wpc EXCEPT ![d] = to]
    BY DEF JournalSync, CommitSync, SaveSync, UnlinkSync, Transition, Busy, seen, history, TypeOK
  <1>2. g \in Groups /\ WorkerOK(d, g) /\ <<win, g>> \in Keys
    BY <1>1, RunFacts DEF Keys
  <1>3. PICK P : /\ DurableStep(P)
                 /\ CommitSync(d) => P = PagesOf(CellsOf(win, g))
                 /\ JournalSync(d) => PersistAll(P)
    <2>1. CASE CommitSync(d)
      <3>1. CellsOf(win, g) \in SUBSET Cells /\ ~JournalSync(d)
        BY <2>1 DEF CellsOf, CommitSync, JournalSync, Transition
      <3>2. DurableStep(PagesOf(CellsOf(win, g)))
        BY <1>1, <2>1, <3>1, MsyncStep, RunFacts DEF CommitSync, SafeUse, StoreOnly
      <3>3. QED
        BY <3>1, <3>2
    <2>2. CASE JournalSync(d) \/ SaveSync(d) \/ UnlinkSync(d)
      <3>1. PersistAll({}) /\ UNCHANGED seen
        BY <2>2, FsyncIsAll DEF JournalSync, SaveSync, UnlinkSync, SafeUse
      <3>2. ~CommitSync(d)
        BY <2>2 DEF CommitSync, JournalSync, SaveSync, UnlinkSync, Transition
      <3>3. QED
        BY <3>1, <3>2 DEF DurableStep
    <2>3. QED
      BY <2>1, <2>2
  <1>4. StoreOnly' /\ truncated' = {}
    BY <1>1, <1>3, RunFacts, StoreStep, CleanKept
  <1>5. InMemory'
    BY <1>1, <1>3, MemoryKept DEF Late
  <1>6. \A h \in todo' \ cp'.done : AtInput(h)'
    BY <1>1, <1>3, RunFacts, CleanKept DEF ThreadInv, Claims, AtInput, CellsOf
  <1>7. \A e \in Gpus : ClaimOK(e)'
    BY <1>1, ClaimsKept
  <1>8. WorkerOK(d, wgrp[d])'
    <2>1. CASE JournalSync(d)
      <3>1. wpc[d] = "journal_sync" /\ wpc'[d] = "compute"
        BY <2>1 DEF JournalSync, Transition, TypeOK
      <3>2. /\ AtInput(g) /\ g \notin cp.done /\ jnl[<<win, g>>].here
            /\ Holds(buf[d], g, Ideal(mod, win - 1))
        BY <1>2, <3>1 DEF WorkerOK
      <3>3. Protected(g)'
        BY <1>1, <1>3, <2>1, <3>2, RunFacts, AllEffect DEF Protected, DurableStep
      <3>4. AtInput(g)'
        BY <1>1, <1>3, <3>2, RunFacts, CleanKept DEF AtInput, CellsOf
      <3>5. QED
        BY <1>1, <3>1, <3>2, <3>3, <3>4 DEF WorkerOK, Holds
    <2>2. CASE CommitSync(d)
      <3>1. wpc[d] = "scatter" /\ wpc'[d] = "mark" /\ rest[d] = {}
        BY <2>2 DEF CommitSync, Transition, TypeOK
      <3>2. /\ g \notin cp.done /\ Protected(g)
            /\ \A c \in CellsOf(win, g) : cache[c] = Ideal(mod, win)
        BY <1>2, <3>1 DEF WorkerOK
      <3>3. Protected(g)'
        BY <1>1, <1>3, <3>2, RunFacts, ProtectedKept
      <3>4. \A c \in CellsOf(win, g) : c \in Cells /\ PageOf[c] \in P
        BY <1>3, <2>2 DEF PagesOf, CellsOf
      <3>5. \A c \in CellsOf(win, g) : disk'[c] = cache[c]
        <4>1. DurableStep(P) /\ StoreTypeOK /\ truncated = {}
          BY <1>1, <1>3, RunFacts
        <4>2. \A c \in Cells : PageOf[c] \in P => disk'[c] = cache[c]
          BY <4>1, CleanKept
        <4>3. QED
          BY <3>4, <4>2
      <3>6. \A c \in CellsOf(win, g) : Clean(c, Ideal(mod, win))'
        BY <1>1, <3>2, <3>5 DEF Clean
      <3>7. QED
        BY <1>1, <3>1, <3>2, <3>3, <3>6 DEF WorkerOK
    <2>3. CASE SaveSync(d)
      <3>1. wpc[d] = "save_sync" /\ wpc'[d] \in {"claim", "unlink"}
        BY <2>3 DEF SaveSync, Transition, TypeOK
      <3>2. QED
        BY <1>1, <1>2, <3>1 DEF WorkerOK
    <2>4. CASE UnlinkSync(d)
      <3>1. wpc'[d] = "claim"
        BY <2>4 DEF UnlinkSync, Transition, TypeOK
      <3>2. QED
        BY <3>1 DEF WorkerOK
    <2>5. QED
      BY <2>1, <2>2, <2>3, <2>4
  <1>9. \A e \in Gpus : e # d => WorkerOK(e, wgrp[e])'
    BY <1>1, <1>3, SyncedWorker
  <1>10. QED
    BY <1>1, <1>4, <1>5, <1>6, <1>7, <1>8, <1>9, RunningSound

-----------------------------------------------------------------------------
LEMMA InitSound == Init => Sound
  <1>1. SUFFICES ASSUME Init PROVE Sound
    OBVIOUS
  <1>2. ~cpv.here /\ ~cpd.here /\ ~cp.here /\ \A k \in Keys : ~jnl[k].here /\ ~jnld[k].here
    BY <1>1 DEF Init, StoreInit, NoCheckpoint, NoJournal
  <1>3. truncated = {} /\ main = "down" /\ printed = {}
    BY <1>1 DEF Init, StoreInit
  <1>4. QED
    BY <1>2, <1>3
    DEF Sound, StoreInv, SeenSound, DurableSound, TruncationOK, JournalsGenuine, Genuine, DirectoryOK,
        DurableLag, LagClean, ThreadInv, NewStore, InMemory, Recovery, Claims, Workers, ResidueCorrect

LEMMA WorkerStepSound ==
  ASSUME SafeUse, IInv, NEW d \in Gpus, WorkerStep(d) \/ WorkerFails(d)
  PROVE  Sound'
  BY ClaimSound, ComputeSound, PrepareJournalSound, ScatterSound, MarkDoneSound, SaveSound,
     UnlinkSound, WorkerSyncSound, WorkerFailsSound
  DEF WorkerStep

LEMMA NextSound ==
  ASSUME SafeUse, IInv, Next
  PROVE  Sound'
  <1>1. CASE \E m \in Mods, fresh \in BOOLEAN : Launch(m, fresh)
    BY <1>1, LaunchSound
  <1>2. CASE MainStep
    <2>1. CASE \/ FreshRemoveCheckpoint \/ FreshRemoveUndo \/ FreshSync
               \/ LoadNothing \/ LoadResume \/ OpenFresh \/ InitStore \/ InitSync
      BY <2>1, FreshSound, LoadNothingSound, LoadResumeSound, OpenSound, InitSyncSound
    <2>2. CASE \/ BeginSameWindow \/ BeginWindow \/ BeginSync
               \/ \E g \in Groups : RecoverNothing(g) \/ RecoverDone(g) \/ RecoverUndo(g)
      BY <2>2, BeginSameSound, BeginWindowSound, BeginSyncSound, RecoverSound, RecoverUnlinkSound
    <2>3. CASE \/ RestoreSlot \/ RestoreSync \/ RestoreUnlink \/ RecoverUnlinkSync
               \/ StartWorkers \/ NextWindow \/ Finish
      BY <2>3, RestoreSlotSound, RecoverSyncSound, RecoverUnlinkSound, StartWorkersSound,
         NextWindowSound, FinishSound
    <2>4. CASE LoadRefused \/ LoadComplete \/ JoinFailed \/ FinishSync
      BY <2>4, GoneSound
    <2>5. QED
      BY <1>2, <2>1, <2>2, <2>3, <2>4 DEF MainStep
  <1>3. CASE \E d \in Gpus : WorkerStep(d) \/ WorkerFails(d)
    BY <1>3, WorkerStepSound
  <1>4. CASE Kill \/ PowerLoss \/ WriteBack
    BY <1>4, GoneSound, WriteBackSound
  <1>5. QED
    BY <1>1, <1>2, <1>3, <1>4 DEF Next

LEMMA StutterSound == IInv /\ UNCHANGED vars => Sound'
  BY DEF IInv, vars, storeVars, seen, durable, workers, history, Sound, StoreInv, SeenSound, SoundSlot,
     DurableSound, SoundOnDisk, Clean, TruncationOK, JournalsGenuine, Genuine, DirectoryOK, DurableLag, LagClean,
     Settled, ThreadInv, NewStore, InMemory, Recovery, AtInput, Claims, ClaimOK, Busy, Workers, WorkerOK,
     Protected, Holds, ResidueCorrect

(***************************************************************************)
(* IInv is inductive: on a file system that orders its metadata, and for   *)
(* one modulus whenever GRIDFP_FRESH is used, no sequence of steps, kills, *)
(* power losses, failed calls and write-backs leaves it.                   *)
(***************************************************************************)
THEOREM Inductive == SafeUse /\ Spec => []IInv
  <1>1. Init => IInv
    BY InitTypes, InitSound, SoundParts
  <1>2. ASSUME SafeUse PROVE IInv /\ [Next]_vars => IInv'
    <2>1. SUFFICES ASSUME IInv, [Next]_vars PROVE IInv'
      OBVIOUS
    <2>2. TypeOK' /\ ControlOK'
      BY <2>1, NextTypes DEF IInv
    <2>3. Sound'
      BY <1>2, <2>1, NextSound, StutterSound
    <2>4. QED
      BY <2>2, <2>3 DEF IInv, Sound
  <1>3. CASE SafeUse
    BY <1>1, <1>2, <1>3, PTL DEF Spec
  <1>4. CASE ~SafeUse
    BY <1>4
  <1>5. QED
    BY <1>3, <1>4

-----------------------------------------------------------------------------
(***************************************************************************)
(* What follows from the invariant.                                        *)
(***************************************************************************)
LEMMA RecoverableFromInv ==
  ASSUME IInv
  PROVE  KillRecoverable /\ PowerLossRecoverable
  <1> USE DEF IInv, StoreInv
  <1>1. KillRecoverable
    <2>1. SUFFICES ASSUME cpv.here, NEW c \in Cells
          PROVE  LET g == Own[cpv.win][c]
                     j == jnl[<<cpv.win, g>>]
                 IN  IF g \in cpv.done THEN cache[c] = Ideal(cpv.mod, cpv.win)
                     ELSE IF j.here THEN j.img[c] = Ideal(cpv.mod, cpv.win - 1)
                     ELSE cache[c] = Ideal(cpv.mod, cpv.win - 1)
      BY DEF KillRecoverable, Recoverable
    <2>2. SoundSlot(cpv, jnl, c) /\ cpv.mod \in Mods /\ cpv.win \in Windows
      BY <2>1 DEF SeenSound, ControlOK, GoodCheckpoint
    <2>3. <<cpv.win, Own[cpv.win][c]>> \in Keys /\ c \in CellsOf(cpv.win, Own[cpv.win][c])
      BY <2>2, OwnGroup DEF CellsOf
    <2>4. jnl[<<cpv.win, Own[cpv.win][c]>>].here =>
             jnl[<<cpv.win, Own[cpv.win][c]>>].img[c] = Ideal(cpv.mod, cpv.win - 1)
      BY <2>2, <2>3 DEF JournalsGenuine, Genuine
    <2>5. QED
      BY <2>2, <2>4 DEF SoundSlot, Clean
  <1>2. PowerLossRecoverable
    <2>1. \A k \in Keys : (IF dird THEN jnld ELSE [i \in Keys |-> NoJournal])[k].here = jnld[k].here
      BY DEF DirectoryOK, NoJournal, TypeOK, StoreTypeOK, Journals
    <2>2. \A k \in Keys : jnld[k].here =>
              (IF dird THEN jnld ELSE [i \in Keys |-> NoJournal])[k] = jnld[k]
      BY DEF DirectoryOK
    <2> DEFINE js == IF dird THEN jnld ELSE [i \in Keys |-> NoJournal]
    <2>3. SUFFICES ASSUME cpd.here, NEW c \in Cells
          PROVE  LET g == Own[cpd.win][c]
                     j == js[<<cpd.win, g>>]
                 IN  IF g \in cpd.done THEN disk[c] = Ideal(cpd.mod, cpd.win)
                     ELSE IF j.here THEN j.img[c] = Ideal(cpd.mod, cpd.win - 1)
                     ELSE disk[c] = Ideal(cpd.mod, cpd.win - 1)
      BY DEF PowerLossRecoverable, Recoverable
    <2>4. SoundOnDisk(c) /\ cpd.mod \in Mods /\ cpd.win \in Windows
      BY <2>3 DEF DurableSound, SoundSlot, SoundOnDisk, Clean, ControlOK, GoodCheckpoint
    <2>5. <<cpd.win, Own[cpd.win][c]>> \in Keys /\ c \in CellsOf(cpd.win, Own[cpd.win][c])
      BY <2>4, OwnGroup DEF CellsOf
    <2>6. jnld[<<cpd.win, Own[cpd.win][c]>>].here =>
             jnld[<<cpd.win, Own[cpd.win][c]>>].img[c] = Ideal(cpd.mod, cpd.win - 1)
      BY <2>3, <2>4, <2>5 DEF JournalsGenuine, Genuine
    <2> HIDE DEF js
    <2>7. js[<<cpd.win, Own[cpd.win][c]>>].here = jnld[<<cpd.win, Own[cpd.win][c]>>].here
          /\ (jnld[<<cpd.win, Own[cpd.win][c]>>].here =>
                js[<<cpd.win, Own[cpd.win][c]>>] = jnld[<<cpd.win, Own[cpd.win][c]>>])
      BY <2>1, <2>2, <2>5 DEF js
    <2>8. QED
      BY <2>4, <2>6, <2>7 DEF SoundOnDisk
  <1>3. QED
    BY <1>1, <1>2

LEMMA JournalFromInv ==
  ASSUME IInv
  PROVE  JournalBeforeScatter
  <1> USE DEF IInv, StoreInv
  <1> DEFINE g(c) == Own[cp.win][c]
  <1>1. SUFFICES ASSUME cp.here, NEW c \in Cells, g(c) \notin cp.done,
                        cache[c] # Ideal(mod, cp.win - 1)
                 PROVE  dird /\ jnld[<<cp.win, g(c)>>].here
    BY DEF JournalBeforeScatter, JournalKey
  <1>2. /\ cp.mod = mod /\ cpv.here /\ cpv.mod = mod /\ cpv.win = cp.win /\ cp.win \in Windows
        /\ cpv.done \subseteq cp.done /\ truncated = {}
    BY <1>1 DEF ThreadInv, InMemory, TruncationOK, ControlOK, GoodCheckpoint
  <1>3. cpd.here /\ cpd.win = cp.win /\ cpd.mod = mod
    BY <1>1, <1>2 DEF LagClean, Clean, DurableLag
  <1>4. cpd.done \subseteq cpv.done
    BY <1>2, <1>3 DEF DurableLag, Windows
  <1>5. jnld[<<cp.win, g(c)>>].here
    BY <1>1, <1>2, <1>3, <1>4 DEF DurableSound, SoundSlot, Clean
  <1>6. <<cp.win, g(c)>> \in Keys
    BY <1>2, OwnGroup
  <1>7. QED
    BY <1>5, <1>6 DEF DirectoryOK

LEMMA OnceFromInv ==
  ASSUME IInv
  PROVE  ExactlyOnce
  <1>1. SUFFICES ASSUME NEW d \in Gpus, wpc[d] = "compute", NEW c \in CellsOf(win, wgrp[d])
                 PROVE  buf[d][c] = Ideal(mod, win - 1)
    BY DEF ExactlyOnce
  <1>2. main = "run"
    BY <1>1 DEF IInv, ControlOK
  <1>3. QED
    BY <1>1, <1>2, RunFacts DEF WorkerOK, Holds

(***************************************************************************)
(* Under SafeUse no kill loses an update or applies one twice: the store   *)
(* that the next process sees can be recovered.                            *)
(***************************************************************************)
THEOREM KillSafe == SafeUse /\ Spec => []KillRecoverable
  BY Inductive, RecoverableFromInv, PTL

(***************************************************************************)
(* Nor does a power loss, whatever the file system had written back.       *)
(***************************************************************************)
THEOREM PowerLossSafe == SafeUse /\ Spec => []PowerLossRecoverable
  BY Inductive, RecoverableFromInv, PTL

(***************************************************************************)
(* No slot of an unfinished group is changed before its journal is durable.*)
(***************************************************************************)
THEOREM JournalFirst == SafeUse /\ Spec => []JournalBeforeScatter
  BY Inductive, JournalFromInv, PTL

(***************************************************************************)
(* Every kernel launch reads the output of the previous window.            *)
(***************************************************************************)
THEOREM AppliedExactlyOnce == SafeUse /\ Spec => []ExactlyOnce
  BY Inductive, OnceFromInv, PTL

(***************************************************************************)
(* Every residue ever printed is the residue of the whole run.             *)
(***************************************************************************)
THEOREM PrintedResidueCorrect == SafeUse /\ Spec => []ResidueCorrect
  <1>1. IInv => ResidueCorrect
    BY DEF IInv
  <1>2. QED
    BY Inductive, <1>1, PTL

-----------------------------------------------------------------------------
(***************************************************************************)
(* MmapStore implements WindowCommit, and its action properties, from IInv.*)
(***************************************************************************)
(***************************************************************************)
(* How a step may touch the durable side.                                  *)
(***************************************************************************)
LEMMA StepKinds ==
  ASSUME SafeUse, IInv, Next
  PROVE  \/ UNCHANGED <<disk, cpd, dird, jnld>>
         \/ \E P : DurableStep(P)
         \/ LosePower
  <1> DEFINE Quiet == UNCHANGED <<disk, cpd, dird, jnld>>
  <1>1. CASE \/ \E m \in Mods, fresh \in BOOLEAN : Launch(m, fresh)
             \/ FreshRemoveCheckpoint \/ FreshRemoveUndo \/ OpenFresh \/ InitStore
             \/ BeginSameWindow \/ BeginWindow \/ JoinFailed
             \/ RestoreSlot \/ RestoreUnlink \/ StartWorkers \/ NextWindow \/ Finish \/ Kill
    <2>1. Quiet
      BY <1>1
      DEF Launch, FreshRemoveCheckpoint, FreshRemoveUndo, OpenFresh, InitStore, BeginSameWindow,
          BeginWindow, JoinFailed, RestoreSlot, RestoreUnlink, StartWorkers, NextWindow,
          Finish, Kill, storeVars, durable
    <2>2. QED
      BY <2>1
  <1>2. CASE \E g \in Groups : RecoverNothing(g) \/ RecoverDone(g) \/ RecoverUndo(g)
    <2>1. Quiet
      BY <1>2 DEF RecoverNothing, RecoverDone, RecoverUndo, storeVars, durable
    <2>2. QED
      BY <2>1
  <1>3. CASE \E d \in Gpus :
               \/ ClaimDone(d) \/ Claim(d) \/ Leave(d) \/ Gather(d) \/ PrepareJournal(d) \/ Compute(d)
               \/ ScatterSlot(d) \/ MarkDone(d) \/ SaveCheckpoint(d) \/ Unlink(d) \/ WorkerFails(d)
    <2>1. Quiet
      BY <1>3
      DEF ClaimDone, Claim, Leave, Gather, PrepareJournal, Compute, ScatterSlot, MarkDone,
          SaveCheckpoint, Unlink, WorkerFails, storeVars, durable
    <2>2. QED
      BY <2>1
  <1>4. CASE FreshSync \/ BeginSync \/ RecoverUnlinkSync \/ FinishSync
    <2>1. UNCHANGED seen /\ PersistAll({})
      BY <1>4, FsyncIsAll DEF FreshSync, BeginSync, RecoverUnlinkSync, FinishSync, SafeUse
    <2>2. QED
      BY <2>1 DEF DurableStep
  <1>5. CASE \E d \in Gpus : JournalSync(d) \/ SaveSync(d) \/ UnlinkSync(d)
    <2>1. UNCHANGED seen /\ PersistAll({})
      BY <1>5, FsyncIsAll DEF JournalSync, SaveSync, UnlinkSync, SafeUse
    <2>2. QED
      BY <2>1 DEF DurableStep
  <1>6. CASE LoadRefused \/ LoadNothing \/ LoadResume \/ LoadComplete
    <2>1. (CleanupTemps \/ UNCHANGED storeVars)
      BY <1>6 DEF LoadRefused, LoadNothing, LoadResume, LoadComplete
    <2>2. QED
      BY <2>1, TempsStep, StoreTypes DEF SafeUse, IInv, storeVars, durable
  <1>7. CASE InitSync \/ RestoreSync \/ \E d \in Gpus : CommitSync(d)
    <2>1. PICK C \in SUBSET Cells : SyncIntervals(C) /\ UNCHANGED seen
      BY <1>7, StoreAssumption DEF InitSync, RestoreSync, CommitSync, CellsOf, Cells
    <2>2. DurableStep(PagesOf(C))
      BY <2>1, MsyncStep, StoreTypes DEF SafeUse, IInv, StoreInv, TruncationOK
    <2>3. QED
      BY <2>2
  <1>8. CASE WriteBack
    BY <1>8, WriteBackStep, StoreTypes DEF SafeUse, IInv, StoreInv, TruncationOK
  <1>9. CASE PowerLoss
    BY <1>9 DEF PowerLoss
  <1>10. QED
    BY <1>1, <1>2, <1>3, <1>4, <1>5, <1>6, <1>7, <1>8, <1>9 DEF Next, MainStep, WorkerStep

LEMMA DurableCheckpoint ==
  ASSUME SafeUse, IInv, Next
  PROVE  cpd' = cpd \/ (cpd' = cpv /\ cpv' = cpv)
  <1>1. CASE UNCHANGED <<disk, cpd, dird, jnld>>
    BY <1>1
  <1>2. CASE \E P : DurableStep(P)
    BY <1>2, PagesEffect, AllEffect, StoreTypes DEF DurableStep, seen, IInv
  <1>3. CASE LosePower
    BY <1>3 DEF LosePower
  <1>4. QED
    BY <1>1, <1>2, <1>3, StepKinds

-----------------------------------------------------------------------------
(***************************************************************************)
(* ProgressInv is invariant as well.                                       *)
(***************************************************************************)
LEMMA ProgressInit == Init => ProgressInv
  BY DEF Init, StoreInit, ProgressInv, NoCheckpoint, Late

LEMMA MainProgress ==
  ASSUME IInv, ProgressInv, MainStep
  PROVE  (main \in Late \ {"finish_sync"} => ~cp.complete /\ ~cpv.complete)'
         /\ (main = "finish_sync" => cp.complete)'
  <1> USE DEF IInv, ControlOK, GoodCheckpoint, ProgressInv, Late
  <1>1. CASE \/ FreshRemoveCheckpoint \/ FreshRemoveUndo \/ FreshSync
             \/ LoadNothing \/ OpenFresh \/ InitStore
    BY <1>1 DEF FreshRemoveCheckpoint, FreshRemoveUndo, FreshSync, LoadNothing, OpenFresh, InitStore
  <1>2. CASE LoadRefused \/ LoadComplete \/ JoinFailed \/ FinishSync
    BY <1>2 DEF LoadRefused, LoadComplete, JoinFailed, FinishSync, Down
  <1>3. CASE LoadResume
    BY <1>3 DEF LoadResume, CleanupTemps, storeVars, seen
  <1>4. CASE InitSync
    BY <1>4 DEF InitSync, seen
  <1>5. CASE BeginSameWindow
    BY <1>5 DEF BeginSameWindow, storeVars, seen
  <1>6. CASE BeginWindow
    BY <1>6 DEF BeginWindow, FreshCheckpoint
  <1>7. CASE BeginSync
    BY <1>7 DEF BeginSync, seen
  <1>8. CASE \E g \in Groups : RecoverNothing(g) \/ RecoverDone(g) \/ RecoverUndo(g)
    BY <1>8 DEF RecoverNothing, RecoverDone, RecoverUndo, storeVars, seen
  <1>9. CASE RestoreSlot \/ RestoreSync \/ RestoreUnlink \/ RecoverUnlinkSync
    BY <1>9 DEF RestoreSlot, RestoreSync, RestoreUnlink, RecoverUnlinkSync, seen
  <1>10. CASE StartWorkers \/ NextWindow
    BY <1>10 DEF StartWorkers, NextWindow, Joined, storeVars, seen
  <1>11. CASE Finish
    BY <1>11 DEF Finish, TypeOK, Checkpoints
  <1>12. QED
    BY <1>1, <1>2, <1>3, <1>4, <1>5, <1>6, <1>7, <1>8, <1>9, <1>10, <1>11 DEF MainStep

LEMMA WorkerProgress ==
  ASSUME IInv, ProgressInv, NEW d \in Gpus, WorkerStep(d) \/ WorkerFails(d)
  PROVE  main' = "run" /\ ~cp'.complete /\ ~cpv'.complete
  <1> USE DEF IInv, ProgressInv, Late, Transition
  <1>1. CASE ClaimDone(d) \/ Claim(d) \/ Leave(d) \/ Gather(d) \/ Compute(d) \/ WorkerFails(d)
    BY <1>1 DEF ClaimDone, Claim, Leave, Gather, Compute, WorkerFails, storeVars, seen
  <1>2. CASE PrepareJournal(d) \/ ScatterSlot(d) \/ SaveCheckpoint(d) \/ Unlink(d)
    BY <1>2 DEF PrepareJournal, ScatterSlot, SaveCheckpoint, Unlink
  <1>3. CASE JournalSync(d) \/ CommitSync(d) \/ SaveSync(d) \/ UnlinkSync(d)
    BY <1>3 DEF JournalSync, CommitSync, SaveSync, UnlinkSync, seen
  <1>4. CASE MarkDone(d)
    BY <1>4 DEF MarkDone, storeVars, seen, TypeOK, Checkpoints
  <1>5. QED
    BY <1>1, <1>2, <1>3, <1>4 DEF WorkerStep

(***************************************************************************)
(* The steps that change the checkpoint processes see.                     *)
(***************************************************************************)
LEMMA SeenCheckpoint ==
  ASSUME Next
  PROVE  \/ cpv' = cpv
         \/ (FreshRemoveCheckpoint \/ BeginWindow \/ Finish \/ \E d \in Gpus : SaveCheckpoint(d))
            /\ cpd' = cpd
         \/ PowerLoss
  <1>1. CASE \/ \E m \in Mods, fresh \in BOOLEAN : Launch(m, fresh)
             \/ BeginSameWindow \/ JoinFailed \/ StartWorkers \/ NextWindow \/ Kill
             \/ \E g \in Groups : RecoverNothing(g) \/ RecoverUndo(g)
    BY <1>1
    DEF Launch, BeginSameWindow, JoinFailed, StartWorkers, NextWindow, Kill,
        RecoverNothing, RecoverUndo, storeVars, seen
  <1>2. CASE \/ FreshRemoveUndo \/ OpenFresh \/ InitStore \/ RestoreSlot \/ RestoreUnlink
             \/ \E g \in Groups : RecoverDone(g)
    BY <1>2 DEF FreshRemoveUndo, OpenFresh, InitStore, RestoreSlot, RestoreUnlink, RecoverDone
  <1>3. CASE \/ FreshSync \/ InitSync \/ BeginSync \/ RestoreSync \/ RecoverUnlinkSync \/ FinishSync
             \/ LoadRefused \/ LoadNothing \/ LoadResume \/ LoadComplete \/ WriteBack
    BY <1>3
    DEF FreshSync, InitSync, BeginSync, RestoreSync, RecoverUnlinkSync, FinishSync, LoadRefused, LoadNothing,
        LoadResume, LoadComplete, CleanupTemps, WriteBack, WriteBackMetadata, WriteBackPage, storeVars,
        seen
  <1>4. CASE \E d \in Gpus : (WorkerStep(d) /\ ~SaveCheckpoint(d)) \/ WorkerFails(d)
    BY <1>4
    DEF WorkerStep, ClaimDone, Claim, Leave, Gather, PrepareJournal, JournalSync, Compute, ScatterSlot,
        CommitSync, MarkDone, SaveSync, Unlink, UnlinkSync, WorkerFails, storeVars, seen
  <1>5. CASE FreshRemoveCheckpoint \/ BeginWindow \/ Finish \/ \E d \in Gpus : SaveCheckpoint(d)
    BY <1>5 DEF FreshRemoveCheckpoint, BeginWindow, Finish, SaveCheckpoint, durable
  <1>6. QED
    BY <1>1, <1>2, <1>3, <1>4, <1>5 DEF Next, MainStep

LEMMA ProgressStep ==
  ASSUME SafeUse, IInv, ProgressInv, Next
  PROVE  ProgressInv'
  <1>1. (main \in Late \ {"finish_sync"} => ~cp.complete /\ ~cpv.complete)'
        /\ (main = "finish_sync" => cp.complete)'
    <2>1. CASE MainStep
      BY <2>1, MainProgress
    <2>2. CASE \E d \in Gpus : WorkerStep(d) \/ WorkerFails(d)
      BY <2>2, WorkerProgress
    <2>3. CASE \E m \in Mods, fresh \in BOOLEAN : Launch(m, fresh)
      BY <2>3 DEF Launch, Late
    <2>4. CASE Kill \/ PowerLoss
      BY <2>4 DEF Kill, PowerLoss, Down, Late
    <2>5. CASE WriteBack
      BY <2>5 DEF WriteBack, WriteBackMetadata, WriteBackPage, seen, ProgressInv
    <2>6. QED
      BY <2>1, <2>2, <2>3, <2>4, <2>5 DEF Next
  <1>2. (/\ cpv.here /\ ~cpd.here => cpv.win = 1
         /\ cpd.here /\ ~cpv.here => AllowFresh
         /\ cpv.here /\ cpd.complete => cpv.complete)'
    <2>1. CASE cpv' = cpv
      BY <2>1, DurableCheckpoint DEF ProgressInv
    <2>2. CASE FreshRemoveCheckpoint /\ cpd' = cpd
      <3>1. cpv' = NoCheckpoint /\ AllowFresh
        BY <2>2 DEF FreshRemoveCheckpoint, SafeUse, IInv, ControlOK
      <3>2. QED
        BY <3>1 DEF NoCheckpoint
    <2>3. CASE BeginWindow /\ cpd' = cpd
      <3>1. cpv' = FreshCheckpoint(mod, win) /\ main = "begin" /\ win \in Windows
        BY <2>3 DEF BeginWindow, IInv, ControlOK, Late
      <3>2. CASE cp.here
        <4>1. cp.win # win
          BY <2>3, <3>2 DEF BeginWindow
        <4>2. cp.done = Groups /\ cpv.here /\ cp.win \in Windows
          BY <3>1, <3>2, <4>1 DEF IInv, ThreadInv, InMemory, ControlOK, GoodCheckpoint
        <4>3. cpd.here
          BY <3>2, <4>2, OwnGroup, StoreAssumption DEF IInv, ThreadInv, InMemory, Settled, Cells
        <4>4. ~cpd.complete
          BY <3>1, <4>2 DEF ProgressInv, Late
        <4>5. QED
          BY <2>3, <3>1, <4>3, <4>4 DEF FreshCheckpoint
      <3>3. CASE ~cp.here
        <4>1. win = 1 /\ ~cpd.here
          BY <3>1, <3>3 DEF IInv, ThreadInv, NewStore
        <4>2. ~cpd.complete
          BY <4>1 DEF IInv, ControlOK, GoodCheckpoint
        <4>3. QED
          BY <2>3, <3>1, <4>1, <4>2 DEF FreshCheckpoint
      <3>4. QED
        BY <3>2, <3>3
    <2>4. CASE Finish /\ cpd' = cpd
      <3>1. cpv'.here = cp.here /\ cpv'.win = cp.win /\ cpv'.complete = TRUE
        BY <2>4 DEF Finish, IInv, TypeOK, Checkpoints
      <3>2. main = "run"
        BY <2>4 DEF Finish, Joined
      <3>3. QED
        BY <2>4, <3>1, <3>2, RunFacts DEF ProgressInv
    <2>5. CASE (\E d \in Gpus : SaveCheckpoint(d)) /\ cpd' = cpd
      <3>1. cpv' = cp /\ main = "run"
        BY <2>5 DEF SaveCheckpoint, Transition
      <3>2. QED
        BY <2>5, <3>1, RunFacts DEF ProgressInv, Late
    <2>6. CASE PowerLoss
      BY <2>6 DEF PowerLoss, LosePower
    <2>7. QED
      BY <2>1, <2>2, <2>3, <2>4, <2>5, <2>6, SeenCheckpoint
  <1>3. QED
    BY <1>1, <1>2 DEF ProgressInv

LEMMA BothInvariants == SafeUse /\ Spec => [](IInv /\ ProgressInv)
  <1>1. ASSUME SafeUse PROVE IInv /\ ProgressInv /\ [Next]_vars => ProgressInv'
    <2>1. CASE Next
      BY <1>1, <2>1, ProgressStep
    <2>2. CASE UNCHANGED vars
      BY <2>2 DEF vars, storeVars, seen, durable, ProgressInv
    <2>3. QED
      BY <2>1, <2>2
  <1>2. CASE SafeUse
    BY <1>1, <1>2, Inductive, ProgressInit, PTL DEF Spec
  <1>3. CASE ~SafeUse
    BY <1>3
  <1>4. QED
    BY <1>2, <1>3

(***************************************************************************)
(* What the next durable checkpoint may be: it never skips the first       *)
(* window, it disappears only for GRIDFP_FRESH, and complete stays so.     *)
(***************************************************************************)
THEOREM CheckpointAdvances == SafeUse /\ Spec => []ProgressInv
  <1>1. IInv /\ ProgressInv => ProgressInv
    OBVIOUS
  <1>2. QED
    BY <1>1, BothInvariants, PTL

-----------------------------------------------------------------------------
(***************************************************************************)
(* The action properties.                                                  *)
(***************************************************************************)
LEMMA UnlinkStep ==
  ASSUME SafeUse, IInv, Next, NEW k \in Keys, jnld[k].here, ~jnld'[k].here, dird',
         cpd'.here, cpd'.win = k[1], k[2] \notin cpd'.done, NEW c \in CellsOf(k[1], k[2])
  PROVE  disk'[c] = jnld[k].img[c]
  <1> USE DEF IInv, StoreInv
  <1>1. CASE UNCHANGED <<disk, cpd, dird, jnld>>
    BY <1>1
  <1>2. CASE \E P : DurableStep(P)
    <2>1. PICK P : DurableStep(P)
      BY <1>2
    <2>2. PersistAll(P) /\ UNCHANGED seen
      BY <2>1, PagesEffect, StoreTypes DEF DurableStep
    <2>3. cpd' = cpv /\ jnld' = jnl
      BY <2>2, AllEffect, StoreTypes
    <2>4. cpv.here /\ cpv.win = k[1] /\ cpv.mod \in Mods /\ k[2] \notin cpv.done /\ ~jnl[k].here
      BY <2>3 DEF ControlOK, GoodCheckpoint
    <2>5. c \in Cells /\ Own[k[1]][c] = k[2] /\ k = <<k[1], k[2]>>
      BY DEF CellsOf, Keys
    <2>6. Clean(c, Ideal(cpv.mod, k[1] - 1)) /\ truncated = {}
      BY <2>4, <2>5 DEF SeenSound, SoundSlot, TruncationOK
    <2>7. disk'[c] = Ideal(cpv.mod, k[1] - 1)
      BY <2>1, <2>5, <2>6, CleanKept, StoreTypes DEF Clean
    <2>8. cpd.here => cpd.mod = cpv.mod
      BY <2>4 DEF DurableLag
    <2>9. jnld[k].img[c] = Ideal(cpv.mod, k[1] - 1)
      BY <2>4, <2>8 DEF JournalsGenuine, Genuine
    <2>10. QED
      BY <2>7, <2>9
  <1>3. CASE LosePower
    BY <1>3 DEF LosePower, DirectoryOK
  <1>4. QED
    BY <1>1, <1>2, <1>3, StepKinds

(***************************************************************************)
(* A journal is durably removed only when its group is durably done, or    *)
(* has been restored on the disk.                                          *)
(***************************************************************************)
THEOREM UnlinkSafe == SafeUse /\ Spec => UnlinkAfterDoneBit
  <1> DEFINE A == \A k \in Keys :
          /\ jnld[k].here /\ ~jnld'[k].here /\ dird'
          /\ cpd'.here /\ cpd'.win = k[1] /\ k[2] \notin cpd'.done
          => \A c \in CellsOf(k[1], k[2]) : disk'[c] = jnld[k].img[c]
  <1>1. ASSUME SafeUse PROVE IInv /\ [Next]_vars => [A]_storeVars
    <2>1. IInv /\ Next => A
      BY <1>1, UnlinkStep
    <2>2. UNCHANGED vars => UNCHANGED storeVars
      BY DEF vars
    <2>3. QED
      BY <2>1, <2>2
  <1>2. CASE SafeUse
    BY <1>1, <1>2, Inductive, PTL DEF Spec, UnlinkAfterDoneBit
  <1>3. CASE ~SafeUse
    BY <1>3
  <1>4. QED
    BY <1>2, <1>3

(***************************************************************************)
(* Without GRIDFP_FRESH, durable progress is never lost.                   *)
(***************************************************************************)
THEOREM NothingLost == SafeUse /\ ~AllowFresh /\ Spec => ProgressKept
  <1>1. ASSUME SafeUse, ~AllowFresh
        PROVE  IInv /\ ProgressInv /\ [Next]_vars => [cpd.here => NotBehind(cpd, cpd')]_cpd
    <2>1. SUFFICES ASSUME IInv, ProgressInv, Next, cpd.here, cpd' # cpd PROVE NotBehind(cpd, cpd')
      BY DEF vars, storeVars, durable
    <2>2. cpd' = cpv
      BY <1>1, <2>1, DurableCheckpoint
    <2>3. cpv.here /\ (cpd.complete => cpv.complete)
      BY <1>1, <2>1 DEF ProgressInv
    <2>4. /\ cpv.mod = cpd.mod
          /\ (cpv.win = cpd.win /\ cpd.done \subseteq cpv.done) \/ cpd.win + 1 = cpv.win
      BY <2>1, <2>3 DEF IInv, StoreInv, DurableLag
    <2>5. cpd.win \in Windows
      BY <2>1 DEF IInv, ControlOK, GoodCheckpoint
    <2>6. QED
      BY <2>2, <2>3, <2>4, <2>5 DEF NotBehind, Windows
  <1>2. CASE SafeUse /\ ~AllowFresh
    BY <1>1, <1>2, BothInvariants, PTL DEF Spec, ProgressKept
  <1>3. CASE ~(SafeUse /\ ~AllowFresh)
    BY <1>3
  <1>4. QED
    BY <1>2, <1>3

-----------------------------------------------------------------------------
(***************************************************************************)
(* The refinement. The recovered vector is determined by the durable       *)
(* checkpoint.                                                             *)
(***************************************************************************)
Vector(ck) ==
    [c \in Cells |->
        IF ~ck.here THEN Start
        ELSE Ideal(ck.mod, IF Own[ck.win][c] \in ck.done THEN ck.win ELSE ck.win - 1)]

LEMMA RecoveredIs == IInv => Recovered = Vector(cpd)
  <1>1. SUFFICES ASSUME IInv, NEW c \in Cells, cpd.here
                 PROVE  Recovered[c] = Vector(cpd)[c]
    BY DEF Recovered, Vector
  <1> DEFINE g == Own[cpd.win][c]
  <1>2. cpd.win \in Windows /\ cpd.mod \in Mods /\ <<cpd.win, g>> \in Keys
        /\ c \in CellsOf(cpd.win, g)
    BY <1>1, OwnGroup DEF IInv, ControlOK, GoodCheckpoint, CellsOf
  <1>3. SoundOnDisk(c)
    BY <1>1 DEF IInv, StoreInv, DurableSound, SoundSlot, SoundOnDisk, Clean
  <1>4. jnld[<<cpd.win, g>>].here =>
            dird /\ jnld[<<cpd.win, g>>].img[c] = Ideal(cpd.mod, cpd.win - 1)
    BY <1>1, <1>2 DEF IInv, StoreInv, DirectoryOK, JournalsGenuine, Genuine
  <1>5. Recovered[c] = LET j == IF dird THEN jnld[<<cpd.win, g>>] ELSE NoJournal
                       IN  IF g \notin cpd.done /\ j.here THEN j.img[c] ELSE disk[c]
    BY <1>1 DEF Recovered
  <1>6. CASE g \in cpd.done
    BY <1>1, <1>3, <1>5, <1>6 DEF SoundOnDisk, Vector
  <1>7. CASE g \notin cpd.done /\ jnld[<<cpd.win, g>>].here
    BY <1>1, <1>4, <1>5, <1>7 DEF Vector
  <1>8. CASE g \notin cpd.done /\ ~jnld[<<cpd.win, g>>].here
    <2>1. disk[c] = Ideal(cpd.mod, cpd.win - 1)
      BY <1>3, <1>8 DEF SoundOnDisk
    <2>2. ~(IF dird THEN jnld[<<cpd.win, g>>] ELSE NoJournal).here
      BY <1>8 DEF NoJournal
    <2>3. QED
      BY <1>1, <1>5, <1>8, <2>1, <2>2 DEF Vector
  <1>9. QED
    BY <1>6, <1>7, <1>8

LEMMA RecoveredNext == (IInv => Recovered = Vector(cpd))'
  BY RecoveredIs, PTL

\* The data of the abstract store is the data of this one.
LEMMA SameData ==
  /\ Abstract!Cells = Cells /\ Abstract!Windows = Windows /\ Abstract!Start = Start
  /\ \A w, g : Abstract!CellsOf(w, g) = CellsOf(w, g)
  /\ \A m, w, g, in : Abstract!Kernel(m, w, g, in) = Kernel(m, w, g, in)
  BY DEF Abstract!Cells, Cells, Abstract!Windows, Windows, Abstract!Start, Start, Abstract!NoMod, NoMod,
         Abstract!CellsOf, CellsOf, Abstract!Kernel, Kernel, Abstract!Ideal, Ideal, Abstract!Garbage,
         Garbage

LEMMA KernelOnVector ==
  ASSUME NEW ck, ck.here, ck.mod \in Mods, ck.win \in Windows, NEW c \in Cells,
         Own[ck.win][c] \notin ck.done
  PROVE  Kernel(ck.mod, ck.win, Own[ck.win][c], Vector(ck))[c] = Ideal(ck.mod, ck.win)
  BY DEF Kernel, Vector, CellsOf

LEMMA CommitStep ==
  ASSUME IInv, IInv', ProgressInv, cpd.here, cpv.here, cpd' = cpv, cpd' # cpd
  PROVE  \E S \in SUBSET (Groups \ cpd.done) : Abstract!Commit(S)
  <1> USE DEF IInv, StoreInv
  <1>1. /\ cpd.mod = cpv.mod /\ cpd.mod \in Mods /\ cpd.win \in Windows /\ cpv.win \in Windows
        /\ cpd.done \subseteq Groups /\ cpv.done \subseteq Groups
    BY DEF DurableLag, ControlOK, GoodCheckpoint, TypeOK, StoreTypeOK, Checkpoints
  <1>2. Recovered = Vector(cpd) /\ Recovered' = Vector(cpv)
    <2>1. Vector(cpd)' = Vector(cpv)
      BY DEF Vector
    <2>2. QED
      BY <2>1, RecoveredIs, RecoveredNext
  <1>3. /\ cpd = [here |-> cpd.here, mod |-> cpd.mod, win |-> cpd.win, done |-> cpd.done,
                  complete |-> cpd.complete]
        /\ cpv = [here |-> cpv.here, mod |-> cpv.mod, win |-> cpv.win, done |-> cpv.done,
                  complete |-> cpv.complete]
        /\ cpd.complete \in BOOLEAN /\ cpv.complete \in BOOLEAN /\ cpd.here = cpv.here
    BY DEF TypeOK, StoreTypeOK, Checkpoints
  <1>4. ~cpd.complete
    <2>1. SUFFICES ASSUME cpd.complete PROVE FALSE
      OBVIOUS
    <2>2. cpv.complete
      BY <2>1 DEF ProgressInv
    <2>3. cpd.win = NW /\ cpd.done = Groups /\ cpv.win = NW /\ cpv.done = Groups
      BY <2>1, <2>2 DEF ControlOK, GoodCheckpoint
    <2>4. QED
      BY <1>1, <1>3, <2>1, <2>2, <2>3
  <1>5. CASE cpd.win = cpv.win /\ cpd.done \subseteq cpv.done
    <2> DEFINE S == cpv.done \ cpd.done
    <2>1. S \in SUBSET (Groups \ cpd.done) /\ cpd.done \cup S = cpv.done
      BY <1>1, <1>5
    <2>2. Recovered' = Abstract!Applied(S)
      <3>1. \A c \in Cells : Vector(cpv)[c] =
                IF Own[cpd.win][c] \in S
                THEN Kernel(cpd.mod, cpd.win, Own[cpd.win][c], Vector(cpd))[c] ELSE Vector(cpd)[c]
        BY <1>1, <1>5, KernelOnVector DEF Vector
      <3>2. Vector(cpv) = [c \in Cells |-> Vector(cpv)[c]]
        BY DEF Vector
      <3>3. QED
        BY <1>2, <3>1, <3>2, SameData DEF Abstract!Applied
    <2>3. CASE ~cpv.complete
      BY <1>1, <1>3, <1>4, <1>5, <2>1, <2>2, <2>3 DEF Abstract!Commit
    <2>4. CASE cpv.complete
      <3>1. cpv.win = NW /\ cpv.done = Groups
        BY <2>4 DEF ControlOK, GoodCheckpoint
      <3>2. QED
        BY <1>1, <1>3, <1>4, <1>5, <2>1, <2>2, <2>4, <3>1 DEF Abstract!Commit
    <2>5. QED
      BY <2>3, <2>4
  <1>6. CASE cpd.win + 1 = cpv.win /\ \A c \in Cells : Settled(cpd.win, Own[cpd.win][c])
    <2> DEFINE S == Groups \ cpd.done
    <2>1. cpd.done \cup S = Groups /\ cpd.win < NW
      BY <1>1, <1>6, StoreAssumption DEF Windows
    <2>2. \A c \in Cells : Own[cpv.win][c] \notin cpv.done
      <3>1. cpd.win # cpv.win
        BY <1>1, <1>6 DEF Windows
      <3>2. QED
        BY <3>1 DEF DurableLag, Settled
    <2>3. cpv.done \in SUBSET Abstract!Trivial(cpd.win + 1)
      BY <1>1, <1>6, <2>2, SameData DEF Abstract!Trivial, CellsOf
    <2>4. ~cpv.complete
      <3>1. SUFFICES ASSUME cpv.done = Groups PROVE FALSE
        BY DEF ControlOK, GoodCheckpoint
      <3>2. InitCell \in Cells
        BY StoreAssumption DEF Cells
      <3>3. QED
        BY <1>1, <2>2, <3>1, <3>2, OwnGroup
    <2>5. Recovered' = Abstract!Applied(S)
      <3>1. cpv.win - 1 = cpd.win
        BY <1>1, <1>6 DEF Windows
      <3>2. \A c \in Cells : Own[cpd.win][c] \in Groups
        BY <1>1, OwnGroup
      <3>3. \A c \in Cells : Vector(cpv)[c] = Ideal(cpd.mod, cpd.win)
        BY <1>1, <2>2, <3>1 DEF Vector
      <3>4. \A c \in Cells : Own[cpd.win][c] \in S =>
                Kernel(cpd.mod, cpd.win, Own[cpd.win][c], Vector(cpd))[c] = Ideal(cpd.mod, cpd.win)
        BY <1>1, KernelOnVector
      <3>5. \A c \in Cells : Own[cpd.win][c] \notin S => Vector(cpd)[c] = Ideal(cpd.mod, cpd.win)
        BY <3>2 DEF Vector
      <3>6. Vector(cpv) = [c \in Cells |-> Vector(cpv)[c]]
        BY DEF Vector
      <3>7. QED
        BY <1>2, <3>3, <3>4, <3>5, <3>6, SameData DEF Abstract!Applied
    <2>6. QED
      BY <1>1, <1>3, <1>4, <1>6, <2>1, <2>3, <2>4, <2>5 DEF Abstract!Commit
  <1>7. QED
    BY <1>5, <1>6 DEF DurableLag

LEMMA BeginStep ==
  ASSUME IInv, IInv', ProgressInv, ~cpd.here, cpv.here, cpd' = cpv
  PROVE  Abstract!Begin
  <1> USE DEF IInv, StoreInv
  <1>1. cpv.mod \in Mods /\ cpv.win = 1 /\ cpv.win \in Windows /\ cpv.done \subseteq Groups
    BY DEF ProgressInv, ControlOK, GoodCheckpoint, TypeOK, StoreTypeOK, Checkpoints
  <1>2. \A c \in Cells : Own[1][c] \notin cpv.done
    BY <1>1 DEF DurableLag, Settled
  <1>3. cpv.done \in SUBSET Abstract!Trivial(1)
    BY <1>1, <1>2, SameData DEF Abstract!Trivial, CellsOf
  <1>4. cpv.complete = FALSE
    <2>1. cpv.done # Groups
      <3>1. InitCell \in Cells
        BY StoreAssumption DEF Cells
      <3>2. QED
        BY <1>1, <1>2, <3>1, OwnGroup
    <2>2. QED
      BY <2>1 DEF ControlOK, GoodCheckpoint, TypeOK, StoreTypeOK, Checkpoints
  <1>5. Recovered' = [c \in Cells |-> Start]
    <2>1. Vector(cpd)' = Vector(cpv)
      BY DEF Vector
    <2>2. \A c \in Cells : Vector(cpv)[c] = Start
      BY <1>1, <1>2 DEF Vector, Ideal
    <2>3. Vector(cpv) = [c \in Cells |-> Vector(cpv)[c]]
      BY DEF Vector
    <2>4. QED
      BY <2>1, <2>2, <2>3, RecoveredNext
  <1>6. cpd.here = FALSE /\ cpv.here = TRUE
    BY DEF TypeOK, StoreTypeOK, Checkpoints
  <1>7. QED
    BY <1>1, <1>3, <1>4, <1>5, <1>6, SameData DEF Abstract!Begin

LEMMA DiscardStep ==
  ASSUME IInv, IInv', ProgressInv, cpd.here, ~cpv.here, cpd' = cpv
  PROVE  Abstract!Discard
  <1>1. AllowFresh
    BY DEF ProgressInv
  <1>2. cpd' = NoCheckpoint
    BY DEF IInv, ControlOK, GoodCheckpoint
  <1>3. Recovered' = [c \in Cells |-> Start]
    BY <1>2, RecoveredNext DEF Vector, NoCheckpoint
  <1>4. cpd.here = TRUE
    BY DEF IInv, TypeOK, StoreTypeOK, Checkpoints
  <1>5. QED
    BY <1>1, <1>2, <1>3, <1>4, SameData
    DEF Abstract!Discard, NoCheckpoint, Abstract!NoMod, NoMod

LEMMA AbstractInit == Init => Abstract!Init
  <1>1. SUFFICES ASSUME Init PROVE Abstract!Init
    OBVIOUS
  <1>2. cpd = NoCheckpoint
    BY <1>1 DEF Init, StoreInit
  <1>3. Recovered = [c \in Cells |-> Start]
    BY <1>2 DEF Recovered, NoCheckpoint
  <1>4. QED
    BY <1>2, <1>3, SameData DEF Abstract!Init, Abstract!Closed, NoCheckpoint, Abstract!NoMod, NoMod

LEMMA AbstractStep ==
  ASSUME SafeUse, IInv, IInv', ProgressInv, [Next]_vars
  PROVE  [Abstract!Next]_(Abstract!vars)
  <1>1. CASE cpd' = cpd
    <2>1. Recovered' = Recovered
      <3>1. Vector(cpd)' = Vector(cpd)
        BY <1>1 DEF Vector
      <3>2. QED
        BY <3>1, RecoveredIs, RecoveredNext
    <2>2. QED
      BY <1>1, <2>1 DEF Abstract!vars
  <1>2. CASE cpd' # cpd
    <2>1. cpd' = cpv
      BY <1>2, DurableCheckpoint DEF vars, storeVars, durable
    <2>2. CASE cpd.here /\ cpv.here
      BY <1>2, <2>1, <2>2, CommitStep DEF Abstract!Next
    <2>3. CASE ~cpd.here /\ cpv.here
      BY <2>1, <2>3, BeginStep DEF Abstract!Next
    <2>4. CASE cpd.here /\ ~cpv.here
      BY <2>1, <2>4, DiscardStep DEF Abstract!Next
    <2>5. CASE ~cpd.here /\ ~cpv.here
      BY <1>2, <2>1, <2>5 DEF IInv, ControlOK, GoodCheckpoint
    <2>6. QED
      BY <2>2, <2>3, <2>4, <2>5
  <1>3. QED
    BY <1>1, <1>2

(***************************************************************************)
(* The store implements the abstract one: what a power loss would leave is *)
(* always the result of whole group transactions, in window order.         *)
(***************************************************************************)
THEOREM Implementation == SafeUse /\ Spec => ImplementsWindowCommit
  <1>1. ASSUME SafeUse
        PROVE  IInv /\ IInv' /\ ProgressInv /\ [Next]_vars => [Abstract!Next]_(Abstract!vars)
    BY <1>1, AbstractStep
  <1>2. CASE SafeUse
    BY <1>1, <1>2, BothInvariants, AbstractInit, PTL DEF Spec, ImplementsWindowCommit, Abstract!Spec
  <1>3. CASE ~SafeUse
    BY <1>3
  <1>4. QED
    BY <1>2, <1>3
=============================================================================
