------------------------------ MODULE MmapStore ------------------------------
(***************************************************************************)
(* The crash-safe multi-GPU mmap backend                                   *)
(* (src/cuda/gridfp/oneesan_cuda_gridfp_multigpu_mmap.cu over              *)
(* src/common/mmap_resume.hpp): main(), its GPU worker threads and the     *)
(* ResumeCoordinator, over the store of ExternalStore.tla.                 *)
(*                                                                         *)
(* A run applies NW windows to the state, one transition group at a time.  *)
(* Each group is a transaction: gather, durable undo journal, transition,  *)
(* scatter, msync, done bit, unlink of the journal. The process may be     *)
(* killed and the machine may lose power between any two steps; a later    *)
(* run resumes from what it finds.                                         *)
(***************************************************************************)
EXTENDS ExternalStore

CONSTANTS
    Gpus,          \* the worker threads, one per GPU
    NoGroup,       \* no group
    AllowFresh,    \* the operator may set GRIDFP_FRESH=1
    RemoveErrors,  \* std::filesystem::remove may fail (its error_code is unread)
    PowerLosses,   \* the machine may lose power
    MaxFaults      \* bound on kills, power losses and failed system calls

ASSUME SolverAssumption ==
    /\ Gpus # {} /\ "Main" \notin Gpus
    /\ NoGroup \notin Groups
    /\ AllowFresh \in BOOLEAN /\ RemoveErrors \in BOOLEAN /\ PowerLosses \in BOOLEAN
    /\ MaxFaults \in Nat

VARIABLES
    main,     \* where the main thread is; "down" when no process runs
    mod,      \* the modulus of the running process
    cp,       \* ResumeCoordinator::cp, with has_checkpoint as cp.here
    win,      \* the window the row and p_hi loops are at
    todo,     \* groups recover_group has yet to see, then groups not yet claimed
    rgrp,     \* the group being recovered
    rest,     \* rest[t]: slots thread t (a GPU, or Main) has still to copy
    wpc,      \* where each worker is
    wgrp,     \* the group of each worker
    buf,      \* the host buffers hM and hD of each worker
    failed,   \* worker_failed
    printed,  \* the <<modulus, residue>> lines printed so far
    faults    \* kills, power losses and failed calls so far

workers == <<wpc, wgrp, buf, failed>>
history == <<printed, faults>>
vars == <<storeVars, main, mod, cp, win, todo, rgrp, rest, workers, history>>

Main == "Main"

MainPCs == {"down", "fresh_checkpoint", "fresh_undo", "fresh_sync", "load", "open", "init", "init_sync",
            "begin", "begin_sync", "recover", "restore", "restored", "unlink_sync",
            "run", "finish_sync"}
WorkerPCs == {"claim", "gather", "journal", "journal_sync", "compute", "scatter",
              "mark", "save", "save_sync", "unlink", "unlink_sync", "stopped"}

TypeOK ==
    /\ StoreTypeOK
    /\ main \in MainPCs
    /\ mod \in Mods \cup {NoMod}
    /\ cp \in Checkpoints
    /\ win \in 0 .. NW
    /\ todo \subseteq Groups
    /\ rgrp \in Groups \cup {NoGroup}
    /\ rest \in [Gpus \cup {Main} -> SUBSET Cells]
    /\ wpc \in [Gpus -> WorkerPCs]
    /\ wgrp \in [Gpus -> Groups \cup {NoGroup}]
    /\ buf \in [Gpus -> Images]
    /\ failed \in BOOLEAN
    /\ printed \subseteq Mods \X Values
    /\ faults \in 0 .. MaxFaults

Idle ==
    /\ cp' = NoCheckpoint /\ win' = 0 /\ todo' = {} /\ rgrp' = NoGroup
    /\ rest' = [t \in Gpus \cup {Main} |-> {}]
    /\ wpc' = [d \in Gpus |-> "stopped"]
    /\ wgrp' = [d \in Gpus |-> NoGroup]
    /\ buf' = [d \in Gpus |-> Blank]
    /\ failed' = FALSE

\* The process is gone, and its lock on the store directory with it.
Down == main' = "down" /\ mod' = NoMod /\ Idle

Init ==
    /\ StoreInit
    /\ main = "down" /\ mod = NoMod
    /\ cp = NoCheckpoint /\ win = 0 /\ todo = {} /\ rgrp = NoGroup
    /\ rest = [t \in Gpus \cup {Main} |-> {}]
    /\ wpc = [d \in Gpus |-> "stopped"]
    /\ wgrp = [d \in Gpus |-> NoGroup]
    /\ buf = [d \in Gpus |-> Blank]
    /\ failed = FALSE
    /\ printed = {} /\ faults = 0

AllDone == cp.done = Groups
JournalKey(g) == <<cp.win, g>>

-----------------------------------------------------------------------------
(***************************************************************************)
(* Start-up. The lock on .mmap.lock admits one process; a second one exits *)
(* with status 2 and changes nothing, so only one process is modelled.     *)
(***************************************************************************)
Launch(m, fresh) ==
    /\ main = "down"
    /\ fresh => AllowFresh
    /\ mod' = m
    /\ main' = IF fresh THEN "fresh_checkpoint" ELSE "load"
    /\ UNCHANGED <<storeVars, cp, win, todo, rgrp, rest, workers, history>>

\* GRIDFP_FRESH=1: remove(checkpoint_path, ec). Nobody reads ec.
FreshRemoveCheckpoint ==
    /\ main = "fresh_checkpoint"
    /\ \E gone \in (IF RemoveErrors THEN BOOLEAN ELSE {TRUE}) :
          cpv' = IF gone THEN NoCheckpoint ELSE cpv
    /\ main' = "fresh_undo"
    /\ UNCHANGED <<cache, durable, dirv, jnl, mod, cp, win, todo, rgrp, rest, workers,
                   history>>

(***************************************************************************)
(* remove_all(undo_dir, ec): files go in any order, then the directory. It *)
(* is modelled in steps that each remove some of the remaining journals,   *)
(* because the process may be killed between two of them.                  *)
(***************************************************************************)
FreshRemoveUndo ==
    /\ main = "fresh_undo"
    /\ \E keep \in SUBSET {k \in Keys : jnl[k].here} :
          /\ keep # {k \in Keys : jnl[k].here} \/ keep = {} \/ RemoveErrors
          /\ jnl' = [k \in Keys |-> IF k \in keep THEN jnl[k] ELSE NoJournal]
          /\ dirv' = (dirv /\ keep # {})
          /\ main' = IF keep = {} \/ RemoveErrors THEN "fresh_sync" ELSE "fresh_undo"
    /\ UNCHANGED <<cache, durable, cpv, mod, cp, win, todo, rgrp, rest, workers, history>>

FreshSync ==
    /\ main = "fresh_sync"
    /\ FsyncStoreDir
    /\ main' = "load"
    /\ UNCHANGED <<seen, mod, cp, win, todo, rgrp, rest, workers, history>>

\* cleanup_temps: only *.tmp files go, which nothing reads; undo/ is synced.
CleanupTemps ==
    IF dirv THEN FsyncUndoDir /\ UNCHANGED seen
    ELSE UNCHANGED storeVars

(***************************************************************************)
(* validate_identity, and the size check of MappedCounts::open_file: a     *)
(* checkpoint of another modulus, or (after cleanup_temps) one whose state *)
(* files are not there in full, is refused with status 2.                  *)
(***************************************************************************)
Acceptable == cpv.mod = mod /\ \A c \in Cells : cache[c] # Absent

LoadRefused ==
    /\ main = "load"
    /\ cpv.here /\ ~Acceptable
    /\ IF cpv.mod = mod THEN CleanupTemps ELSE UNCHANGED storeVars
    /\ Down
    /\ UNCHANGED history

LoadNothing ==
    /\ main = "load"
    /\ ~cpv.here
    /\ CleanupTemps
    /\ main' = "open"
    /\ UNCHANGED <<mod, cp, win, todo, rgrp, rest, workers, history>>

\* Mutant of LoadResume: the complete flag is not looked at.
ResumeIgnoresComplete ==
    /\ main = "load"
    /\ cpv.here /\ Acceptable
    /\ CleanupTemps
    /\ cp' = cpv
    /\ win' = cpv.win
    /\ main' = "begin"
    /\ UNCHANGED <<mod, todo, rgrp, rest, workers, history>>

LoadResume ==
    /\ main = "load"
    /\ cpv.here /\ Acceptable /\ ~cpv.complete
    /\ CleanupTemps
    /\ cp' = cpv
    /\ win' = cpv.win
    /\ main' = "begin"
    /\ UNCHANGED <<mod, todo, rgrp, rest, workers, history>>

\* Mutant of LoadComplete: a complete run exits without its RESULT line.
CompleteIsSilent ==
    /\ main = "load"
    /\ cpv.here /\ Acceptable /\ cpv.complete
    /\ CleanupTemps
    /\ Down
    /\ UNCHANGED history

\* A complete checkpoint: print the residue of the store again and exit.
LoadComplete ==
    /\ main = "load"
    /\ cpv.here /\ Acceptable /\ cpv.complete
    /\ CleanupTemps
    /\ printed' = printed \cup {<<mod, cache[AnswerCell]>>}
    /\ Down
    /\ UNCHANGED faults

\* Mutant of OpenFresh: the files are opened without O_TRUNC.
OpenWithoutTruncation ==
    /\ main = "open"
    /\ cache' = [c \in Cells |-> IF cache[c] = Absent THEN Zeroed(c) ELSE cache[c]]
    /\ main' = "init"
    /\ UNCHANGED <<durable, cpv, dirv, jnl, mod, cp, win, todo, rgrp, rest, workers,
                   history>>

(***************************************************************************)
(* A new store: both files are opened with O_TRUNC and allocated, the      *)
(* initial path is written and its page, that page alone, is synced.       *)
(***************************************************************************)
OpenFresh ==
    /\ main = "open"
    /\ cache' = [c \in Cells |-> Zeroed(c)]
    /\ truncated' = Files
    /\ main' = "init"
    /\ UNCHANGED <<disk, cpv, cpd, dirv, dird, jnl, jnld, mod, cp, win, todo, rgrp,
                   rest, workers, history>>

InitStore ==
    /\ main = "init"
    /\ cache' = [cache EXCEPT ![InitCell] = Start]
    /\ main' = "init_sync"
    /\ UNCHANGED <<durable, cpv, dirv, jnl, mod, cp, win, todo, rgrp, rest, workers,
                   history>>

\* Mutant of InitSync: the page of the initial path is not synced.
InitUnsynced ==
    /\ main = "init_sync"
    /\ win' = 1
    /\ main' = "begin"
    /\ UNCHANGED <<storeVars, mod, cp, todo, rgrp, rest, workers, history>>

InitSync ==
    /\ main = "init_sync"
    /\ SyncIntervals({InitCell})
    /\ win' = 1
    /\ main' = "begin"
    /\ UNCHANGED <<seen, mod, cp, todo, rgrp, rest, workers, history>>

-----------------------------------------------------------------------------
(***************************************************************************)
(* begin_window. It returns at once when the checkpoint is already at this *)
(* window; otherwise the previous window is complete (it throws if not),   *)
(* and a checkpoint with no done bit is renamed into place and synced.     *)
(***************************************************************************)
BeginSameWindow ==
    /\ main = "begin"
    /\ cp.here /\ cp.win = win
    /\ main' = "recover"
    /\ todo' = Groups
    /\ UNCHANGED <<storeVars, mod, cp, win, rgrp, rest, workers, history>>

BeginWindow ==
    /\ main = "begin"
    /\ ~(cp.here /\ cp.win = win)
    /\ cp.here => cp.complete \/ AllDone
    /\ cp' = FreshCheckpoint(mod, win)
    /\ cpv' = cp'
    /\ main' = "begin_sync"
    /\ UNCHANGED <<cache, durable, dirv, jnl, mod, win, todo, rgrp, rest, workers,
                   history>>

BeginSync ==
    /\ main = "begin_sync"
    /\ FsyncStoreDir
    /\ main' = "recover"
    /\ todo' = Groups
    /\ UNCHANGED <<seen, mod, cp, win, rgrp, rest, workers, history>>

(***************************************************************************)
(* recover_group, for every group of the window. The header of a journal   *)
(* found under this window and group has its row, p_hi, p_lo, group and    *)
(* counts, so restore_journal accepts it; it names no modulus.             *)
(***************************************************************************)
RecoverNothing(g) ==
    /\ main = "recover" /\ g \in todo
    /\ ~jnl[JournalKey(g)].here
    /\ todo' = todo \ {g}
    /\ UNCHANGED <<storeVars, main, mod, cp, win, rgrp, rest, workers, history>>

\* Mutant of RecoverDone: the done bit is not asked for, the undo is dropped.
RecoverDropsUndo(g) ==
    /\ main = "recover" /\ g \in todo
    /\ jnl[JournalKey(g)].here
    /\ jnl' = [jnl EXCEPT ![JournalKey(g)] = NoJournal]
    /\ rgrp' = g
    /\ main' = "unlink_sync"
    /\ UNCHANGED <<cache, durable, cpv, dirv, mod, cp, win, todo, rest, workers, history>>

RecoverDone(g) ==
    /\ main = "recover" /\ g \in todo
    /\ jnl[JournalKey(g)].here /\ g \in cp.done
    /\ jnl' = [jnl EXCEPT ![JournalKey(g)] = NoJournal]
    /\ rgrp' = g
    /\ main' = "unlink_sync"
    /\ UNCHANGED <<cache, durable, cpv, dirv, mod, cp, win, todo, rest, workers, history>>

RecoverUndo(g) ==
    /\ main = "recover" /\ g \in todo
    /\ jnl[JournalKey(g)].here /\ g \notin cp.done
    /\ rgrp' = g
    /\ rest' = [rest EXCEPT ![Main] = CellsOf(win, g)]
    /\ main' = "restore"
    /\ UNCHANGED <<storeVars, mod, cp, win, todo, workers, history>>

\* Intervals are copied main.bin first; the order within a file is immaterial.
NextSlots(C) == IF C \cap MainCells # {} THEN C \cap MainCells ELSE C

RestoreSlot ==
    /\ main = "restore"
    /\ \E c \in NextSlots(rest[Main]) :
          /\ cache' = [cache EXCEPT ![c] = jnl[JournalKey(rgrp)].img[c]]
          /\ rest' = [rest EXCEPT ![Main] = @ \ {c}]
    /\ UNCHANGED <<durable, cpv, dirv, jnl, main, mod, cp, win, todo, rgrp, workers,
                   history>>

\* Mutant of RestoreSync: the restored ranges are not synced before the unlink.
RestoreUnsynced ==
    /\ main = "restore" /\ rest[Main] = {}
    /\ main' = "restored"
    /\ UNCHANGED <<storeVars, mod, cp, win, todo, rgrp, rest, workers, history>>

RestoreSync ==
    /\ main = "restore" /\ rest[Main] = {}
    /\ SyncIntervals(CellsOf(win, rgrp))
    /\ main' = "restored"
    /\ UNCHANGED <<seen, mod, cp, win, todo, rgrp, rest, workers, history>>

RestoreUnlink ==
    /\ main = "restored"
    /\ jnl' = [jnl EXCEPT ![JournalKey(rgrp)] = NoJournal]
    /\ main' = "unlink_sync"
    /\ UNCHANGED <<cache, durable, cpv, dirv, mod, cp, win, todo, rgrp, rest, workers,
                   history>>

RecoverUnlinkSync ==
    /\ main = "unlink_sync"
    /\ FsyncUndoDir
    /\ todo' = todo \ {rgrp}
    /\ rgrp' = NoGroup
    /\ main' = "recover"
    /\ UNCHANGED <<seen, mod, cp, win, rest, workers, history>>

\* Mutant of StartWorkers: the workers start while groups are still recovered.
StartBeforeRecovered ==
    /\ main = "recover"
    /\ todo' = Groups
    /\ wpc' = [d \in Gpus |-> "claim"]
    /\ main' = "run"
    /\ UNCHANGED <<storeVars, mod, cp, win, rgrp, rest, wgrp, buf, failed, history>>

\* Every group recovered: the jobs are queued and the worker threads start.
StartWorkers ==
    /\ main = "recover" /\ todo = {}
    /\ todo' = Groups
    /\ wpc' = [d \in Gpus |-> "claim"]
    /\ main' = "run"
    /\ UNCHANGED <<storeVars, mod, cp, win, rgrp, rest, wgrp, buf, failed, history>>

-----------------------------------------------------------------------------
(***************************************************************************)
(* A worker thread: claim the next group of the queue, and process_group.  *)
(* done(), mark_done() and their checkpoint save exclude one another by    *)
(* ResumeCoordinator::mu.                                                  *)
(***************************************************************************)
Transition(d, from, to) ==
    /\ main = "run"
    /\ wpc[d] = from
    /\ wpc' = [wpc EXCEPT ![d] = to]

MutexFree == \A d \in Gpus : wpc[d] \notin {"save", "save_sync"}

\* next.fetch_add over the groups ordered by work: each group is claimed once.
ClaimDone(d) ==
    /\ main = "run" /\ wpc[d] = "claim" /\ ~failed /\ MutexFree
    /\ \E g \in todo \cap cp.done : todo' = todo \ {g}
    /\ UNCHANGED <<storeVars, main, mod, cp, win, rgrp, rest, workers, history>>

\* Mutant of Claim: the queue index is read and not advanced.
ClaimWithoutAdvance(d) ==
    /\ ~failed /\ MutexFree
    /\ \E g \in todo \ cp.done :
          /\ Transition(d, "claim", IF CellsOf(win, g) = {} THEN "mark" ELSE "gather")
          /\ wgrp' = [wgrp EXCEPT ![d] = g]
    /\ UNCHANGED <<storeVars, main, mod, cp, win, todo, rgrp, rest, buf, failed, history>>

\* A group of the partition that owns no slot is only marked (commit_empty).
Claim(d) ==
    /\ ~failed /\ MutexFree
    /\ \E g \in todo \ cp.done :
          /\ Transition(d, "claim", IF CellsOf(win, g) = {} THEN "mark" ELSE "gather")
          /\ todo' = todo \ {g}
          /\ wgrp' = [wgrp EXCEPT ![d] = g]
    /\ UNCHANGED <<storeVars, main, mod, cp, win, rgrp, rest, buf, failed, history>>

Leave(d) ==
    /\ failed \/ todo = {}
    /\ Transition(d, "claim", "stopped")
    /\ UNCHANGED <<storeVars, main, mod, cp, win, todo, rgrp, rest, wgrp, buf, failed,
                   history>>

Gather(d) ==
    /\ Transition(d, "gather", "journal")
    /\ buf' = [buf EXCEPT ![d] = [c \in Cells |->
                   IF c \in CellsOf(win, wgrp[d]) THEN cache[c] ELSE Garbage]]
    /\ UNCHANGED <<storeVars, main, mod, cp, win, todo, rgrp, rest, wgrp, failed,
                   history>>

\* prepare_journal: the file is written and synced under a temporary name, then
\* renamed; create_directories makes undo/ the first time.
PrepareJournal(d) ==
    /\ Transition(d, "journal", "journal_sync")
    /\ jnl' = [jnl EXCEPT ![JournalKey(wgrp[d])] = Journal(buf[d])]
    /\ dirv' = TRUE
    /\ UNCHANGED <<cache, durable, cpv, main, mod, cp, win, todo, rgrp, rest, wgrp,
                   buf, failed, history>>

\* Mutant of JournalSync: the renamed journal is not followed by a directory fsync.
JournalUnsynced(d) ==
    /\ Transition(d, "journal_sync", "compute")
    /\ UNCHANGED <<storeVars, main, mod, cp, win, todo, rgrp, rest, wgrp, buf, failed,
                   history>>

JournalSync(d) ==
    /\ Transition(d, "journal_sync", "compute")
    /\ FsyncUndoDir
    /\ UNCHANGED <<seen, main, mod, cp, win, todo, rgrp, rest, wgrp, buf, failed,
                   history>>

\* The kernels of the window, p_hi down to p_lo, on the device copy of the group.
Compute(d) ==
    /\ Transition(d, "compute", "scatter")
    /\ buf' = [buf EXCEPT ![d] = Kernel(mod, win, wgrp[d], @)]
    /\ rest' = [rest EXCEPT ![d] = CellsOf(win, wgrp[d])]
    /\ UNCHANGED <<storeVars, main, mod, cp, win, todo, rgrp, wgrp, failed, history>>

ScatterSlot(d) ==
    /\ main = "run" /\ wpc[d] = "scatter"
    /\ \E c \in NextSlots(rest[d]) :
          /\ cache' = [cache EXCEPT ![c] = buf[d][c]]
          /\ rest' = [rest EXCEPT ![d] = @ \ {c}]
    /\ UNCHANGED <<durable, cpv, dirv, jnl, main, mod, cp, win, todo, rgrp, workers,
                   history>>

\* Mutant of CommitSync: the group is marked done without its msync.
CommitUnsynced(d) ==
    /\ rest[d] = {}
    /\ Transition(d, "scatter", "mark")
    /\ UNCHANGED <<storeVars, main, mod, cp, win, todo, rgrp, rest, wgrp, buf, failed,
                   history>>

\* commit_group: msync of the main ranges and of the blocked ranges.
CommitSync(d) ==
    /\ rest[d] = {}
    /\ Transition(d, "scatter", "mark")
    /\ SyncIntervals(CellsOf(win, wgrp[d]))
    /\ UNCHANGED <<seen, main, mod, cp, win, todo, rgrp, rest, wgrp, buf, failed,
                   history>>

\* Mutant of MarkDone: the bit is set in memory and the save is left to a later group.
MarkDoneUnsaved(d) ==
    /\ MutexFree
    /\ Transition(d, "mark", "unlink")
    /\ cp' = [cp EXCEPT !.done = @ \cup {wgrp[d]}]
    /\ UNCHANGED <<storeVars, main, mod, win, todo, rgrp, rest, wgrp, buf, failed,
                   history>>

\* mark_done sets the bit in memory first; if the save then throws it stays set.
MarkDone(d) ==
    /\ MutexFree
    /\ Transition(d, "mark", "save")
    /\ cp' = [cp EXCEPT !.done = @ \cup {wgrp[d]}]
    /\ UNCHANGED <<storeVars, main, mod, win, todo, rgrp, rest, wgrp, buf, failed,
                   history>>

\* Mutant of SaveCheckpoint: the bitmap saved holds the worker's own group only.
SaveOwnBit(d) ==
    /\ Transition(d, "save", "save_sync")
    /\ cpv' = [cp EXCEPT !.done = {wgrp[d]}]
    /\ UNCHANGED <<cache, durable, dirv, jnl, main, mod, cp, win, todo, rgrp, rest,
                   wgrp, buf, failed, history>>

SaveCheckpoint(d) ==
    /\ Transition(d, "save", "save_sync")
    /\ cpv' = cp
    /\ UNCHANGED <<cache, durable, dirv, jnl, main, mod, cp, win, todo, rgrp, rest,
                   wgrp, buf, failed, history>>

SaveSync(d) ==
    /\ Transition(d, "save_sync",
                  IF CellsOf(win, wgrp[d]) = {} THEN "claim" ELSE "unlink")
    /\ FsyncStoreDir
    /\ UNCHANGED <<seen, main, mod, cp, win, todo, rgrp, rest, wgrp, buf, failed,
                   history>>

\* durable_unlink of the journal: the file goes, then undo/ is synced.
Unlink(d) ==
    /\ Transition(d, "unlink", "unlink_sync")
    /\ jnl' = [jnl EXCEPT ![JournalKey(wgrp[d])] = NoJournal]
    /\ UNCHANGED <<cache, durable, cpv, dirv, main, mod, cp, win, todo, rgrp, rest,
                   wgrp, buf, failed, history>>

UnlinkSync(d) ==
    /\ Transition(d, "unlink_sync", "claim")
    /\ FsyncUndoDir
    /\ UNCHANGED <<seen, main, mod, cp, win, todo, rgrp, rest, wgrp, buf, failed,
                   history>>

(***************************************************************************)
(* A system call of the worker fails and throws: worker_failed is set, the *)
(* other workers finish the group they hold. What the call had done before *)
(* (a set bit, a rename without its fsync) stays.                          *)
(***************************************************************************)
WorkerFails(d) ==
    /\ faults < MaxFaults
    /\ wpc[d] \notin {"claim", "gather", "compute", "mark", "stopped"}
    /\ wpc[d] = "scatter" => rest[d] = {}
    /\ Transition(d, wpc[d], "stopped")
    /\ failed' = TRUE
    /\ faults' = faults + 1
    /\ UNCHANGED <<storeVars, main, mod, cp, win, todo, rgrp, rest, wgrp, buf, printed>>

-----------------------------------------------------------------------------
Joined == main = "run" /\ \A d \in Gpus : wpc[d] = "stopped"

\* A worker failed, or the bitmap is incomplete: exit 5.
JoinFailed ==
    /\ Joined
    /\ failed \/ ~AllDone
    /\ Down
    /\ UNCHANGED <<storeVars, history>>

\* Mutant of NextWindow: the row loop runs one window too far.
WindowPastEnd ==
    /\ Joined /\ ~failed /\ AllDone
    /\ win' = win + 1
    /\ main' = "begin"
    /\ UNCHANGED <<storeVars, mod, cp, todo, rgrp, rest, workers, history>>

NextWindow ==
    /\ Joined /\ ~failed /\ AllDone
    /\ win < NW
    /\ win' = win + 1
    /\ main' = "begin"
    /\ UNCHANGED <<storeVars, mod, cp, todo, rgrp, rest, workers, history>>

\* finish(): the complete flag is saved.
Finish ==
    /\ Joined /\ ~failed /\ AllDone
    /\ win = NW
    /\ cp' = [cp EXCEPT !.complete = TRUE]
    /\ cpv' = cp'
    /\ main' = "finish_sync"
    /\ UNCHANGED <<cache, durable, dirv, jnl, mod, win, todo, rgrp, rest, workers,
                   history>>

\* The saved checkpoint is durable: print the residue and exit 0.
FinishSync ==
    /\ main = "finish_sync"
    /\ FsyncStoreDir
    /\ printed' = printed \cup {<<mod, cache[AnswerCell]>>}
    /\ Down
    /\ UNCHANGED <<seen, faults>>

-----------------------------------------------------------------------------
(***************************************************************************)
(* The process dies: a signal, the injected exit 86, or any exit on an     *)
(* error that leaves the store as it is (the space check, a failed         *)
(* recovery). What it wrote to the page cache survives.                    *)
(***************************************************************************)
Kill ==
    /\ main # "down" /\ faults < MaxFaults
    /\ faults' = faults + 1
    /\ Down
    /\ UNCHANGED <<storeVars, printed>>

PowerLoss ==
    /\ PowerLosses /\ faults < MaxFaults
    /\ faults' = faults + 1
    /\ LosePower
    /\ Down
    /\ UNCHANGED printed

WriteBack ==
    /\ WriteBackMetadata \/ \E p \in Pages : WriteBackPage(p)
    /\ UNCHANGED <<main, mod, cp, win, todo, rgrp, rest, workers, history>>

MainStep ==
    \/ FreshRemoveCheckpoint \/ FreshRemoveUndo \/ FreshSync
    \/ LoadRefused \/ LoadNothing \/ LoadResume \/ LoadComplete
    \/ OpenFresh \/ InitStore \/ InitSync
    \/ BeginSameWindow \/ BeginWindow \/ BeginSync
    \/ \E g \in Groups : RecoverNothing(g) \/ RecoverDone(g) \/ RecoverUndo(g)
    \/ RestoreSlot \/ RestoreSync \/ RestoreUnlink \/ RecoverUnlinkSync
    \/ StartWorkers \/ JoinFailed \/ NextWindow \/ Finish \/ FinishSync

WorkerStep(d) ==
    \/ ClaimDone(d) \/ Claim(d) \/ Leave(d)
    \/ Gather(d) \/ PrepareJournal(d) \/ JournalSync(d) \/ Compute(d)
    \/ ScatterSlot(d) \/ CommitSync(d)
    \/ MarkDone(d) \/ SaveCheckpoint(d) \/ SaveSync(d)
    \/ Unlink(d) \/ UnlinkSync(d)

Next ==
    \/ \E m \in Mods, fresh \in BOOLEAN : Launch(m, fresh)
    \/ MainStep
    \/ \E d \in Gpus : WorkerStep(d) \/ WorkerFails(d)
    \/ Kill \/ PowerLoss \/ WriteBack

Spec == Init /\ [][Next]_vars

(***************************************************************************)
(* The scheduler runs every thread that can run, the file system answers,  *)
(* and the operator starts the solver again after a crash. Faults are      *)
(* finite (MaxFaults); nothing is assumed of the file system's write-back. *)
(***************************************************************************)
Fairness ==
    /\ WF_vars(\E m \in Mods, fresh \in BOOLEAN : Launch(m, fresh))
    /\ WF_vars(MainStep)
    /\ \A d \in Gpus : WF_vars(WorkerStep(d))

FairSpec == Spec /\ Fairness

-----------------------------------------------------------------------------
(***************************************************************************)
(* What a run that resumes from checkpoint ck, files data and journals js  *)
(* will compute with: every slot of a done group is the window's output,   *)
(* and every other slot is, or its journal restores, the window's input.   *)
(***************************************************************************)
Recoverable(ck, data, js) ==
    ck.here =>
        \A c \in Cells :
            LET g == Own[ck.win][c]
                j == js[<<ck.win, g>>]
            IN  IF g \in ck.done THEN data[c] = Ideal(ck.mod, ck.win)
                ELSE IF j.here THEN j.img[c] = Ideal(ck.mod, ck.win - 1)
                ELSE data[c] = Ideal(ck.mod, ck.win - 1)

(***************************************************************************)
(* Killing the process at any point loses no update and applies none       *)
(* twice: the order journal, scatter, msync, done bit, unlink of           *)
(* process_group and commit_group, and recover_group at the next start.    *)
(***************************************************************************)
KillRecoverable == Recoverable(cpv, cache, jnl)

(***************************************************************************)
(* So does a power loss, whatever pages and directory entries had been     *)
(* written back: the fdatasync, msync and directory fsync calls suffice.   *)
(***************************************************************************)
PowerLossRecoverable ==
    Recoverable(cpd, disk, IF dird THEN jnld ELSE [k \in Keys |-> NoJournal])

(***************************************************************************)
(* No slot of an unfinished group changes in the mapped files before the   *)
(* journal that can undo the change is durable (step 2 before step 3 of    *)
(* docs/multigpu-mmap.md).                                                 *)
(***************************************************************************)
JournalBeforeScatter ==
    cp.here /\ main # "down" =>
        \A c \in Cells :
            LET g == Own[cp.win][c]
            IN  g \notin cp.done /\ cache[c] # Ideal(mod, cp.win - 1)
                    => dird /\ jnld[JournalKey(g)].here

(***************************************************************************)
(* Every kernel launch reads the group exactly as the previous windows     *)
(* left it under the modulus of the running process: each window is        *)
(* applied to each group exactly once, whatever was interrupted before.    *)
(***************************************************************************)
ExactlyOnce ==
    \A d \in Gpus : wpc[d] = "compute" =>
        \A c \in CellsOf(win, wgrp[d]) : buf[d][c] = Ideal(mod, win - 1)

\* Every residue printed, now or by a resumed complete run, is the right one.
ResidueCorrect == \A p \in printed : p[2] = Ideal(p[1], NW)

(***************************************************************************)
(* Durable progress is never lost: the durable checkpoint only moves on to *)
(* more done groups, then to the next window, then to complete.            *)
(***************************************************************************)
NotBehind(old, new) ==
    /\ new.here /\ new.mod = old.mod
    /\ \/ new.win > old.win
       \/ new.win = old.win /\ old.done \subseteq new.done
    /\ old.complete => new.complete

ProgressKept == [][cpd.here => NotBehind(cpd, cpd')]_cpd

(***************************************************************************)
(* The vector a resumed run would start from after a power loss, as the    *)
(* value of the abstract store.                                            *)
(***************************************************************************)
Recovered ==
    [c \in Cells |->
        IF ~cpd.here THEN Start
        ELSE LET g == Own[cpd.win][c]
                 j == IF dird THEN jnld[<<cpd.win, g>>] ELSE NoJournal
             IN  IF g \notin cpd.done /\ j.here THEN j.img[c] ELSE disk[c]]

Abstract == INSTANCE WindowCommit WITH
    open <- cpd.here, mod <- cpd.mod, win <- cpd.win, done <- cpd.done,
    complete <- cpd.complete, val <- Recovered, MayDiscard <- AllowFresh

(***************************************************************************)
(* The store implements the abstract one: at every instant what a power    *)
(* loss would leave is the result of whole group transactions, each        *)
(* applied once and in window order.                                       *)
(***************************************************************************)
ImplementsWindowCommit == Abstract!Spec

(***************************************************************************)
(* An undo journal is durably removed only after the done bit of its group *)
(* is durable, or after the group has been restored (step 6 after step 5   *)
(* of docs/multigpu-mmap.md, and recover_group).                           *)
(***************************************************************************)
UnlinkAfterDoneBit ==
    [][\A k \in Keys :
          /\ jnld[k].here /\ ~jnld'[k].here /\ dird'
          /\ cpd'.here /\ cpd'.win = k[1] /\ k[2] \notin cpd'.done
          => \A c \in CellsOf(k[1], k[2]) : disk'[c] = jnld[k].img[c]]_storeVars

\* A run repeated after each of finitely many faults prints its residue.
EventuallyPrinted == <>(printed # {})
=============================================================================
