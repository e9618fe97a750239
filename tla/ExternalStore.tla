---------------------------- MODULE ExternalStore ----------------------------
(***************************************************************************)
(* The external store of the multi-GPU mmap backend: the two mapped state  *)
(* files (main.bin, blocked.bin), the checkpoint and the directory of undo *)
(* journals, each once as a process sees it (the page cache and the        *)
(* directory entries) and once as it would be found after a power loss.    *)
(*                                                                         *)
(* The primitives of src/common/mmap_resume.hpp (save_checkpoint_atomic,   *)
(* write_journal_atomic, sync_intervals, restore_journal, durable_unlink)  *)
(* are the steps of MmapStore.tla; this module holds the state they act on *)
(* and what the file system may do with it on its own.                     *)
(***************************************************************************)
EXTENDS StoreData

VARIABLES
    cache,      \* the mapped files as processes see them
    disk,       \* the mapped files as a power loss leaves them
    truncated,  \* the files whose truncation has not reached the disk
    cpv,        \* checkpoint.state as processes see it
    cpd,        \* checkpoint.state as a power loss leaves it
    dirv, dird, \* whether undo/ exists, seen and durable
    jnl,        \* the undo journals as processes see them
    jnld        \* the undo journals as a power loss leaves them (below undo/)

seen == <<cache, cpv, dirv, jnl>>
durable == <<disk, truncated, cpd, dird, jnld>>
storeVars == <<seen, durable>>

StoreTypeOK ==
    /\ cache \in Images /\ disk \in Images
    /\ truncated \subseteq Files
    /\ cpv \in Checkpoints /\ cpd \in Checkpoints
    /\ dirv \in BOOLEAN /\ dird \in BOOLEAN
    /\ jnl \in [Keys -> Journals] /\ jnld \in [Keys -> Journals]

\* A store directory that no run has used.
StoreInit ==
    /\ cache = [c \in Cells |-> Absent] /\ disk = [c \in Cells |-> Absent]
    /\ truncated = {}
    /\ cpv = NoCheckpoint /\ cpd = NoCheckpoint
    /\ dirv = FALSE /\ dird = FALSE
    /\ jnl = [k \in Keys |-> NoJournal] /\ jnld = [k \in Keys |-> NoJournal]

-----------------------------------------------------------------------------
(***************************************************************************)
(* Persist(P, E, T, J) makes durable, in one step, the pages P, the        *)
(* entries E of the store directory, the truncations T and the entries J   *)
(* of undo/. It leaves alone what processes see.                           *)
(***************************************************************************)
Persist(P, E, T, J) ==
    /\ disk' = [c \in Cells |->
                  IF PageOf[c] \in P THEN cache[c]
                  ELSE IF FileOf(c) \in truncated \cap T THEN Zeroed(c)
                  ELSE disk[c]]
    /\ truncated' = truncated \ T
    /\ cpd' = IF "checkpoint" \in E THEN cpv ELSE cpd
    /\ dird' = IF "undo" \in E THEN dirv ELSE dird
    /\ jnld' = [k \in Keys |-> IF k \in J THEN jnl[k] ELSE jnld[k]]

PersistAll(P) == Persist(P, StoreEntries, Files, Keys)

(***************************************************************************)
(* Synchronising calls. When the file system journals its metadata in      *)
(* order (Ordered: ext4, xfs), committing one metadata operation commits   *)
(* every earlier one; otherwise a call makes durable what POSIX says it    *)
(* does and no more.                                                       *)
(***************************************************************************)
FsyncStoreDir ==
    IF Ordered THEN PersistAll({}) ELSE Persist({}, StoreEntries, {}, {})

FsyncUndoDir ==
    IF Ordered THEN PersistAll({}) ELSE Persist({}, {}, {}, Keys)

\* msync(MS_SYNC) of the pages that hold the slots C.
SyncIntervals(C) ==
    LET T == FilesOf(C) \cap truncated
    IN  IF Ordered /\ T # {} THEN PersistAll(PagesOf(C))
        ELSE Persist(PagesOf(C), {}, T, {})

(***************************************************************************)
(* The file system writes back on its own, at any time: a dirty page (once *)
(* the truncation of its file is durable), or metadata, all of it when it  *)
(* is ordered and any one entry when it is not.                            *)
(***************************************************************************)
WriteBackPage(p) ==
    /\ \E c \in Cells : PageOf[c] = p /\ cache[c] # disk[c]
    /\ \A c \in Cells : PageOf[c] = p => FileOf(c) \notin truncated
    /\ Persist({p}, {}, {}, {})
    /\ UNCHANGED seen

MetadataUnits ==
    IF Ordered THEN {<<StoreEntries, Files, Keys>>}
    ELSE {<<{e}, {}, {}>> : e \in StoreEntries} \cup {<<{}, {f}, {}>> : f \in Files}
           \cup {<<{}, {}, {k}>> : k \in Keys}

WriteBackMetadata ==
    \E u \in MetadataUnits :
        /\ Persist({}, u[1], u[2], u[3])
        /\ <<truncated, cpd, dird, jnld>>' # <<truncated, cpd, dird, jnld>>
        /\ UNCHANGED seen

\* What is left after a power loss: the durable side, seen by everyone.
LosePower ==
    LET found == IF dird THEN jnld ELSE [k \in Keys |-> NoJournal]
    IN  /\ cache' = disk
        /\ truncated' = {}
        /\ cpv' = cpd
        /\ dirv' = dird
        /\ jnl' = found /\ jnld' = found
        /\ UNCHANGED <<disk, cpd, dird>>
=============================================================================
