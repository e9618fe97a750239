---------------------------- MODULE MmapStoreInv ----------------------------
(***************************************************************************)
(* The inductive invariant behind the safety of MmapStore: what the        *)
(* checkpoint, the journals, the page cache and the disk say of each other *)
(* at every step. It holds on a file system that commits its metadata in   *)
(* order, when GRIDFP_FRESH=1 cannot bring a second modulus into a store   *)
(* and removals do not fail silently (SafeUse).                            *)
(***************************************************************************)
EXTENDS MmapStore

SafeUse ==
    /\ Ordered
    /\ ~RemoveErrors
    /\ AllowFresh => \A a, b \in Mods : a = b

\* The main thread is past the opening of the store.
Late == {"begin", "begin_sync", "recover", "restore", "restored", "unlink_sync", "run",
         "finish_sync"}

(***************************************************************************)
(* Where the threads are and what the checkpoint records look like.        *)
(***************************************************************************)
GoodCheckpoint(ck) ==
    /\ IF ck.here THEN ck.mod \in Mods /\ ck.win \in Windows ELSE ck = NoCheckpoint
    /\ ck.complete => ck.here /\ ck.win = NW /\ ck.done = Groups

ControlOK ==
    /\ GoodCheckpoint(cpv) /\ GoodCheckpoint(cpd) /\ GoodCheckpoint(cp)
    /\ main # "down" => mod \in Mods
    /\ main \notin Late => ~cp.here
    /\ main \in Late => win \in Windows
    /\ main \in Late \ {"begin"} => cp.here /\ cp.win = win
    /\ main \in {"restore", "restored", "unlink_sync"} => rgrp \in Groups
    /\ main \in {"fresh_checkpoint", "fresh_undo", "fresh_sync"} => AllowFresh
    /\ main \in {"open", "init", "init_sync"} => ~cpv.here
    /\ main \in {"fresh_undo", "fresh_sync"} => ~cpv.here \/ RemoveErrors
    /\ main = "finish_sync" => win = NW /\ cp.done = Groups
    /\ main # "run" => \A d \in Gpus : wpc[d] = "stopped"
    /\ \A d \in Gpus : wpc[d] \notin {"claim", "stopped"} => wgrp[d] \in Groups

-----------------------------------------------------------------------------
Clean(c, v) == cache[c] = v /\ disk[c] = v

(***************************************************************************)
(* A slot is sound with respect to checkpoint ck and journals js when it   *)
(* is settled at the output of a done group, or at the input of a group    *)
(* that is not done, or the group has a journal.                           *)
(***************************************************************************)
SoundSlot(ck, js, c) ==
    LET g == Own[ck.win][c]
    IN  IF g \in ck.done THEN Clean(c, Ideal(ck.mod, ck.win))
        ELSE js[<<ck.win, g>>].here \/ Clean(c, Ideal(ck.mod, ck.win - 1))

SeenSound == cpv.here => \A c \in Cells : SoundSlot(cpv, jnl, c)

(***************************************************************************)
(* The same of the durable side, as long as no truncation is pending; one  *)
(* that is pending discards the durable checkpoint when it gets through.   *)
(***************************************************************************)
SoundOnDisk(c) ==
    LET g == Own[cpd.win][c]
    IN  IF g \in cpd.done THEN disk[c] = Ideal(cpd.mod, cpd.win)
        ELSE jnld[<<cpd.win, g>>].here \/ disk[c] = Ideal(cpd.mod, cpd.win - 1)

DurableSound ==
    cpd.here => \A c \in Cells : IF truncated = {} THEN SoundSlot(cpd, jnld, c)
                                 ELSE SoundOnDisk(c)

TruncationOK ==
    /\ truncated \in {{}, Files}
    /\ truncated # {} => ~cpv.here /\ main \notin Late

(***************************************************************************)
(* A journal holds the input of its window, under the modulus of the       *)
(* checkpoint; with no checkpoint, under whatever modulus comes.           *)
(***************************************************************************)
Genuine(ck, js) ==
    \A k \in Keys, m \in Mods :
        js[k].here /\ (ck.here => ck.mod = m)
            => \A c \in CellsOf(k[1], k[2]) : js[k].img[c] = Ideal(m, k[1] - 1)

JournalsGenuine == Genuine(cpv, jnl) /\ Genuine(cpd, jnld)

\* A durable journal lies in a durable undo/ directory.
DirectoryOK ==
    /\ \A k \in Keys : jnl[k].here => dirv
    /\ \A k \in Keys : jnld[k].here => dird

(***************************************************************************)
(* How far the durable checkpoint may lag behind the one processes see. A  *)
(* group that is done for them is done durably, or its journal is durable. *)
(***************************************************************************)
Settled(w, g) ==
    /\ cpd.here /\ cpd.win = w
    /\ g \in cpd.done \/ jnld[<<w, g>>].here

DurableLag ==
    cpv.here =>
        /\ cpd.here =>
              /\ cpd.mod = cpv.mod
              /\ \/ cpd.win = cpv.win /\ cpd.done \subseteq cpv.done
                 \/ /\ cpd.win + 1 = cpv.win
                    /\ \A c \in Cells : Settled(cpd.win, Own[cpd.win][c])
        /\ \A c \in Cells : Own[cpv.win][c] \in cpv.done => Settled(cpv.win, Own[cpv.win][c])

\* Until the checkpoint of a window is durable, every slot is at its input.
LagClean ==
    cpv.here => \/ cpd.here /\ cpd.win = cpv.win
                \/ \A c \in Cells : Clean(c, Ideal(cpv.mod, cpv.win - 1))

-----------------------------------------------------------------------------
(***************************************************************************)
(* The main thread: a new store while it is made, the checkpoint in memory *)
(* against the file, and the recovery of the current window.               *)
(***************************************************************************)
NewStore ==
    /\ main \in {"init", "init_sync"} =>
          /\ \A c \in Cells : c # InitCell => cache[c] = Start
          /\ main = "init_sync" => cache[InitCell] = Start
          /\ truncated = {} => /\ ~cpd.here
                               /\ \A c \in Cells : c # InitCell => disk[c] = Start
    /\ main = "begin" /\ ~cp.here =>
          /\ win = 1 /\ ~cpv.here /\ ~cpd.here
          /\ \A c \in Cells : Clean(c, Start)

InMemory ==
    cp.here =>
        /\ cp.mod = mod
        /\ cpv.here /\ cpv.mod = mod /\ cpv.win = cp.win /\ cpv.done \subseteq cp.done
        /\ \A c \in Cells : Own[cp.win][c] \in cp.done =>
              /\ Clean(c, Ideal(mod, cp.win))
              /\ Settled(cp.win, Own[cp.win][c])
              /\ Own[cp.win][c] \notin cpv.done => jnl[<<cp.win, Own[cp.win][c]>>].here
        /\ main \in {"begin_sync", "recover", "restore", "restored", "unlink_sync",
                     "finish_sync"} => cp = cpv
        /\ main = "begin" => \/ win = cp.win /\ cp = cpv
                             \/ win = cp.win + 1 /\ cp.done = Groups

AtInput(g) == \A c \in CellsOf(win, g) : Clean(c, Ideal(mod, win - 1))

Recovery ==
    /\ main \in {"recover", "restore", "restored", "unlink_sync"} =>
          \A g \in Groups \ (todo \cup cp.done) : AtInput(g)
    /\ main = "restore" =>
          /\ rgrp \notin cp.done /\ jnl[<<win, rgrp>>].here
          /\ rest[Main] \subseteq CellsOf(win, rgrp)
          /\ \A c \in CellsOf(win, rgrp) \ rest[Main] : cache[c] = Ideal(mod, win - 1)
    /\ main = "restored" => rgrp \notin cp.done /\ AtInput(rgrp)
    /\ main = "unlink_sync" => rgrp \in cp.done \/ AtInput(rgrp)

-----------------------------------------------------------------------------
(***************************************************************************)
(* The workers: a group not yet claimed is at its input, a claimed group   *)
(* belongs to one worker, and what that worker has done to it so far.      *)
(***************************************************************************)
\* The journal of g is durable and so is a checkpoint that will use it.
Protected(g) ==
    /\ jnl[<<win, g>>].here /\ jnld[<<win, g>>].here
    /\ cpd.here /\ cpd.win = win /\ g \notin cpd.done

Holds(img, g, v) == \A c \in CellsOf(win, g) : img[c] = v

\* A worker that holds a group holds it alone.
Busy(d) == wpc[d] \notin {"claim", "stopped"}

ClaimOK(d) ==
    Busy(d) => /\ wgrp[d] \notin todo
               /\ \A e \in Gpus : e # d /\ wgrp[e] = wgrp[d] => ~Busy(e)

Claims ==
    main = "run" =>
        /\ \A g \in todo \ cp.done : AtInput(g)
        /\ \A d \in Gpus : ClaimOK(d)

\* What worker d has done so far to its group g.
WorkerOK(d, g) ==
    /\ wpc[d] \in {"gather", "journal", "journal_sync", "compute"} =>
          AtInput(g) /\ g \notin cp.done
    /\ wpc[d] \in {"journal", "journal_sync", "compute"} =>
          Holds(buf[d], g, Ideal(mod, win - 1))
    /\ wpc[d] = "journal_sync" => jnl[<<win, g>>].here
    /\ wpc[d] \in {"compute", "scatter"} => Protected(g)
    /\ wpc[d] = "scatter" =>
          /\ g \notin cp.done
          /\ Holds(buf[d], g, Ideal(mod, win))
          /\ rest[d] \subseteq CellsOf(win, g)
          /\ \A c \in CellsOf(win, g) \ rest[d] : cache[c] = Ideal(mod, win)
    /\ wpc[d] = "mark" =>
          /\ g \notin cp.done
          /\ CellsOf(win, g) # {} => Protected(g)
          /\ \A c \in CellsOf(win, g) : Clean(c, Ideal(mod, win))
    /\ wpc[d] \in {"save", "save_sync", "unlink", "unlink_sync"} => g \in cp.done
    /\ wpc[d] \in {"save_sync", "unlink", "unlink_sync"} => g \in cpv.done

Workers == main = "run" => \A d \in Gpus : WorkerOK(d, wgrp[d])

StoreInv == SeenSound /\ DurableSound /\ TruncationOK /\ JournalsGenuine /\ DirectoryOK
              /\ DurableLag /\ LagClean
ThreadInv == NewStore /\ InMemory /\ Recovery /\ Claims /\ Workers

(***************************************************************************)
(* What the next durable checkpoint may be: it is not skipped past window  *)
(* 1, it disappears only for GRIDFP_FRESH, and complete stays complete.    *)
(***************************************************************************)
ProgressInv ==
    /\ cpv.here /\ ~cpd.here => cpv.win = 1
    /\ cpd.here /\ ~cpv.here => AllowFresh
    /\ cpv.here /\ cpd.complete => cpv.complete
    /\ main \in Late \ {"finish_sync"} => ~cp.complete /\ ~cpv.complete
    /\ main = "finish_sync" => cp.complete

IInv == TypeOK /\ ControlOK /\ StoreInv /\ ThreadInv /\ ResidueCorrect
=============================================================================
