------------------------------ MODULE HybridRows ------------------------------
(***************************************************************************)
(* The row loop of the hybrid RAM solver (ramstream32 hybrid sparse): the  *)
(* main thread drives the GPU and two worker pools over one vector in      *)
(* memory. A row is a HIGH window and then a LOW window. The HIGH window   *)
(* cuts the vector by HIGH group, the LOW window by LOW group, so that     *)
(* each group of one window has cells of every group of the other; a group *)
(* is processed in place. The HIGH pool works on the groups selected for   *)
(* the CPU, the GPU on the others, at the same time when CPU_HIGH_OVERLAP  *)
(* is set.                                                                 *)
(***************************************************************************)
EXTENDS WorkerPool

CONSTANTS
    High, Low,             \* the two pools
    HighGroups, LowGroups,
    Selected,              \* the HIGH groups the CPU is to process
    HighList, LowList,     \* selected_cpu_high_jobs and cpu_low_jobs
    Answer,                \* the cell at answer_rank
    Rows

Cells == HighGroups \X LowGroups
GpuGroups == HighGroups \ Selected

ASSUME HybridAssumption ==
    /\ High # Low /\ Pools = {High, Low}
    /\ HighGroups \cap LowGroups = {} /\ Jobs = HighGroups \cup LowGroups
    /\ HighGroups # {} /\ LowGroups # {} /\ Selected \subseteq HighGroups
    /\ HighList \in Lists /\ Contents[HighList] = Selected
    /\ LowList \in Lists /\ Contents[LowList] = LowGroups
    /\ Answer \in Cells
    /\ Rows \in Nat \ {0}

VARIABLES
    overlap,  \* CPU_HIGH_OVERLAP
    hpc,      \* where main is in the row loop
    row,
    gpuDone,  \* the groups run_gpu_high has processed in this row
    gpuJob,   \* the group the GPU is at work on
    level,    \* how many windows each cell has been through
    answer,
    freed     \* main_auth and block_auth are released

loopVars == <<overlap, hpc, row, gpuDone, gpuJob, level, answer, freed>>
vars == <<poolVars, loopVars>>

HybridTypeOK ==
    /\ TypeOK
    /\ overlap \in BOOLEAN
    /\ hpc \in {"high", "gpu", "high_wait", "low", "low_wait", "row", "read", "free",
                "dtor_high", "dtor_low", "end"}
    /\ row \in 0 .. Rows
    /\ gpuDone \subseteq GpuGroups /\ gpuJob \in GpuGroups \cup {None}
    /\ level \in [Cells -> Nat]
    /\ answer \in Nat \cup {None}
    /\ freed \in BOOLEAN

Init ==
    /\ PoolInit
    /\ mode[High] = "ranked" /\ mode[Low] # "ranked"
    /\ mpool = High /\ mlist = HighList
    /\ overlap \in BOOLEAN
    /\ hpc = "high" /\ row = 0
    /\ gpuDone = {} /\ gpuJob = None
    /\ level = [c \in Cells |-> 0]
    /\ answer = None /\ freed = FALSE

-----------------------------------------------------------------------------
\* A job takes all cells of its group one window further.
Apply(j) == level' = [c \in Cells |-> IF j \in {c[1], c[2]} THEN level[c] + 1 ELSE level[c]]

\* The main thread is in the row loop, not inside a pool.
At(l) == mpc = "out" /\ hpc = l
Goto(l) == hpc' = l

Overlapped == overlap /\ Selected # {} /\ GpuGroups # {}

BeginRow ==
    /\ At("high")
    /\ IF Overlapped THEN StartRun(High, HighList) ELSE UNCHANGED poolVars
    /\ gpuDone' = {}
    /\ Goto("gpu")
    /\ UNCHANGED <<overlap, row, gpuJob, level, answer, freed>>

\* run_gpu_high copies a group to the GPU, computes and copies it back.
GpuBegin(g) ==
    /\ At("gpu") /\ gpuJob = None
    /\ g \in GpuGroups \ gpuDone
    /\ gpuJob' = g
    /\ UNCHANGED <<poolVars, overlap, hpc, row, gpuDone, level, answer, freed>>

GpuEnd ==
    /\ gpuJob # None
    /\ Apply(gpuJob)
    /\ gpuDone' = gpuDone \cup {gpuJob}
    /\ gpuJob' = None
    /\ UNCHANGED <<poolVars, overlap, hpc, row, answer, freed>>

\* Mutant of GpuOver: with overlap, the LOW window begins when the GPU is done.
GpuOverAlone ==
    /\ At("gpu") /\ gpuJob = None /\ gpuDone = GpuGroups
    /\ IF Selected = {} \/ Overlapped THEN Goto("low") /\ UNCHANGED poolVars
       ELSE StartRun(High, HighList) /\ Goto("high_wait")
    /\ UNCHANGED <<overlap, row, gpuDone, gpuJob, level, answer, freed>>

(***************************************************************************)
(* After the GPU: wait for the pool, or, without overlap, run it now.      *)
(***************************************************************************)
GpuOver ==
    /\ At("gpu") /\ gpuJob = None /\ gpuDone = GpuGroups
    /\ \/ Overlapped /\ WaitRun(High) /\ Goto("low")
       \/ ~Overlapped /\ Selected # {} /\ StartRun(High, HighList) /\ Goto("high_wait")
       \/ Selected = {} /\ Goto("low") /\ UNCHANGED poolVars
    /\ UNCHANGED <<overlap, row, gpuDone, gpuJob, level, answer, freed>>

HighWait ==
    /\ At("high_wait") /\ WaitRun(High) /\ Goto("low")
    /\ UNCHANGED <<overlap, row, gpuDone, gpuJob, level, answer, freed>>

LowStart ==
    /\ At("low") /\ StartRun(Low, LowList) /\ Goto("low_wait")
    /\ UNCHANGED <<overlap, row, gpuDone, gpuJob, level, answer, freed>>

\* Mutant of LowWait: the next row begins while the LOW pool works.
LowNoWait ==
    /\ At("low_wait") /\ Goto("row")
    /\ UNCHANGED <<poolVars, overlap, row, gpuDone, gpuJob, level, answer, freed>>

LowWait ==
    /\ At("low_wait") /\ WaitRun(Low) /\ Goto("row")
    /\ UNCHANGED <<overlap, row, gpuDone, gpuJob, level, answer, freed>>

\* Mutant of RowOver: one row too many.
RowPastEnd ==
    /\ At("row")
    /\ row' = row + 1
    /\ Goto(IF row < Rows THEN "high" ELSE "read")
    /\ UNCHANGED <<poolVars, overlap, gpuDone, gpuJob, level, answer, freed>>

RowOver ==
    /\ At("row")
    /\ row' = row + 1
    /\ Goto(IF row + 1 < Rows THEN "high" ELSE "read")
    /\ UNCHANGED <<poolVars, overlap, gpuDone, gpuJob, level, answer, freed>>

ReadAnswer ==
    /\ At("read")
    /\ answer' = level[Answer]
    /\ Goto("free")
    /\ UNCHANGED <<poolVars, overlap, row, gpuDone, gpuJob, level, freed>>

\* The vectors are released before the destructors of the pools run.
Release ==
    /\ At("free")
    /\ freed' = TRUE
    /\ Goto("dtor_high")
    /\ UNCHANGED <<poolVars, overlap, row, gpuDone, gpuJob, level, answer>>

Destroy ==
    /\ \/ At("dtor_high") /\ Shutdown(High) /\ Goto("dtor_low")
       \/ At("dtor_low") /\ Shutdown(Low) /\ Goto("end")
    /\ UNCHANGED <<overlap, row, gpuDone, gpuJob, level, answer, freed>>

MainStep ==
    \/ BeginRow \/ (\E g \in HighGroups : GpuBegin(g)) \/ GpuEnd \/ GpuOver \/ HighWait
    \/ LowStart \/ LowWait \/ RowOver \/ ReadAnswer \/ Release \/ Destroy
    \/ InPool /\ UNCHANGED loopVars

\* A worker of a pool is done with a job: its cells are written.
WorkerJobDone(w) ==
    /\ JobDone(w)
    /\ Apply(job[w])
    /\ UNCHANGED <<overlap, hpc, row, gpuDone, gpuJob, answer, freed>>

WorkerStep(w) == (Work(w) /\ UNCHANGED loopVars) \/ WorkerJobDone(w)

WakeSpuriously == \E t \in Workers \cup {Main} : Spurious(t) /\ UNCHANGED loopVars

Over == At("end") /\ UNCHANGED vars

Next == MainStep \/ (\E w \in Workers : WorkerStep(w)) \/ WakeSpuriously \/ Over

Spec == Init /\ [][Next]_vars

(***************************************************************************)
(* The operating system runs every thread that can run. A thread on a      *)
(* condition variable need not wake without a notification.                *)
(***************************************************************************)
FairSpec == Spec /\ WF_vars(MainStep) /\ \A w \in Workers : WF_vars(WorkerStep(w))

-----------------------------------------------------------------------------
\* The jobs at work, each with the window of its pool.
AtWork == {[by |-> w, on |-> job[w], window |-> 2 * row + (IF PoolOf[w] = High THEN 0 ELSE 1)] :
             w \in {v \in Workers : job[v] # None}}
          \cup (IF gpuJob = None THEN {} ELSE {[by |-> Main, on |-> gpuJob, window |-> 2 * row]})

CellsOf(j) == {c \in Cells : j \in {c[1], c[2]}}

(***************************************************************************)
(* Whoever is at work on a group, a worker of either pool or the GPU, has  *)
(* its cells to itself, and finds each of them after exactly the windows   *)
(* before its own: no cell is skipped, done twice or seen half done,       *)
(* however the threads of two rows, two windows and the GPU interleave.    *)
(***************************************************************************)
InStep ==
    /\ \A a \in AtWork : \A c \in CellsOf(a.on) : level[c] = a.window
    /\ \A a, b \in AtWork : a.by # b.by => CellsOf(a.on) \cap CellsOf(b.on) = {}

(***************************************************************************)
(* The residue is read after every cell went through all windows, and      *)
(* nobody touches the vectors once they are released, although the workers *)
(* of both pools are still alive then.                                     *)
(***************************************************************************)
AnswerRight ==
    /\ answer # None => answer = 2 * Rows /\ \A c \in Cells : level[c] = 2 * Rows
    /\ freed => AtWork = {}

(***************************************************************************)
(* A generation begins, and a pool is stopped, only when every worker has  *)
(* seen the one before and is back at its wait: no worker can wake late    *)
(* and work with the parameters of the next run, or miss a run altogether. *)
(***************************************************************************)
GenerationsInOrder ==
    [][\A p \in Pools : generation'[p] # generation[p] =>
          \A w \in WorkersOf(p) : wpc[w] = "idle" /\ seen[w] = generation[p]]_vars

HighFJ == INSTANCE ForkJoin WITH Threads <- WorkersOf(High), open <- inFlight[High],
                                 todo <- Todo(High), doing <- Doing(High)
LowFJ == INSTANCE ForkJoin WITH Threads <- WorkersOf(Low), open <- inFlight[Low],
                                todo <- Todo(Low), doing <- Doing(Low)

(***************************************************************************)
(* The pool with one list for all workers, and the pool with a list per    *)
(* worker or the caller's vector, do what ForkJoin says: each job of a run *)
(* is taken once, by one worker, and the run ends when all are done.       *)
(***************************************************************************)
HighForkJoin == HighFJ!Spec
LowForkJoin == LowFJ!Spec

(***************************************************************************)
(* The program comes to its end: no wake-up is lost between the unlock and *)
(* the notification, no run is refused because another is in flight (exit  *)
(* 133 and 134), and the destructors join every worker.                    *)
(***************************************************************************)
Terminates == <>(At("end"))
=============================================================================
