# Verification of oneesan-gpu

oneesan-gpu counts the self-avoiding corner-to-corner paths of an n x n grid.
The count is computed modulo several 64-bit primes by a dynamic program over
frontier states, one solver run per prime, and put together by the Chinese
remainder theorem. For n = 27 one residue needs about 3.8 TiB of state and days
of GPU time, so the parts that must be right are the ones that keep such a run
alive: the crash-safe store, the schedulers that feed the GPUs, and the pipeline
that collects residues.

Paths below are relative to the repository (`src/...`, `docs/...`, `scripts/...`).

## 1. Inventory

| Component | State it keeps | Operations | Talks to |
|---|---|---|---|
| **Crash-safe store** `src/common/mmap_resume.hpp` | `main.bin`, `blocked.bin` (mmap), `checkpoint.state`, `undo/*.undo`, `.mmap.lock` | save/load checkpoint, write/restore journal, `sync_intervals`, `durable_unlink` | the solver below; the file system |
| **Multi-GPU mmap solver** `src/cuda/gridfp/oneesan_cuda_gridfp_multigpu_mmap.cu` | `ResumeCoordinator::cp`, the queue index `next`, `worker_failed`, one host buffer pair per GPU | start fresh or resumed, `begin_window`, `recover_group`, `process_group`, `finish` | the store; one worker thread per GPU |
| **Grid-FP transition, partition, ranking** `src/common/gridfp_transition.hpp` and the kernels of the solver | none (pure) | transition of a mate state, rank/unrank, `window_masks`, `make_intervals` | every Grid-FP backend |
| **CPU frontier DP** `src/cpp/oneesan_frontier.cpp`, `oneesan_cpu.cpp` | a hash map from frontier to count | cell by cell transition | reference for the GPU backends |
| **Exact CRT pipeline** `scripts/solve/*.py` | work directory: per-prime residues, checkpoint, manifest, `exact.txt`, lock | solve a prime, save, reconstruct, publish, verify | solver processes, `build_provenance.py` |
| **Persistent CPU pools** `src/cuda/gridfp/ramstream32_cpu_high_direct_persistent.hpp`, `..._low_sparse_persistent.hpp` | `generation`, `pending`, `in_flight`, `stopping`, `next`, schedule | start, wait, shutdown, worker loop | the hybrid solver below |
| **Hybrid RAM solver** `src/cuda/gridfp/oneesan_cuda_gridfp_ramstream32_factorized_hybrid_sparse.cu` | the vector in RAM, row, which window | a HIGH and a LOW window per row, the HIGH one shared with the GPU | both pools; one GPU |
| **Group-batch scheduler** `src/cuda/b300/..._orbit_blockfused_groupbatch_batch.cu`, `groupbatch_schedule.cuh` | claimed batches, owners, arenas, device metadata, cached CUDA graphs | plan, claim, steal, move, gather, transform, scatter | one thread and arena per GPU; the Grid-FP kernels |
| **GPU hash insertion** `src/cuda/legacy/oneesan_cuda_hash.cu` | slot states empty/owned/ready, keys, values, the occupied list | insert with linear probing, add modulo, gather | legacy backend; the frontier transition |
| **Shard addresses, invariant division, schedules** `src/common/*.hpp` | none (pure) | address split, exact division, snake order | sharded backends |
| Kernel variants, autotuner, runners, ZDD tools, probes, Lean development, visualization, vendored counters | - | - | not modelled, see section 8 |

### What is hard in each, and what makes it correct

* **Store and mmap solver.** Kills and power losses at any instant; pages written
  back in any order; a page shared by two groups; recovery interrupted and
  repeated; workers that save one bitmap in turn; a worker that fails while the
  others go on; a discarded store. Correct when every window is applied exactly
  once to every group whatever happened, the order *journal, scatter, msync, done
  bit, unlink* holds on the disk and not only in memory, durable progress is
  never lost, and a repeated run ends with the right residue.
* **Grid-FP.** The groups of a window are worked on in any order and on several
  GPUs at once, which is right only if no edge of the window carries a word out of
  its group. Correct when the groups are disjoint, exhaustive and closed, and the
  whole program arrives at the number of paths.
* **Exact pipeline.** A crash between two result files, a checkpoint of another
  binary, a binary replaced under a running runner, two runners on one directory,
  a finished count run again, duplicate moduli, too few primes for the bound.
  Correct when the verifier accepts nothing but the count, a reported result
  survives whatever comes, and repeated runs arrive at one.
* **Pools and hybrid solver.** A worker that wakes late, or for no reason; a
  notification sent after the unlock; a run begun while another is in flight; the
  GPU and the HIGH pool on one vector; vectors released before the pools' threads
  are joined. Correct when each job of a run is done once before `wait_run`
  returns, nobody finds a cell a window too early or too late, and the program
  comes to its end.
* **Group batches.** Threads race for batches; a stolen batch changes its owner for
  the rows to come while metadata and graphs are freed; a cached graph binds an
  arena and a choice of kernels that the next residue does not have. Correct when
  each batch is transformed once per window, no stale graph is launched, and what
  a GPU keeps it owns.
* **Hash insertion.** Two threads insert one key, or claim one slot for two; an
  addition between the read and the compare-and-swap; a table without an empty
  slot. Correct when the sum of each key is kept and the table always has room.

## 2. Plan

| # | Modules | Abstract specification | Runs | Theorems | State |
|---|---|---|---|---|---|
| 1 | `StoreData`, `ExternalStore`, `MmapStore`, `MmapStoreInv` | `WindowCommit` | `power`, `fresh`, and four of findings | types, all safety, refinement | done |
| 2 | `ResultFiles`, `ExactRun`, `ExactRunInv` | none (a refinement would repeat `ResultKept`) | `exact`, and two of findings | types, all safety | done |
| 3 | `WorkerPool`, `HybridRows` | `ForkJoin` | `hybrid` | types, all safety, both refinements | done |
| 4 | `GridFP`, `GridPaths`, `BatchPlan`, `GroupBatch`, `GridBatch` | the paths of the grid | `groupbatch` | types and all safety of the scheduler; of the arithmetic that ranks are a bijection, groups a closed partition, and that the program on words counts the paths; that the plan is one the scheduler can work with; of the whole that it prints the number of paths | done |
| 5 | `FrontierDP`, `HashFrontier`, `HashFrontierInv` | the sequential program of `oneesan_frontier.cpp`; the paths of the grid | `hash` | types and all safety; that the sequential program counts the paths | done |
| - | shard addresses, invariant division, remainder theorem, path bound | - | - | - | left out, section 8 |

The order puts first what runs for days and what no unit test of the repository
reaches (the tests inject three crash points; the model crashes everywhere), then what
decides, on every run, whether a plausible number is the right one.

## 3. The modules of the mmap backend

`StoreData` declares the constants and the data. What a slot holds is abstracted
to *which modulus, how many windows applied*, because that is all the properties
tell apart: `Ideal(m, w)` is the right value after `w` windows, `Garbage` any
value that must never be computed with, `Absent` a slot of a file that is not
there in full. `Own[w][c]` is the partition of window `w`. `Kernel` is one group
transaction on the device: right output from right input, garbage otherwise.

`ExternalStore` holds each object of the store twice: as processes see it
(`cache`, `cpv`, `dirv`, `jnl`) and as a power loss would leave it (`disk`,
`cpd`, `dird`, `jnld`, with truncations still to be committed in `truncated`).
`Persist` is the one way anything becomes durable; the synchronising calls and
the file system's own write-back are instances of it. With `Ordered` the file
system commits metadata in order, as ext4 and xfs do (an `fsync` of a directory
commits every earlier rename, unlink and truncation); without it a call makes
durable what POSIX says and no more. Page write-back is arbitrary in both.

`MmapStore` is the program. One action is the code between two points where a
crash, another thread or the file system can tell the difference:

| Code | Actions |
|---|---|
| `main` 635-705: arguments, lock, `GRIDFP_FRESH` | `Launch`, `FreshRemoveCheckpoint`, `FreshRemoveUndo`, `FreshSync` |
| `load`, `validate_*`, `cleanup_temps`, `open_file` | `LoadRefused`, `LoadNothing`, `LoadResume`, `LoadComplete`, `OpenFresh`, `InitStore`, `InitSync` |
| `begin_window` | `BeginSameWindow`, `BeginWindow`, `BeginSync` |
| `recover_group`, `restore_journal`, `durable_unlink` | `RecoverNothing`, `RecoverDone`, `RecoverUndo`, `RestoreSlot`, `RestoreSync`, `RestoreUnlink`, `RecoverUnlinkSync` |
| worker lambda, `process_group` | `StartWorkers`, `ClaimDone`, `Claim`, `Leave`, `Gather`, `PrepareJournal`, `JournalSync`, `Compute`, `ScatterSlot` |
| `commit_group`, `commit_empty`, `mark_done` | `CommitSync`, `MarkDone`, `SaveCheckpoint`, `SaveSync`, `Unlink`, `UnlinkSync` |
| `catch (...)`, join, loops, `finish` | `WorkerFails`, `JoinFailed`, `NextWindow`, `Finish`, `FinishSync` |
| outside the program | `Kill`, `PowerLoss`, `WriteBack` |

Atomicity. A `rename` is atomic for processes and lands in the durable side only
by a sync or write-back. `fdatasync` of the temporary file comes before the
rename, so a checkpoint or journal that is there at all is whole, and the write
of the temporary file is folded into the rename. `scatter_raw` and
`restore_journal` copy one slot per step, `main.bin` before `blocked.bin`, so
every partial scatter is reachable. `ResumeCoordinator::mu` is held through
the save of the bitmap (`MutexFree`). The two `msync` calls of a commit are one
step: pages become durable between them by `WriteBackPage` anyway.

`Kill` also stands for every exit that leaves the store as it is: a CUDA error,
a recovery that throws, the free-space check, the injected exit 86.

`MmapStoreInv` holds the invariant that makes the proofs go through, and
`MCMmapStore` the instances. The operators commented `Mutant of ...` in
`MmapStore` are plausible bugs of the code: putting one in place of its
original makes TLC report the property `PROJECT.json` names with it, which
shows that the property says something.

`WindowCommit` is the promise: a vector, a current window, a set of done groups;
groups commit as a whole, the window advances when all are done, a complete
vector is final, and the operator may discard everything.

### The modules of the exact pipeline

`ResultFiles` is the work directory: `checkpoint.json`, the copy of the build
provenance, `exact_manifest.json` and `exact.txt`, each as processes see it and as
a power loss would leave it, and `Accepts`, the verifier
(`scripts/tools/verify_exact_result.py`). A SHA-256 is the content it is taken of,
and a residue is the binary that computed it, which is what tells right from
wrong. `ExactOf` is the remainder theorem: residues of good binaries give `Count`,
others another number.

`ExactRun` is the two runners over it. They share `exact_safety.py`, the directory
and its lock, and differ in how residues arrive: one solver process per prime, in
order, or one for all missing primes, in the order it prints them.

| Code | Actions |
|---|---|
| arguments, lock (`acquire_workdir_lock`) | `Launch` |
| `solver_identity`, `load_checkpoint`, the missing primes | `Start`, `StartRefused` |
| the loop of `solve_b300_exact.py` | `SolveOne`, `SaveSync`, `SolverFails` |
| `Popen` and the loop of `solve_b300_exact_batch.py` | `Spawn`, `ReadLine`, `SaveSync`, `SolverFails` |
| after the loop | `StopPartial`, `ResultRefused` |
| `write_exact_result` | `CopyProvenance`, `ProvenanceSync`, `NoProvenance`, `WriteManifest`, `ManifestSync`, `WriteExact`, `ExactSync`, `Report` |
| `b300x8-exact.sh`, the build scripts | `Rebuild`, `RebuildSidecar` |
| outside the program | `RemoveCheckpoint`, `Kill`, `PowerLoss`, `Flush` |

`_durable_atomic_write` is two steps, the rename and the sync of the directory, so
that a kill or a power loss can fall between them; the sync of the temporary file
precedes its rename and is folded into it. All files share one directory, so
syncing it makes every earlier rename durable. With `FingerprintDefined = FALSE`
the batch runner is the code as it is, which ends at line 106; `TRUE` is the code
with that line repaired, and what the other runs and the proofs say of the batch
runner they say of the repaired one. `RebuildWhileRunning = FALSE` is the
discipline the code relies on and does not enforce. `ExactRunInv` holds the
inductive invariant and `MCExactRun` the instance.

### The modules of the worker pools

`ForkJoin` is what a solver expects of a pool: a run begins with every job of its
list to do, a thread takes a job nobody has, and the run is over when nothing is
left and nobody is at work.

`WorkerPool` is the code of both pools. They are the same but for how jobs are
given out (`mode`): one list sorted by size (`CpuHighDirectPersistentPool`), the
same on the caller's vector (`CpuLowSparsePersistentPool` with
`CPU_LOW_SCHEDULE=dynamic`, the default), or a list per worker (its sticky,
contiguous and domain schedules). A section under the mutex is one action; a
thread on a condition variable is in `asleep`, leaves it by a notification or
spuriously and evaluates its predicate again.

| Code | Actions |
|---|---|
| `start_run`: `prepare_schedule`, `ensure_started`, the locked part, `notify_all` | `StartRun`, `Rebuild`, `CreateWorker`, `Launch`, `Notify` |
| `wait_run` | `WaitRun`, `Await` |
| `shutdown` and the destructors | `Shutdown`, `Await`, `Stop`, `Notify`, `JoinWorkers` |
| `worker_loop` | `Wake`, `Take`, `JobDone`, `Finish` |

`HybridRows` is the row loop of the hybrid solver over two pools and the GPU. The
HIGH window cuts the vector by HIGH group and the LOW window by LOW group, so
`Cells` is their product and each job of one window has a cell of every job of the
other; `level` counts the windows a cell has been through. What a job computes is
abstracted to that count. A list is identified by its address in the code and by
itself here; no client changes a list it has handed over.

### The modules of the group-batch solver

`GridFP` is the arithmetic: words over the columns (`Words`), their rank
(`rank_full`, `H_DP`), what an edge does (`include_horizontal` with both closures,
`Sources`), the partition of a window into groups (`window_candidates`,
`GroupCells`) and the vector after the first row. `GridPaths` is what is to be
counted: `CornerPaths`, and `PathCount`, which counts them one by one. `BatchPlan` is
the plan of a row: groups sorted by work (`WorkOrder`), the size batches are packed
to (`BatchTarget`), the packing (`PrepareBatches`), the tiles of a batch (`Lanes`,
`LayoutSize`) and the GPU each batch belongs to (`MakeAffinity`). Sizes are in
states; `std::sort` is the position by the number of elements that come before
(`InOrder`). In the mode shard the code packs the groups of each GPU by themselves
(line 2206), where the plan here gives batches of the common packing to GPUs.
`GridBatch` puts plan, arithmetic and scheduler together as main does: the first row
(`FirstCounts`), the windows of a row (`RowWindow`), the sum of the last
(`LastRowSum`). `GroupBatch` is the scheduler, over any plan and arithmetic:

| Code | Actions |
|---|---|
| residue loop: graphs dropped, arenas reserved, first row | `BeginResidue` |
| per window: threads started, joined, owners moved and metadata freed | `Fork`, `Join` |
| result line | `PrintResidue` |
| thread of a GPU: own batches, then a common position | `Home`, `Steal` |
| `process_window_batched_io` | `Prepare`, `Gather`, `Transition`, `Scatter` |

`mode` is how batches are given out: to one GPU, fixed to GPUs, from a common
counter, own first and then stealing, and stealing with the thief keeping the
batch, without or with freeing what the former owner holds for it. A graph is the
arena and the choice of kernels it was captured with; a graph that does not fit
leaves the batch as it was. A new arena has a new identity, the worst case: the
allocator may hand out the old address. The lanes that share out a batch inside
one GPU are one step.

### The modules of the hash solver

`FrontierDP` is the frontier dynamic program on degrees and components:
`transition_one` is what one edge makes of a key, `Reachable` the keys that occur after
each edge, `Counts` the ways of each, which is the map `cur` of
`oneesan_frontier.cpp`, and `PathTotal` what that program prints. `HashFrontier` is
the GPU solver of the same program: a table
cleared for each edge, a thread per key, and every access of a thread to the table
that another can notice is a step: `Load`, `Claim` (the compare-and-swap from
empty), `Write`, `List`, `Publish`, `Spin`, `Match` and the probe, `Read` and `Cas`
of the modular addition. `Gather` makes the table the keys of the next edge, in an
order of its own, since no key cares about its position. `HashFrontierInv` holds the
inductive invariant.

## 4. Properties

* `KillRecoverable`, `PowerLossRecoverable` - from what processes see, and from
  what a power loss would leave, every slot can be brought to the value the
  checkpoint claims.
* `JournalBeforeScatter`, `UnlinkAfterDoneBit` - the order of steps 2-3 and 5-6 of
  `docs/multigpu-mmap.md`, on the durable side.
* `ExactlyOnce` - each kernel launch reads exactly the previous window's output.
* `ResidueCorrect` - each printed residue is right for its modulus.
* `ProgressKept` - the durable checkpoint never goes back.
* `ImplementsWindowCommit` - refinement, with the vector a resumed run would start
  from after a power loss (`Recovered`) as the abstract vector.
* `EventuallyPrinted` - a run repeated after its faults prints a residue.

Of the exact pipeline:

* `BoundToBinary` - the residues of a checkpoint come from the binary it names.
* `AcceptedIsRight` - whatever mixture of old and new files is there, now or after a
  power loss, if the verifier accepts it and its binary is good, it is the count.
* `PublishedIsDurable` - a runner about to report success leaves a result that is
  accepted, and would be after a power loss.
* `AnnouncedKept` - a residue that `save_checkpoint` returned from is not lost.
* `ResultKept` - a result that stands goes on standing through every later run,
  interrupted anywhere, until the operator removes the checkpoint.
* `EventuallyPublished` - with a good binary in the end, repeated runs publish.

Of the pools and the hybrid solver:

* `InStep` - whoever is at work on a group, a worker or the GPU, has its cells to
  itself and finds each after exactly the windows before its own.
* `AnswerRight` - the residue read has been through every window, and nobody is at
  work on the vectors when they are released.
* `GenerationsInOrder` - a generation begins, and a pool stops, only when every
  worker has seen the one before and is back at its wait.
* `HighForkJoin`, `LowForkJoin` - each pool implements `ForkJoin`.
* `Terminates` - no wake-up is lost, no run is refused, every worker is joined.

Of the group-batch solver:

* `SlotsRight` - at every moment each slot, and each arena, holds what the windows
  done so far make of it: a batch done twice, left out, done by a stale graph or
  gathered too early shows.
* `GroupsClosed` - for every window and every group, what flows into a slot of the
  group comes from the group; the kernel of a batch gives, from the slots of the
  batch alone, what the whole vector gives; and the last vector adds up to the number
  of paths.
* `GraphsCurrent` - a graph that can still be launched is bound to the present
  arena, to kernels the modulus allows and to metadata that is there.
* `OneHolder` - in a reclaiming run a GPU keeps nothing for a batch of another.
* `PrintedRight` - the residues are the numbers of paths, counted by brute force.
* `EventuallyPrinted` - every residue is printed, and no window ends with a batch
  left over.

Of the hash solver:

* `SumsRight` - in the middle of any race, each ready slot holds the sum of the
  insertions that have arrived, and each arrived key has one slot.
* `OneWriter` - a key or value is read only when it is written.
* `HalfEmpty` - at least half of the table stays empty, so no insertion is dropped.
* `AnswerRight`, `Finishes` - the residue is the number of paths modulo `Mod`, and is
  reached.

## 5. Runs

The instances of the mmap backend have two groups, two slots of each file and one page per file, so
each page holds slots of both groups: the smallest layout in which the `msync`
of one group writes back half of another. The pairing of slots changes between
windows, so undoing with a journal of the wrong window is visible. Two workers
suffice for the queue, the mutex and the shared bitmap: the code treats all
workers alike, and with two groups a third would find the queue empty.

| Run | Bounds | Shows |
|---|---|---|
| `power` | 3 windows (the first with a group that owns nothing), moduli 2 and 3, 3 faults of any kind | types, all safety properties without `GRIDFP_FRESH`, progress, refinement |
| `fresh` | 2 windows, 1 modulus, `GRIDFP_FRESH` at any start, 2 faults, fairness | printed residues, liveness, refinement with discards, the inductive invariants |
| `foreign` | as `fresh`, 2 moduli, no power loss | violation: stale journals of another modulus |
| `errors` | `remove` may fail | violation: half-discarded store resumed |
| `posixdir`, `posixbit` | metadata not ordered | violation: two directory entries nobody syncs |
| `exact` | 2 primes, 2 processes, a good and a bad binary each with its sidecar or none, `--max-runs` 0 or 1, 4 faults, fairness | all seven properties above |
| `exact_rebuild` | the binary may be rebuilt under a runner | violation: `BoundToBinary` |
| `exact_batch` | the batch runner as written | violation: nothing is ever published |
| `hybrid` | 2 workers per pool, 2 HIGH groups for the CPU and 1 for the GPU, 3 LOW groups, 2 rows, both LOW schedules, overlap or not, fairness | all seven properties of the pools |
| `groupbatch` | 5 x 5 grid, 2 windows of 2 batches per row, 3 rows, 2 GPUs, moduli 7 and 5, modes single, shard and reclaim, fairness | all seven properties of the group-batch solver |
| `hash` | 3 x 3 grid, 12 edges, 2 threads in flight, table from 4 slots, a hash with many collisions, fairness | all six properties of the hash solver |

Three faults are enough to interrupt a run, interrupt its recovery, and interrupt
the recovery of that; a fault leaves nothing behind but the store, and the
invariant proved in section 7 does not depend on the bound. `MaxFaults` is also
the only bound: windows, groups and slots are finite in the program itself.

Two windows and one modulus fit `fresh` because a fresh start forgets both; what
happens with a second modulus is the run `foreign`.

For `exact`, two primes distinguish a partial checkpoint from a complete one and
allow a mixture of residues; the code treats all primes alike. Two processes are
what the lock is there for. Four faults allow a rebuild, an interruption of the
run that follows, one of its repetition, and a power loss over what they left.

For `hybrid`, two rows let a worker be late for the next run of its pool, two
workers let one be late while the other is through, and three LOW jobs give one
worker more than the other. Two windows a row, four in all, and 16,538 states
include every order of the threads, with any number of spurious wake-ups.

For `groupbatch`, sizes are rounded up to 8 states and tiles have up to 2 columns
(64 and, unless set otherwise, 16 in the code), so that padding and tiles occur: the
large batch of each window takes 48 states as tiles and 56 as groups. The size of a
batch is given (`BatchesPerGpu` is 0); with one batch for each GPU asked for, a
window has three batches, which was checked once (247,470 states). 5 x 5 is the
least grid where both closures walk over matched pairs and every case of the
transition occurs; each window has one batch that is filled by many groups and one
with few. Two GPUs suffice for claim, theft and return of a batch, two moduli for
what is kept from residue to residue (the wrapping kernels are in use for one of
them only). The other modes take longer than a routine run and were checked with the
same properties: at this size dynamic with shard and reclaim (265,741 states),
affinity with shard and reclaim (124,518 states), and GRIDFP_GROUPBATCH_GRAPH 0 and
1 (365,572 states); on the 4 x 4 grid all six modes with graph modes 0 and 2
(503,398 states). The proofs of section 7 cover all of them at any size.

For `hash`, the grid gives up to 9 keys, tables of 4 to 64 slots and keys that
collide; two threads in flight give every race of two insertions, and a probe past
a slot that another is filling. Threads start in order and at most `Resident` run
at once, a bound named in the model.

Fairness (`FairSpec` of `MmapStore`): the scheduler runs each thread that can run (`WF` on
`MainStep` and on each `WorkerStep`), and the operator starts the solver again
when it is down (`WF` on `Launch`; the documentation says "use the same command
to resume"). Nothing is assumed of `Kill`, `WorkerFails`, `PowerLoss` and
`WriteBack`. In `ExactRun`, runners run (`WF` on each `RunnerStep`), and the
operator starts one, completes a rebuild (`b300x8-exact.sh` writes the sidecar
after the binary) and moves away a checkpoint of another binary, as the refusal
tells him to. That last one is strong fairness: each start that is refused takes
the lock for a moment, and an operator who finds it taken tries again.
In `HybridRows` and `GroupBatch` the operating system runs every thread that can
run (`WF` on the main thread and on each worker or GPU thread), and nothing is
assumed of spurious wake-ups. In `HashFrontier` the GPU runs every resident thread
(`WF` on each): the spin on a slot that another thread of the same warp is filling
relies on independent thread scheduling, which GPUs have had since Volta.

## 6. What the runs found

1. `GRIDFP_FRESH=1` removes the checkpoint, then the journals. Killed in between,
   it leaves journals without a checkpoint, and a later run under *another modulus*
   restores them, since a journal header names no modulus (`foreign`).
2. The error code of both removals is ignored (`errors`).
3. `undo/` is created without a sync of the directory that contains it
   (`posixdir`), and a restart trusts a checkpoint that is visible and not yet
   durable (`posixbit`). Both need a file system that does not commit metadata in
   order; on ext4 and xfs the proofs of section 7 apply.
4. Both runners hash the binary once and start it by its path afterwards, and
   `b300x8-exact.sh` rebuilds it before any lock is taken: a second invocation,
   which the lock would refuse, has by then replaced the binary of the first, and
   residues of the new one enter a checkpoint that names the old
   (`exact_rebuild`).
5. `solve_b300_exact_batch.py:106` calls `solver_fingerprint`, which is defined
   nowhere: the batch runner ends there on every start (`exact_batch`).

`ProgressKept` is stated for runs without `GRIDFP_FRESH`, whose purpose is to
discard progress.

## 7. Proofs

All theorems are checked by TLAPS for every value of the constants: any number of
GPUs, groups, windows, slots, pages, workers, jobs, batches, rows and columns, every
partition and schedule, every hash function and table size, every bound on faults.

| Theorem | Module | States |
|---|---|---|
| `WindowsAppliedOnce` | `WindowCommitProofs` | the promise is consistent |
| `TypeCorrect` | `MmapStoreProofs` | `TypeOK` and `ControlOK`, under any file system |
| `Inductive` | `MmapStoreProofs` | `IInv` |
| `KillSafe`, `PowerLossSafe`, `JournalFirst`, `AppliedExactlyOnce`, `PrintedResidueCorrect` | `MmapStoreProofs` | the state properties |
| `CheckpointAdvances` | `MmapStoreProofs` | `ProgressInv` |
| `UnlinkSafe`, `NothingLost`, `Implementation` | `MmapStoreProofs` | the action properties and the refinement |
| `RunnersTyped` | `ExactRunProofs` | `TypeOK` of the exact pipeline, under any use |
| `CheckpointsBound`, `AcceptedValueRight`, `SuccessDurable`, `NoResidueLost` | `ExactRunProofs` | its state properties, unless the binary is rebuilt under a runner |
| `StandingResultKept` | `ExactRunProofs` | `ResultKept` |
| `PoolsKeepGenerations` | `WorkerPoolProofs` | `GenerationsInOrder` |
| `HighPoolForkJoin`, `LowPoolForkJoin` | `WorkerPoolProofs` | both refinements of `ForkJoin` |
| `HybridTypes`, `WindowsInStep`, `ResidueComplete` | `WorkerPoolProofs` | `HybridTypeOK`, `InStep`, `AnswerRight` |
| `NoRunRefused` | `WorkerPoolProofs` | `exit(133)` is never reached |
| `SchedulerTypes`, `SlotsAlwaysRight` | `GroupBatchProofs` | `TypeOK` and `SlotsRight` of the group-batch solver |
| `GraphsAlwaysCurrent`, `OneHolderAlways`, `GroupsAlwaysClosed`, `ResiduesRight` | `GroupBatchProofs` | its other state properties |
| `ResiduesArePaths` | `GroupBatchProofs` | what it prints is the number of paths, modulo each modulus |
| `SchedulerRight` | `GroupBatchProofs` | the scheduler alone: right if its kernels are |
| `SolverCorrect` | `GroupBatchProofs` | the kernels of Grid-FP are, on every grid and plan |
| `NothingUnexecuted` | `GroupBatchProofs` | the throw after the join is never reached |
| `RankInjective`, `RankOnto` | `GridFPProofs` | words and slots of the vector correspond one to one |
| `IncludedOnce` | `GridFPProofs` | the closure always finds a partner: only a cycle is dropped |
| `GroupsPartition`, `GroupsAreClosed` | `GridFPProofs` | each slot is in one group of a window, and no edge leaves a group |
| `WindowLocal` | `GridFPProofs` | a batch alone is transformed as in the whole vector |
| `ReachedPaths` | `GridFPProofs` | the choices of edges that the words let through are the paths |
| `RowVec`, `FirstVec`, `LastSum` | `GridFPProofs` | the vector counts those choices: after the first row, from window to window, and in the final sum |
| `PackedOnce`, `BatchesPartition` | `GroupBatchProofs` | each group is in one batch, no batch is above the target, the batches of a window cut up the vector |
| `LayoutFits` | `GroupBatchProofs` | the tiles of a batch need no more room than its groups |
| `AffinityFair` | `GroupBatchProofs` | the loads of two GPUs differ by the work of one batch at most |
| `ScheduleFits`, `ScheduleLocal` | `GroupBatchProofs` | the plan has all that the scheduler assumes of it, and each batch can be worked on alone |
| `TotalIsPaths` | `FrontierProofs` | the sequential frontier program counts the paths of every grid |
| `PathCountRight` | `FrontierProofs` | so does the count that the runs compare with |
| `Invariant`, `TypeCorrect` | `HashFrontierProofs` | `IInv` and `TypeOK` of the hash solver |
| `SumsCorrect`, `WriterUnique`, `HalfStaysEmpty`, `AnswerCorrect` | `HashFrontierProofs` | its other state properties |
| `NeverFull` | `HashFrontierProofs` | the exit for a full table is never taken |

Assumptions of the mmap backend. The theorems other than `TypeCorrect` assume `SafeUse`: metadata is
`Ordered`, removals do not fail, and a store that `GRIDFP_FRESH` may discard is
used with one modulus. The four findings are the reason: each run of section 6
drops one of the three and the property fails. `NothingLost` also assumes no
`GRIDFP_FRESH`.

Assumptions of the exact pipeline. `RebuildWhileRunning` is false in all but
`RunnersTyped`; `exact_rebuild` is what happens otherwise. `StandingResultKept`
also assumes that a build of one binary always writes the same sidecar
(`SafeUse` of `ExactRunProofs`). The sidecar records the Git commit, so the same
binary built at another commit has another one; run again over a finished result
and stopped between the copy of the provenance and the manifest, it leaves a
manifest that names the old copy, which the verifier rejects until a later run
has finished.

Assumptions of the pools: `PoolAssumption` and `HybridAssumption`, that a schedule
gives out each job of its list once (what `prepare_schedule` and
`prepare_static_schedule` build) and that the groups of a window partition the
vector.

Assumptions of the group-batch solver. `BatchAssumption` says that the batches of a
window partition the vector and that its two orders name each of them, and
`SolverAssumption` is what main makes of its arguments: two windows a row, all rows
but the first and the last, the plan of `BatchPlan`, moduli from 2 up (line 2098),
and for the constants that `GroupBatch` leaves open (`FirstRow`, `Kernel`, `Final`,
`Ideal`, `Answer`) the operators of `GridFP` and `GridPaths` that they stand for. It
says nothing of what these compute. TLC evaluates both on the run, and `ScheduleFits`
shows that the plan has all that `BatchAssumption` asks. Its one condition, `Fits`,
is that no group is larger than the target, which main checks before it packs
(line 2197). `SchedulerRight` has the hypothesis `Correct`: the kernels of a batch
turn its slots of the ideal vector into its slots of the next one, and the last
vector gives the answer. `SolverCorrect` is that hypothesis, so the other theorems
have none.

The theorems about the plan assume `PlanAssumption`, what the code asks of its
parameters: a row is cut into two windows that are not empty, the columns of a tile
are a power of two up to 32. Equal work, which `std::sort` may leave in either order,
is ordered by number in `StealOrder`; the proofs use no more of it than that each
batch has one place. The theorems about the arithmetic assume `GridAssumption` alone,
a grid with two columns at least, which has an edge, and no more columns than the
`MAXW` the tables are made for (28 in the code). `H_DP` is as wide as in the code and its last column is never filled
in, so the theorems also show that the tables are wide enough at `W = MAXW`, which is
the grid the solver is built for; the run has `W = MAXW = 5`.

Assumptions of the hash solver: `WAssumption` (a grid with two columns at least, so
that it has an edge and its two corners differ), `HashAssumption` (a modulus
above 1, a table size and a number of resident threads above 0, and a hash that is a
number for each key that occurs: nothing else is asked of the hash). What the residue is compared with is no
assumption: `PathCount` of `GridPaths` is the number of `CornerPaths`
(`PathCountRight`), and the program finds that number on every grid (`TotalIsPaths`).

Argument for the mmap backend. `KillRecoverable` and `PowerLossRecoverable` are not inductive: nothing
in them says what a worker's buffer holds, nor that a journal about to be
written is right. `IInv` adds to them
* for each worker (`WorkerOK`): the group it holds, what its buffer contains at
  each point, which slots it has still to copy;
* for claims (`Claims`, `ClaimOK`): no two workers hold one group and no held
  group is in the queue or done, so that every dirty slot has one owner;
* for recovery (`Recovery`): the journal of the group in hand is still there until
  the group is restored and synced;
* for the durable side (`SoundOnDisk`, `DurableLag`, `TruncationOK`): each slot on
  disk is the input or the output of its group, and when it may still be old the
  durable journal is there; the durable checkpoint is the visible one or one save
  behind it;
* for journals (`Genuine`, `JournalsGenuine`): one found under the checkpoint's
  window holds that window's input under its modulus - the part that `foreign`
  breaks without `SafeUse`.

The middle part of `MmapStoreProofs` proves, once, what `Persist`, each synchronising call, a
write-back and a power loss do to the durable half; the step proofs after it
cite these, one step per action. The refinement needs
`ProgressInv` as well: which group commits when the durable checkpoint moves. A
step of the implementation commits all done bits that become durable at once,
since one ordered commit may carry several; that is why the abstract `Commit`
takes a set.

Argument for the exact pipeline. `IInv` says that whoever is past the start holds
the lock (`Mutex`), has the residues of the visible checkpoint in its dictionary and
runs the binary it hashed (`RunnerOK`), and which of the bundle's files it has
written and synced at each point (`BundleOK`). One runner moves at a time, so each
step is looked at for that runner only (`OneMoves`). `PublishedIsDurable` follows
from the last line of `BundleOK`. `AcceptedIsRight` follows from `BoundToBinary`
alone, without any order of the writes: the verifier compares contents. The order
matters for `ResultKept`, which is proved from `IInv` step by step: a complete
checkpoint leaves nothing to save (`NothingToSave`), so the only writes are a
provenance, a manifest and a marker equal to, or acceptable with, those there.

Argument for the pools. `PoolInv` says for each pool that `pending` counts exactly
the workers that are still in the loop or have not seen the generation (`Busy`),
and that the run is in flight as long as there are any (`Counted`); where the
main thread can be while a pool is being started or stopped (`Phase`); and that
what the queues have given out is done or at work, with one worker, while a
worker that is through leaves its queue empty (`Scheduled`). So when the last
worker is through every queue is, and with a schedule that gives out each job
once everything is done (`AllDone`). `GenerationsInOrder` and both refinements
follow, for any client. For the hybrid solver `LoopInv` adds which pool can be in
flight at which point of the row loop (`LoopPhase`), and that the level of a cell
is twice the row, plus one for each window that has had its group (`Levels`).

Argument for the group-batch solver. `SlotsRight` alone does not say that a thread
holds a batch nobody else holds. `IInv` adds that a claimed batch is executed or
in the hands of one thread (`Claims`), that what a thread has passed in its list
is claimed, so that nothing is left over when all have joined (`Turns`), that the
arena reserved for a residue is large enough for every batch its GPU may get, so
no graph is ever left behind by a larger one (`Memory`), and who may keep
something of a batch (`Keepers`).

Argument for the arithmetic of Grid-FP. Everything rests on heights. `HeightFrom`
and `HeightStep` say how the height at one position follows from that at another and
the balance of the letters between. A word that is changed between two positions is
a word again when the changed part is as high as before and never below zero
(`Replace`). For a pair of R, or of L, the changed part reaches to the partner, the
first position where the balance runs out. Until there it does not, so what lies
between keeps its height (`MatchLeft`, `MatchRight`); and it has to run out, since
the height is zero below all positions and one above (`PartnerLeft`,
`PartnerRight`). Taking out or putting in an empty position changes no height
(`Shrunk`). For ranks, the part of the rank that the positions below `q` make up is
below `H_DP[q]` at the height of `q`, and each letter at `q` has an interval of its
own there (`RankPart`), where no height of a word is above `MAXW` (`WordType`); from
the top, the interval that a number falls into gives the letter (`Complete`). An
edge touches two positions and a partner that stays occupied, so it changes no
occupancy that a group fixes (`EdgeInGroup`), and with it no window does
(`FlowInGroup`).

Argument for the program on words. The vector is the number of ways to have chosen
edges so far, by word, so the proof says first what the ways are and then that the
vector counts them.

* A choice (`Chosen`) is a set of edges, the word for it and whether the word is
  blocked. `Reached[x]` are the choices there can be when it is vertex `x`'s turn,
  from the single one at the first vertex on: the edge to the right may be included
  unless the word is blocked, and the edge below is chosen when a path end is left
  at `x`'s position (`After`).
* A word is what the later edges depend on (`ChoiceRight`). The front is the next `W`
  vertices, each at the position of its column. The letters other than N are the path
  ends on it, and a matched L and R are the two ends of one component, where an L
  above all positions stands for the corner: `Linked`, over the matched pairs of a
  word (`Pairs`), which are found by heights. Including an edge keeps this,
  case by case of `include_horizontal` (`IncludeLinked`): two components are joined at
  the far ends that the closures find, and an edge between the two ends of one is
  refused, since it would close a cycle.
* So a choice that comes to the last vertex has degree two or none at every vertex but
  the corners, and no component but the one of the corners (`TargetShape`): it is the
  edge set of a path, as in the proof of the frontier program. The other way round,
  a path is never refused (`ShapeReached`), and a choice is reached in one way only
  (`ChoiceOnce`). Hence `ReachedPaths`.
* `Vec(mod, x)` is the number of choices in `Reached[x]` for each slot. An edge of the
  row takes it from `x` to `x + 1` (`VecEdge`): choices move along exactly the sources
  of a slot (`EdgeFrom`, `MoveCells`). What a window does is the flow through all its
  edges at once, with the multiplicities of the ways, which is the same as one edge
  after the other (`WindowOfEdges`). This gives `RowVec` for one window, and for the
  two windows of a row one after the other.
* The first row is not computed edge by edge but written down, as the words of
  `FirstRowWord`. They are the words whose height is never above one (`Alt`,
  `FirstRowCellsAre`), and the choices after the first row are one for each of them
  (`FirstRowReached`). The last row is not computed either: along it the number of
  choices with such a word stays the same, and at its end all that are left have one
  (`AltStep`, `AltTotal`), so the sum over the words of the first row is the number of
  paths (`LastSum`).

With `WindowLocal` a window of the whole vector is its batches one by one
(`KernelsCorrect`), by induction over the rows the ideal vector is `Vec` (`IdealVec`), and
`LastSum` is the answer (`AnswersCorrect`).

Argument for the plan. Sorting is counting: in a strict order of a finite set the
number of elements before an element is a bijection onto the places (`Sorts`), and
`WorkOrder` is such an order because no two groups have the same mask (`MaskOrder`).
Packing is followed group by group with `Packing`: the groups taken so far, as far
as they have words, each in one place, and no batch above the target (`PackStep`).
The tuned target is never below the largest group nor above the one main has checked
(`TargetFits`), so a group always fits in an empty batch. A tile pads once where its groups
pad each for itself (`AlignedMany`), so from the last tile back to the first the
layout is never above what is left of the groups (`LayoutFits`). For the affinity,
`Shared` says that loads are sums of work and that no GPU is ahead of another by more
than a batch; a batch goes to the GPU that is behind all others (`GiveStep`).

Argument for the frontier program. A key is what the later edges depend on, which is
made precise by `View(S, K, A)`: the key of a set `S` of chosen edges, with
components `K`, over the frontier `A`. `TakeEdge`, `SkipEdge` and `Forget` keep it so
(`TakeView`, `SkipView`, `ForgetView`), so a key counts the choices of edges that no
step has refused, each once (`CountsWays`). A choice that comes through with the
whole path done is the edge set of one path: the longest trail along it from the
first corner can only end in the other one, no chosen edge leaves it, and what is
not on it would be a component without both corners (`WholeIsPath`). No step
refuses the edges of a path (`PathIsWhole`): a vertex that leaves the frontier has
all its edges behind it, hence the degree the path gives it; a component leaves only
with the last edge of the path; and no edge joins what is joined. Different paths
have different edges. `PathCountRight` splits the ways on from a vertex by their
next one.

Argument for the hash solver. `SumsRight` is about ready slots only and `OneWriter`
about owned ones; neither says that a key is found again once it is in the table,
nor that the table has room. `IInv` has three parts.
* `KeysRight`, between edges: the list of keys is, without repetition, all keys that
  can occur, each with its ways in the sequential program modulo `Mod`.
* `StageRight`: how far the host program is, and that it has not given up.
* `ExpandRight`, while the threads of an edge race: who writes which slot
  (`WritersRight`), what a reader knows of the slot it looks at (`ReadersRight`),
  that a thread has passed only ready slots of other keys (`ProbesRight`) and that
  the probes for a key that is held meet no empty slot before it (`PathsRight`). From
  the last two a thread that claims an empty slot holds a key that is nowhere else
  (`KeysDistinct`), which makes the value of a slot the sum of what has arrived
  (`SumsHeld`), and the list of occupied slots the keys of the next edge
  (`ListRight`).

`HalfEmpty` does not have to be carried along: a slot that is not empty
belongs to one insertion, that of its writer or of the thread that was there first,
so the slots in use are at most the insertions (two per key), and the table has
four slots per key (`HalfRight`). The probes of one key reach every slot of the table,
so a thread that had passed `cap` of them would have found all slots taken; hence
the silent drop at the end of `hash_insert` and the exit for a full table are
unreachable. When all threads are done, every insertion has arrived, and the sums of
the slots are the sums of `NextCounts`, edge by edge (`TotalRight`, `GatherKeeps`).

`FrontierProofs` begins with what the proofs about both dynamic programs and the plan
use: sums over finite index sets (one index split off, a bijection of indices,
residues of sums), sizes of finite sets, folds, sequences, steps in a row
(`IterExists`) and sorting. Its second part is the data of the frontier program: that
`Edges` is a list of pairs of vertices, and that `Reachable` and `Counts` are defined
by their recursion and have finite, well-typed values. These, and `H_DP`, `Flow`,
`Reached` and the heights of Grid-FP, are inductions over natural numbers and finite
sets. The induction theorems of the library take a predicate as a parameter, which
the installed provers cannot instantiate; here each induction is done by a least
counterexample, a least number or a smallest finite set, and a recursive function by
its definition as the choice of a function that satisfies its equation.

Each conjunct of `IInv` was checked by TLC on the instance of `hash` before it was
proved; it is too slow to be checked on every run.

Model-checked only: liveness (`EventuallyPrinted`, `EventuallyPublished`,
`Terminates`, `Finishes`: out of the prover's reach) and everything about unordered
metadata, where the properties fail. Every invariant and every action property of a
passing run has a theorem.

## 8. Not modelled

* `GRIDFP_RESUME=0`: no journal and no checkpoint, hence no promise across runs.
* A second process on the same store: `flock` refuses it before it touches anything.
* Bit rot: checksums, malformed and truncated files are refusals that change
  nothing. `.tmp` files: nothing reads them.
* The first allocation failing (both files are unlinked, exit 2) - an exit like `Kill`
  from a store without checkpoint.
* On unordered metadata, the truncation of `blocked.bin` that no call syncs before
  the first checkpoint (lines 717-721): covered by the assumption `Ordered`.
* In the exact pipeline: the admission certificate of `--admission-certificate`
  (copied and hashed like the provenance), walls and logs (compared by the
  verifier, functions of the checkpoint), strict JSON and solver lines (refusals
  that change nothing, `StartRefused` and `SolverFails`), the bound and the
  primes (the prefix has the length the bound calls for), `git_commit` of the
  checkpoint, which nothing compares, and the entry of the work directory in its
  parent, which nothing syncs. `scripts/solve/verify_b300_exact_result.py` and its
  test read fields the present checkpoint does not have, and the older
  `solve_*.py` have no checkpoint.
* In the pools: the scratch HIGH pool (`CPU_HIGH_MODE=scratch`, the same protocol with
  a buffer per worker) and `std::thread` in place of a pool. `stopping` is never
  reset, so a pool started again after `shutdown` would wait for ever; no client
  does that, and `StartRun` is not enabled for such a pool.
* In the group-batch solver: tuned starts from row 2 to 6
  (`GRIDFP_BOUNDED_PREFIX_K` above 1), tile lanes inside one GPU, timing output. Capture
  and launch of a graph are one step. In a sharded run the code assigns groups and
  batches each shard on its own; the model gives batches to their owners. Equal keys
  of `std::sort` are ordered by index.
* In the hash solver: memory is sequentially consistent (the code orders the state
  of a slot with acquire and release); the exit for a full table and the silent
  drop are in the model and unreachable, which is what `HalfEmpty` says.
* The reverse transition (`gridfp_reverse.hpp`), the factorised lookup tables, and
  `oneesan_cpu.cpp`: the first two are functions with tests against the forward
  transition, the last is the sequential program once more with other keys.
* Shard addresses, invariant division, the ternary rank index, the snake schedule, the
  remainder theorem and the path bound: pure functions with tests of their own. Their
  products of 64-bit words are beyond the model checker's integers, and at a smaller
  width the constants they are built from (64-bit reciprocals) are different ones.
* The components of section 1 that are not modelled at all: the
  kernel variants (device code with the same control), the autotuner and shell
  runners (no state that outlives a run), ZDD tools and probes (offline), the Lean
  development (mathematics; its `MmapResume.lean` takes for granted that a group's
  phases become durable in order, which is what `Implementation` proves of the code),
  visualization, and vendored code.
