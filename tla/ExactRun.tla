------------------------------- MODULE ExactRun -------------------------------
(***************************************************************************)
(* The exact-count runners, solve_b300_exact.py ("single": one solver      *)
(* process per prime) and solve_b300_exact_batch.py ("batch": one solver   *)
(* for all missing primes), over exact_safety.py and the files of          *)
(* ResultFiles. Both use one work directory and its lock.                  *)
(*                                                                         *)
(* Around them: the operator, who starts runners, rebuilds the binary and  *)
(* removes a checkpoint that belongs to another one; kills; power losses.  *)
(***************************************************************************)
EXTENDS ResultFiles

CONSTANTS
    Procs,               \* runner processes
    Runners,             \* the runners the operator uses
    MaxRuns,             \* bound on --max-runs
    FingerprintDefined,  \* solver_fingerprint, which the batch runner calls, exists
    RebuildWhileRunning, \* the binary may be rebuilt while a runner uses it
    MaxFaults            \* bound on kills, power losses, failures and rebuilds

ASSUME RunAssumption ==
    /\ None \notin Procs
    /\ Runners \subseteq {"single", "batch"}
    /\ MaxRuns \in Nat /\ MaxFaults \in Nat
    /\ FingerprintDefined \in BOOLEAN /\ RebuildWhileRunning \in BOOLEAN

VARIABLES
    bin,        \* the binary at the path of --binary
    side,       \* its sidecar
    lock,       \* the process that holds .solve.lock
    run,        \* the local state of each process
    announced,  \* the primes in a checkpoint that save_checkpoint returned from
    faults      \* kills, power losses, failures and rebuilds so far

vars == <<files, bin, side, lock, run, announced, faults>>

PCs == {"down", "start", "work", "saved", "provenance", "manifest", "manifested",
        "mark", "marked", "published"}

(***************************************************************************)
(* Local state of a runner: ident is the binary solver_identity hashed,    *)
(* child the one its batch solver runs, res the dictionary residues, todo  *)
(* the primes it is still to compute, sidecar the provenance copied.       *)
(***************************************************************************)
Locals == [pc : PCs, kind : {"single", "batch"}, limit : 0 .. MaxRuns,
           ident : Binaries \cup {None}, child : Binaries \cup {None},
           res : Residues, todo : SUBSET Prefix, sidecar : Sidecars \cup {None}]

Down == [pc |-> "down", kind |-> "single", limit |-> 0, ident |-> None, child |-> None,
         res |-> NoResidues, todo |-> {}, sidecar |-> None]

TypeOK ==
    /\ FilesTypeOK
    /\ bin \in Binaries /\ side \in Sidecars \cup {None}
    /\ lock \in Procs \cup {None}
    /\ run \in [Procs -> Locals]
    /\ \A p \in Procs : run[p].pc \notin {"down", "start"} => run[p].ident # None
    /\ announced \subseteq Prefix
    /\ faults \in 0 .. MaxFaults

\* load_provenance: a sidecar, if there is one, must name the binary.
SidecarFits == side # None => SidecarOf[side] = bin

Init ==
    /\ FilesInit
    /\ bin \in Binaries /\ side \in Sidecars \cup {None} /\ SidecarFits
    /\ lock = None
    /\ run = [p \in Procs |-> Down]
    /\ announced = {} /\ faults = 0

Goto(p, label) == run' = [run EXCEPT ![p].pc = label]

\* Mutant of Exit: a lock that is not given up with the process.
ExitLocked(p) == run' = [run EXCEPT ![p] = Down] /\ UNCHANGED lock

\* The process ends, whatever its status, and its lock goes with it.
Exit(p) ==
    /\ run' = [run EXCEPT ![p] = Down]
    /\ lock' = IF lock = p THEN None ELSE lock

environment == <<bin, side>>
history == <<announced, faults>>

-----------------------------------------------------------------------------
\* Mutant of Launch: no lock on the work directory.
LaunchUnlocked(p, k, lim) ==
    /\ run[p].pc = "down" /\ (k = "batch" => FingerprintDefined)
    /\ lock' = p
    /\ run' = [run EXCEPT ![p].pc = "start", ![p].kind = k, ![p].limit = lim]
    /\ UNCHANGED <<files, environment, history>>

(***************************************************************************)
(* Start. The batch runner calls solver_fingerprint before anything else;  *)
(* without that name it dies here. A second process finds the lock taken   *)
(* and exits.                                                              *)
(***************************************************************************)
Launch(p, k, lim) ==
    /\ run[p].pc = "down"
    /\ IF lock = None /\ (k = "batch" => FingerprintDefined)
       THEN /\ lock' = p
            /\ run' = [run EXCEPT ![p].pc = "start", ![p].kind = k, ![p].limit = lim]
       ELSE UNCHANGED <<lock, run>>
    /\ UNCHANGED <<files, environment, history>>

\* Mutant of SavedResidues: the saved residues are not taken over.
SavedIgnored == NoResidues

SavedResidues == IF seen.ckpt = None THEN NoResidues ELSE seen.ckpt.res

\* Mutant of CheckpointFits: the binary is not compared.
AnyCheckpointFits == TRUE

\* load_checkpoint refuses a checkpoint of another binary.
CheckpointFits == seen.ckpt # None => seen.ckpt.sha = bin

\* solver_identity and load_checkpoint; both runners fix here what to compute.
Start(p) ==
    /\ run[p].pc = "start"
    /\ SidecarFits /\ CheckpointFits
    /\ run' = [run EXCEPT ![p].pc = "work", ![p].ident = bin, ![p].res = SavedResidues,
                          ![p].todo = FirstMissing(SavedResidues, run[p].limit)]
    /\ UNCHANGED <<files, environment, lock, history>>

StartRefused(p) ==
    /\ run[p].pc = "start"
    /\ ~(SidecarFits /\ CheckpointFits)
    /\ Exit(p)
    /\ UNCHANGED <<files, environment, history>>

-----------------------------------------------------------------------------
(***************************************************************************)
(* A residue comes from the binary that is at the path when the solver is  *)
(* started: for each prime (single), or once (batch). The record is added  *)
(* and the whole checkpoint is written. The single runner takes the primes *)
(* in order, the batch runner as the solver prints them.                   *)
(***************************************************************************)
Spawn(p) ==
    /\ run[p].pc = "work" /\ run[p].kind = "batch"
    /\ run[p].todo # {} /\ run[p].child = None
    /\ run' = [run EXCEPT ![p].child = bin]
    /\ UNCHANGED <<files, environment, lock, history>>

Save(p, q, by) ==
    LET residues == [run[p].res EXCEPT ![q] = by]
    IN  /\ q \in run[p].todo
        /\ run' = [run EXCEPT ![p].pc = "saved", ![p].res = residues,
                              ![p].todo = run[p].todo \ {q}]
        /\ Replace("ckpt", [sha |-> run[p].ident, res |-> residues])
        /\ UNCHANGED <<environment, lock, history>>

SolveOne(p) ==
    /\ run[p].pc = "work" /\ run[p].kind = "single"
    /\ \E q \in run[p].todo : (\A r \in run[p].todo : q <= r) /\ Save(p, q, bin)

ReadLine(p) ==
    /\ run[p].pc = "work" /\ run[p].kind = "batch" /\ run[p].child # None
    /\ \E q \in run[p].todo : Save(p, q, run[p].child)

SaveSync(p) ==
    /\ run[p].pc = "saved"
    /\ SyncDirectory
    /\ announced' = announced \cup Have(run[p].res)
    /\ Goto(p, "work")
    /\ UNCHANGED <<environment, lock, faults>>

\* A status that is not 0, a line that is wrong, missing, repeated or out of range.
SolverFails(p) ==
    /\ run[p].pc = "work" /\ run[p].todo # {}
    /\ run[p].kind = "batch" => run[p].child # None
    /\ faults < MaxFaults /\ faults' = faults + 1
    /\ Exit(p)
    /\ UNCHANGED <<files, environment, announced>>

-----------------------------------------------------------------------------
(***************************************************************************)
(* The end of the loop: not enough primes yet, or a reconstruction. One of *)
(* wrong residues may exceed the bound and be refused, or may not; a       *)
(* sidecar that names another binary is refused before anything is written.*)
(***************************************************************************)
Ready(p) == run[p].pc = "work" /\ run[p].todo = {}

StopPartial(p) ==
    /\ Ready(p) /\ ~Complete(run[p].res)
    /\ Exit(p)
    /\ UNCHANGED <<files, environment, history>>

ResultRefused(p) ==
    /\ Ready(p) /\ Complete(run[p].res)
    /\ ~(ExactOf(run[p].res) = Count /\ SidecarFits)
    /\ Exit(p)
    /\ UNCHANGED <<files, environment, history>>

(***************************************************************************)
(* write_exact_result: the provenance, the manifest, exact.txt, each       *)
(* written durably before the next.                                        *)
(***************************************************************************)
CopyProvenance(p) ==
    /\ Ready(p) /\ Complete(run[p].res)
    /\ side # None /\ SidecarFits
    /\ Replace("prov", side)
    /\ run' = [run EXCEPT ![p].pc = "provenance", ![p].sidecar = side]
    /\ UNCHANGED <<environment, lock, history>>

ProvenanceSync(p) ==
    /\ run[p].pc = "provenance"
    /\ SyncDirectory
    /\ Goto(p, "manifest")
    /\ UNCHANGED <<environment, lock, history>>

NoProvenance(p) ==
    /\ Ready(p) /\ Complete(run[p].res)
    /\ side = None
    /\ Goto(p, "manifest")
    /\ UNCHANGED <<files, environment, lock, history>>

WriteManifest(p) ==
    /\ run[p].pc = "manifest"
    /\ Replace("manifest",
               [sha |-> run[p].ident, res |-> run[p].res, ckpt |-> seen.ckpt,
                prov |-> run[p].sidecar, exact |-> ExactOf(run[p].res)])
    /\ Goto(p, "manifested")
    /\ UNCHANGED <<environment, lock, history>>

ManifestSync(p) ==
    /\ run[p].pc = "manifested"
    /\ SyncDirectory
    /\ Goto(p, "mark")
    /\ UNCHANGED <<environment, lock, history>>

WriteExact(p) ==
    /\ run[p].pc = "mark"
    /\ Replace("exact", ExactOf(run[p].res))
    /\ Goto(p, "marked")
    /\ UNCHANGED <<environment, lock, history>>

\* Mutant of ExactSync: the directory is not synced.
ExactUnsynced(p) ==
    /\ run[p].pc = "marked"
    /\ Goto(p, "published")
    /\ UNCHANGED <<files, environment, lock, history>>

ExactSync(p) ==
    /\ run[p].pc = "marked"
    /\ SyncDirectory
    /\ Goto(p, "published")
    /\ UNCHANGED <<environment, lock, history>>

\* The result is printed and the process ends with status 0.
Report(p) ==
    /\ run[p].pc = "published"
    /\ Exit(p)
    /\ UNCHANGED <<files, environment, history>>

-----------------------------------------------------------------------------
(***************************************************************************)
(* The operator. A rebuild replaces the binary first and its sidecar       *)
(* afterwards. A checkpoint of another binary is moved away, as the        *)
(* message of load_checkpoint asks, when no runner is active.              *)
(***************************************************************************)
Rebuild(b) ==
    /\ b # bin
    /\ RebuildWhileRunning \/ lock = None
    /\ faults < MaxFaults /\ faults' = faults + 1
    /\ bin' = b
    /\ UNCHANGED <<files, side, lock, run, announced>>

RebuildSidecar(s) ==
    /\ ~SidecarFits /\ SidecarOf[s] = bin
    /\ side' = s
    /\ UNCHANGED <<files, bin, lock, run, history>>

RemoveCheckpoint ==
    /\ lock = None
    /\ ~CheckpointFits
    /\ Replace("ckpt", None)
    /\ announced' = {}
    /\ UNCHANGED <<environment, lock, run, faults>>

Kill(p) ==
    /\ run[p].pc # "down"
    /\ faults < MaxFaults /\ faults' = faults + 1
    /\ Exit(p)
    /\ UNCHANGED <<files, environment, announced>>

PowerLoss ==
    /\ faults < MaxFaults /\ faults' = faults + 1
    /\ LoseUnsynced
    /\ run' = [p \in Procs |-> Down] /\ lock' = None
    /\ UNCHANGED <<environment, announced>>

Flush(file) == WriteBack(file) /\ UNCHANGED <<environment, lock, run, history>>

-----------------------------------------------------------------------------
LaunchSome == \E p \in Procs, k \in Runners, lim \in 0 .. MaxRuns : Launch(p, k, lim)

\* What a runner does on its own.
RunnerStep(p) ==
    \/ Start(p) \/ StartRefused(p)
    \/ Spawn(p) \/ SolveOne(p) \/ ReadLine(p) \/ SaveSync(p)
    \/ StopPartial(p) \/ ResultRefused(p)
    \/ CopyProvenance(p) \/ ProvenanceSync(p) \/ NoProvenance(p)
    \/ WriteManifest(p) \/ ManifestSync(p) \/ WriteExact(p) \/ ExactSync(p) \/ Report(p)

Operator ==
    \/ \E b \in Binaries : Rebuild(b)
    \/ \E s \in Sidecars : RebuildSidecar(s)
    \/ RemoveCheckpoint

Faults ==
    \/ \E p \in Procs : SolverFails(p) \/ Kill(p)
    \/ PowerLoss
    \/ \E file \in FileNames : Flush(file)

Next ==
    \/ LaunchSome
    \/ \E p \in Procs : RunnerStep(p)
    \/ Operator
    \/ Faults

Spec == Init /\ [][Next]_vars

(***************************************************************************)
(* Runners run. The operator starts one when none runs ("resumed with the  *)
(* same command"), finishes a rebuild, and removes a foreign checkpoint    *)
(* even if every attempt of his to do so is at first crossed by a start.   *)
(***************************************************************************)
FairSpec ==
    /\ Spec
    /\ WF_vars(LaunchSome)
    /\ \A p \in Procs : WF_vars(RunnerStep(p))
    /\ WF_vars(\E s \in Sidecars : RebuildSidecar(s))
    /\ SF_vars(RemoveCheckpoint)

-----------------------------------------------------------------------------
(***************************************************************************)
(* The residues of a checkpoint were computed by the binary it names       *)
(* (README.md: "can be resumed with the same command only with the same    *)
(* solver binary"; docs/b300-bucket-snake.md: "binds checkpoints to the    *)
(* solver binary SHA-256").                                                *)
(***************************************************************************)
BoundToBinary ==
    \A d \in {seen, durable} :
        d.ckpt # None => \A q \in Prefix : d.ckpt.res[q] \in {d.ckpt.sha, None}

(***************************************************************************)
(* What the verifier accepts, now or after a power loss, whatever mix of   *)
(* old and new files is left, is the count, if the binary named is a good  *)
(* one (verify() of verify_exact_result.py).                               *)
(***************************************************************************)
AcceptedIsRight ==
    \A d \in Survivors : Accepts(d) /\ d.manifest.sha \in Good => d.exact = Count

(***************************************************************************)
(* A runner that is about to report success leaves a result the verifier   *)
(* accepts, and would accept after a power loss (write_exact_result).      *)
(***************************************************************************)
Standing == \A d \in Survivors : Accepts(d)

PublishedIsDurable == \A p \in Procs : run[p].pc = "published" => Standing

(***************************************************************************)
(* A residue that save_checkpoint returned from is on disk and stays there *)
(* until the operator removes the checkpoint (README.md: "uses fsync +     *)
(* atomic rename before a residue is considered durable").                 *)
(***************************************************************************)
AnnouncedKept ==
    announced # {} =>
        \A d \in {seen, durable} : d.ckpt # None /\ announced \subseteq Have(d.ckpt.res)

(***************************************************************************)
(* A result that stands goes on standing: through repeated runs of either  *)
(* runner, interrupted anywhere, with any binary; only the removal of the  *)
(* checkpoint by the operator ends it.                                     *)
(***************************************************************************)
ResultKept == [][Standing => Standing' \/ RemoveCheckpoint]_vars

(***************************************************************************)
(* Started again after every fault, with a good binary in the end, the     *)
(* runners arrive at a result that stands for good.                        *)
(***************************************************************************)
EventuallyPublished == <>[](bin \in Good) => <>[]Standing
=============================================================================
