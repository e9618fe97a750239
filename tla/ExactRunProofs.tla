---------------------------- MODULE ExactRunProofs ----------------------------
(***************************************************************************)
(* Proofs about the exact-count runners, for any prefix of primes, any     *)
(* binaries, any number of processes and any bound on faults.              *)
(***************************************************************************)
EXTENDS ExactRunInv, TLAPS

(***************************************************************************)
(* The binary is not rebuilt under a running runner, and a build of one    *)
(* binary writes one sidecar.                                              *)
(***************************************************************************)
SafeUse ==
    /\ ~RebuildWhileRunning
    /\ \A s, t \in Sidecars : SidecarOf[s] = SidecarOf[t] => s = t

-----------------------------------------------------------------------------
LEMMA FilesReplaced ==
    ASSUME FilesTypeOK
    PROVE  /\ \A c \in Checkpoints \cup {None} : Replace("ckpt", c) => FilesTypeOK'
           /\ \A s \in Sidecars \cup {None} : Replace("prov", s) => FilesTypeOK'
           /\ \A m \in Manifests \cup {None} : Replace("manifest", m) => FilesTypeOK'
           /\ \A x \in Exacts \cup {None} : Replace("exact", x) => FilesTypeOK'
  BY DEF FilesTypeOK, Replace, Directories

LEMMA FilesSynced ==
    ASSUME FilesTypeOK
    PROVE  /\ SyncDirectory => FilesTypeOK'
           /\ LoseUnsynced => FilesTypeOK'
           /\ \A file \in FileNames : WriteBack(file) => FilesTypeOK'
  BY DEF FilesTypeOK, SyncDirectory, LoseUnsynced, WriteBack, Directories, FileNames


LEMMA DownTyped == Down \in Locals /\ NoResidues \in Residues
  BY FilesAssumption, RunAssumption
  DEF Down, Locals, PCs, NoResidues, Residues

LEMMA InitTyped == Init => TypeOK
<1> SUFFICES ASSUME Init PROVE TypeOK
  OBVIOUS
<1>1. FilesTypeOK
  BY DEF Init, FilesInit, FilesTypeOK, EmptyDirectory, Directories
<1>2. run \in [Procs -> Locals] /\ \A p \in Procs : run[p].pc = "down"
  BY DownTyped DEF Init, Down
<1>3. faults \in 0 .. MaxFaults
  BY RunAssumption DEF Init
<1>4. QED
  BY <1>1, <1>2, <1>3 DEF Init, TypeOK

\* The part of TypeOK that concerns the local states.
LocalsOK ==
    /\ run \in [Procs -> Locals]
    /\ \A p \in Procs : run[p].pc \notin {"down", "start"} => run[p].ident # None

\* What the parts of an action that all actions share do to the types.
LEMMA ExitTyped ==
    ASSUME TypeOK, NEW p \in Procs, Exit(p)
    PROVE  LocalsOK' /\ lock' \in Procs \cup {None}
<1>1. \A r \in Procs : run'[r] = IF r = p THEN Down ELSE run[r]
  BY DEF TypeOK, Exit
<1>2. Down \in Locals /\ Down.pc = "down"
  BY DownTyped DEF Down
<1>3. run' \in [Procs -> Locals]
  BY <1>2 DEF TypeOK, Exit
<1>4. ASSUME NEW r \in Procs, run'[r].pc \notin {"down", "start"}
      PROVE  run'[r].ident # None
  BY <1>1, <1>2, <1>4 DEF TypeOK
<1>5. QED
  BY <1>3, <1>4 DEF LocalsOK, TypeOK, Exit

\* Only p moves, to a typed local state with an identity.
LEMMA MoveTyped ==
    ASSUME TypeOK, NEW p \in Procs, NEW l \in Locals,
           run' = [run EXCEPT ![p] = l],
           l.pc \notin {"down", "start"} => l.ident # None
    PROVE  LocalsOK'
  BY DEF TypeOK, LocalsOK

LEMMA GotoTyped ==
    ASSUME TypeOK, NEW p \in Procs, NEW label \in PCs, Goto(p, label),
           run[p].pc \notin {"down", "start"}
    PROVE  LocalsOK'
<1>1. run' = [run EXCEPT ![p] = [run[p] EXCEPT !.pc = label]]
  BY DEF Goto
<1>2. run[p] \in Locals /\ run[p].ident # None
  BY DEF TypeOK
<1>3. [run[p] EXCEPT !.pc = label] \in Locals
  BY <1>2 DEF Locals
<1>4. [run[p] EXCEPT !.pc = label].ident = run[p].ident
  BY <1>2 DEF Locals
<1>5. QED
  BY <1>1, <1>2, <1>3, <1>4, MoveTyped

LEMMA SavedTyped == TypeOK => SavedResidues \in Residues
  BY DownTyped DEF TypeOK, FilesTypeOK, Directories, SavedResidues, Checkpoints

LEMMA MissingOnly ==
    ASSUME NEW r \in Residues, NEW lim
    PROVE  FirstMissing(r, lim) \subseteq Prefix \ Have(r)
  BY DEF FirstMissing

LEMMA StepTyped == TypeOK /\ [Next]_vars => TypeOK'
<1> SUFFICES ASSUME TypeOK, [Next]_vars PROVE TypeOK'
  OBVIOUS
<1> USE DEF environment, history, files
<1>a. \A p \in Procs : run[p] \in Locals
  BY DEF TypeOK
<1>1. ASSUME NEW p \in Procs, NEW k \in Runners, NEW lim \in 0 .. MaxRuns,
             Launch(p, k, lim)
      PROVE  TypeOK'
  <2> DEFINE l == [run[p] EXCEPT !.pc = "start", !.kind = k, !.limit = lim]
  <2>1. l \in Locals /\ l.pc = "start"
    BY <1>a, RunAssumption DEF Locals, PCs
  <2>2. LocalsOK' /\ lock' \in Procs \cup {None}
    <3>1. CASE lock = None /\ (k = "batch" => FingerprintDefined)
      <4>1. run' = [run EXCEPT ![p] = l] /\ lock' = p
        BY <1>1, <3>1 DEF Launch
      <4> HIDE DEF l
      <4>2. QED
        BY <2>1, <4>1, MoveTyped
    <3>2. CASE ~(lock = None /\ (k = "batch" => FingerprintDefined))
      BY <1>1, <3>2 DEF Launch, TypeOK, LocalsOK
    <3>3. QED
      BY <3>1, <3>2
  <2>3. QED
    BY <1>1, <2>2 DEF TypeOK, FilesTypeOK, Launch, LocalsOK
<1>2. ASSUME NEW p \in Procs, Start(p) PROVE TypeOK'
  <2> DEFINE l == [run[p] EXCEPT !.pc = "work", !.ident = bin, !.res = SavedResidues,
                                 !.todo = FirstMissing(SavedResidues, run[p].limit)]
  <2>1. FirstMissing(SavedResidues, run[p].limit) \in SUBSET Prefix
    BY SavedTyped, MissingOnly
  <2>2. bin \in Binaries /\ bin # None
    BY FilesAssumption DEF TypeOK
  <2>3. l \in Locals /\ l.ident # None
    BY <1>a, <2>1, <2>2, SavedTyped DEF Locals, PCs
  <2>4. run' = [run EXCEPT ![p] = l]
    BY <1>2 DEF Start
  <2> HIDE DEF l
  <2>5. LocalsOK'
    BY <2>3, <2>4, MoveTyped
  <2>6. QED
    BY <1>2, <2>5 DEF TypeOK, FilesTypeOK, Start, LocalsOK
<1>3. ASSUME NEW p \in Procs,
             StartRefused(p) \/ StopPartial(p) \/ ResultRefused(p) \/ Report(p)
      PROVE  TypeOK'
  <2>1. Exit(p) /\ UNCHANGED <<seen, durable, bin, side, announced, faults>>
    BY <1>3 DEF StartRefused, StopPartial, ResultRefused, Report
  <2>2. QED
    BY <2>1, ExitTyped DEF TypeOK, FilesTypeOK, LocalsOK
<1>4. ASSUME NEW p \in Procs, Spawn(p) PROVE TypeOK'
  <2> DEFINE l == [run[p] EXCEPT !.child = bin]
  <2>1. l \in Locals /\ l.pc = run[p].pc /\ l.ident = run[p].ident
    BY <1>a DEF Locals, TypeOK
  <2>2. run' = [run EXCEPT ![p] = l] /\ run[p].ident # None
    BY <1>4 DEF Spawn, TypeOK
  <2> HIDE DEF l
  <2>3. LocalsOK'
    BY <2>1, <2>2, MoveTyped
  <2>4. QED
    BY <1>4, <2>3 DEF TypeOK, FilesTypeOK, Spawn, LocalsOK
<1>5. ASSUME NEW p \in Procs, NEW q \in Prefix, NEW by \in Binaries, Save(p, q, by),
             run[p].pc = "work"
      PROVE  TypeOK'
  <2> DEFINE residues == [run[p].res EXCEPT ![q] = by]
  <2> DEFINE l == [run[p] EXCEPT !.pc = "saved", !.res = residues,
                                 !.todo = run[p].todo \ {q}]
  <2>1. residues \in Residues
    BY <1>a DEF Locals, Residues
  <2>2. run[p].ident \in Binaries /\ run[p].ident # None
    BY <1>a, <1>5 DEF TypeOK, Locals
  <2>3. [sha |-> run[p].ident, res |-> residues] \in Checkpoints
    BY <2>1, <2>2 DEF Checkpoints
  <2>4. FilesTypeOK'
    BY <1>5, <2>3, FilesReplaced DEF TypeOK, Save
  <2>5. run' = [run EXCEPT ![p] = l]
    BY <1>5 DEF Save
  <2> HIDE DEF residues
  <2>6. l \in Locals /\ l.ident = run[p].ident
    BY <1>a, <2>1 DEF Locals, PCs
  <2> HIDE DEF l
  <2>7. LocalsOK'
    BY <2>2, <2>5, <2>6, MoveTyped
  <2>8. QED
    BY <1>5, <2>4, <2>7 DEF TypeOK, Save, LocalsOK
<1>6. ASSUME NEW p \in Procs, SolveOne(p) PROVE TypeOK'
  <2>1. PICK q \in run[p].todo : Save(p, q, bin)
    BY <1>6 DEF SolveOne
  <2>2. q \in Prefix /\ run[p].pc = "work" /\ bin \in Binaries
    BY <1>a, <1>6 DEF SolveOne, Locals, TypeOK
  <2>3. QED
    BY <2>1, <2>2, <1>5
<1>7. ASSUME NEW p \in Procs, ReadLine(p) PROVE TypeOK'
  <2>1. PICK q \in run[p].todo : Save(p, q, run[p].child)
    BY <1>7 DEF ReadLine
  <2>2. q \in Prefix /\ run[p].pc = "work" /\ run[p].child \in Binaries
    BY <1>a, <1>7 DEF ReadLine, Locals
  <2>3. QED
    BY <2>1, <2>2, <1>5
<1>8. ASSUME NEW p \in Procs, SaveSync(p) PROVE TypeOK'
  <2>1. LocalsOK'
    BY <1>8, GotoTyped DEF SaveSync, PCs
  <2>2. Have(run[p].res) \subseteq Prefix
    BY DEF Have
  <2>3. QED
    BY <1>8, <2>1, <2>2, FilesSynced DEF TypeOK, SaveSync, LocalsOK
<1>9. ASSUME NEW p \in Procs, CopyProvenance(p) PROVE TypeOK'
  <2> DEFINE l == [run[p] EXCEPT !.pc = "provenance", !.sidecar = side]
  <2>1. side \in Sidecars /\ run[p].ident # None
    BY <1>9 DEF TypeOK, CopyProvenance, Ready
  <2>2. FilesTypeOK'
    BY <1>9, <2>1, FilesReplaced DEF TypeOK, CopyProvenance
  <2>3. l \in Locals /\ l.ident = run[p].ident
    BY <1>a, <2>1 DEF Locals, PCs
  <2>4. run' = [run EXCEPT ![p] = l]
    BY <1>9 DEF CopyProvenance
  <2> HIDE DEF l
  <2>5. LocalsOK'
    BY <2>1, <2>3, <2>4, MoveTyped
  <2>6. QED
    BY <1>9, <2>2, <2>5 DEF TypeOK, CopyProvenance, LocalsOK
<1>10. ASSUME NEW p \in Procs, ProvenanceSync(p) \/ ManifestSync(p) \/ ExactSync(p)
       PROVE  TypeOK'
  <2>1. /\ SyncDirectory /\ UNCHANGED <<bin, side, lock, announced, faults>>
        /\ \E label \in PCs : Goto(p, label)
        /\ run[p].pc \notin {"down", "start"}
    BY <1>10 DEF ProvenanceSync, ManifestSync, ExactSync, PCs
  <2>2. QED
    BY <2>1, GotoTyped, FilesSynced DEF TypeOK, LocalsOK
<1>11. ASSUME NEW p \in Procs, NoProvenance(p) PROVE TypeOK'
  <2>1. LocalsOK'
    BY <1>11, GotoTyped DEF NoProvenance, Ready, PCs
  <2>2. QED
    BY <1>11, <2>1 DEF TypeOK, FilesTypeOK, NoProvenance, LocalsOK
<1>12. ASSUME NEW p \in Procs, WriteManifest(p) PROVE TypeOK'
  <2>1. LocalsOK'
    BY <1>12, GotoTyped DEF WriteManifest, PCs
  <2>2. ManifestOf(p) \in Manifests
    <3>1. run[p].ident \in Binaries /\ run[p].res \in Residues
             /\ run[p].sidecar \in Sidecars \cup {None}
      BY <1>12, <1>a DEF Locals, TypeOK, WriteManifest
    <3>2. ExactOf(run[p].res) \in Exacts
      BY <3>1 DEF ExactOf, Exacts
    <3>3. seen.ckpt \in Checkpoints \cup {None}
      BY DEF TypeOK, FilesTypeOK, Directories
    <3>4. QED
      BY <3>1, <3>2, <3>3 DEF ManifestOf, Manifests
  <2>3. FilesTypeOK'
    BY <1>12, <2>2, FilesReplaced DEF TypeOK, WriteManifest, ManifestOf
  <2>4. QED
    BY <1>12, <2>1, <2>3 DEF TypeOK, WriteManifest, LocalsOK
<1>13. ASSUME NEW p \in Procs, WriteExact(p) PROVE TypeOK'
  <2>1. LocalsOK'
    BY <1>13, GotoTyped DEF WriteExact, PCs
  <2>2. ExactOf(run[p].res) \in Exacts
    BY <1>a DEF ExactOf, Exacts, Locals
  <2>3. FilesTypeOK'
    BY <1>13, <2>2, FilesReplaced DEF TypeOK, WriteExact
  <2>4. QED
    BY <1>13, <2>1, <2>3 DEF TypeOK, WriteExact, LocalsOK
<1>14. ASSUME Operator PROVE TypeOK'
  <2>1. FilesTypeOK'
    BY <1>14, FilesReplaced
    DEF TypeOK, FilesTypeOK, Operator, Rebuild, RebuildSidecar, RemoveCheckpoint
  <2>2. faults' \in 0 .. MaxFaults /\ announced' \subseteq Prefix
    BY <1>14, RunAssumption
    DEF TypeOK, Operator, Rebuild, RebuildSidecar, RemoveCheckpoint
  <2>3. bin' \in Binaries /\ side' \in Sidecars \cup {None} /\ UNCHANGED <<run, lock>>
    BY <1>14 DEF TypeOK, Operator, Rebuild, RebuildSidecar, RemoveCheckpoint
  <2>4. QED
    BY <2>1, <2>2, <2>3 DEF TypeOK
<1>15. ASSUME NEW p \in Procs, SolverFails(p) \/ Kill(p) PROVE TypeOK'
  <2>1. Exit(p) /\ UNCHANGED <<seen, durable, bin, side, announced>>
           /\ faults' \in 0 .. MaxFaults
    BY <1>15, RunAssumption DEF SolverFails, Kill, TypeOK
  <2>2. QED
    BY <2>1, ExitTyped DEF TypeOK, FilesTypeOK, LocalsOK
<1>16. CASE PowerLoss
  <2>1. run' \in [Procs -> Locals] /\ \A p \in Procs : run'[p].pc = "down"
    BY <1>16, DownTyped DEF PowerLoss, Down
  <2>2. FilesTypeOK' /\ faults' \in 0 .. MaxFaults
    BY <1>16, FilesSynced, RunAssumption DEF PowerLoss, TypeOK
  <2>3. QED
    BY <1>16, <2>1, <2>2 DEF PowerLoss, TypeOK
<1>17. ASSUME NEW file \in FileNames, Flush(file) PROVE TypeOK'
  BY <1>17, FilesSynced DEF TypeOK, Flush
<1>18. CASE UNCHANGED vars
  BY <1>18 DEF TypeOK, FilesTypeOK, vars
<1>19. QED
  BY <1>1, <1>2, <1>3, <1>4, <1>6, <1>7, <1>8, <1>9, <1>10, <1>11, <1>12, <1>13, <1>14,
     <1>15, <1>16, <1>17, <1>18
  DEF Next, LaunchSome, RunnerStep, Faults

(***************************************************************************)
(* Every variable keeps its type, and a runner past its start knows its    *)
(* binary; under any use of the runners.                                   *)
(***************************************************************************)
THEOREM RunnersTyped == Spec => []TypeOK
<1>1. QED
  BY InitTyped, StepTyped, PTL DEF Spec

-----------------------------------------------------------------------------
(***************************************************************************)
(* The lock leaves one runner at a time, so that a step of one of them has *)
(* to be looked at for that one only.                                      *)
(***************************************************************************)
LEMMA Idle ==
    ASSUME NEW p \in Procs, run[p].pc \in {"down", "start"},
           run[p].child = None, run[p].sidecar = None
    PROVE  RunnerOK(p) /\ BundleOK(p)
  BY DEF RunnerOK, BundleOK, Active, Bundling, ProvenanceDurable, ManifestWritten,
         ManifestDurable, MarkerWritten

LEMMA IdleNext ==
    ASSUME NEW p \in Procs, run'[p].pc \in {"down", "start"},
           run'[p].child = None, run'[p].sidecar = None
    PROVE  (RunnerOK(p) /\ BundleOK(p))'
  BY DEF RunnerOK, BundleOK, Active, Bundling, ProvenanceDurable, ManifestWritten,
         ManifestDurable, MarkerWritten

LEMMA Waiting ==
    ASSUME IInv, NEW p \in Procs, run[p].pc \in {"down", "start"}
    PROVE  run[p].child = None /\ run[p].sidecar = None
  BY DEF IInv, RunnerOK, Active, Bundling, ProvenanceDurable, ManifestWritten,
         ManifestDurable, MarkerWritten

\* Nobody runs: files and binary may change at will.
LEMMA NobodyRuns ==
    ASSUME IInv, \A r \in Procs : run[r].pc = "down", UNCHANGED run
    PROVE  (Mutex /\ \A p \in Procs : RunnerOK(p) /\ BundleOK(p))'
<1>1. \A r \in Procs : run'[r].pc = "down" /\ run'[r].child = None
                          /\ run'[r].sidecar = None
  BY Waiting
<1>2. QED
  BY <1>1, IdleNext DEF Mutex

\* A step of p alone.
LEMMA OneMoves ==
    ASSUME IInv, NEW p \in Procs, run[p].pc # "down",
           \A r \in Procs \ {p} : run'[r] = run[r],
           lock' = lock \/ run'[p].pc = "down",
           (RunnerOK(p) /\ BundleOK(p))'
    PROVE  (Mutex /\ \A r \in Procs : RunnerOK(r) /\ BundleOK(r))'
<1>1. lock = p /\ \A r \in Procs \ {p} : run[r].pc = "down"
  BY DEF IInv, Mutex
<1>2. \A r \in Procs \ {p} : run'[r].pc = "down" /\ run'[r].child = None
                                /\ run'[r].sidecar = None
  BY <1>1, Waiting
<1>3. \A r \in Procs \ {p} : (RunnerOK(r) /\ BundleOK(r))'
  BY <1>2, IdleNext
<1>4. QED
  BY <1>1, <1>2, <1>3 DEF Mutex

LEMMA ExitKeeps ==
    ASSUME IInv, NEW p \in Procs, run[p].pc # "down", Exit(p)
    PROVE  (Mutex /\ \A r \in Procs : RunnerOK(r) /\ BundleOK(r))'
<1>1. run'[p] = Down /\ \A r \in Procs \ {p} : run'[r] = run[r]
  BY DEF Exit, IInv, TypeOK
<1>2. (RunnerOK(p) /\ BundleOK(p))'
  BY <1>1, IdleNext DEF Down
<1>3. QED
  BY <1>1, <1>2, OneMoves DEF Down

\* p goes to a label and nothing else of any process changes.
Moves(p, label) ==
    /\ \A r \in Procs \ {p} : run'[r] = run[r]
    /\ run'[p].pc = label
    /\ run'[p].ident = run[p].ident /\ run'[p].child = run[p].child
    /\ run'[p].res = run[p].res /\ run'[p].todo = run[p].todo
    /\ run'[p].sidecar = run[p].sidecar

LEMMA GotoMoves ==
    ASSUME TypeOK, NEW p \in Procs, NEW label, Goto(p, label)
    PROVE  Moves(p, label)
<1>1. run[p] \in Locals /\ run'[p] = [run[p] EXCEPT !.pc = label]
         /\ \A r \in Procs \ {p} : run'[r] = run[r]
  BY DEF Goto, TypeOK
<1>2. QED
  BY <1>1 DEF Locals, Moves

-----------------------------------------------------------------------------
(***************************************************************************)
(* IInv is inductive when the binary is not rebuilt under a runner. One    *)
(* lemma for each kind of step.                                            *)
(***************************************************************************)
Runs == Mutex /\ \A r \in Procs : RunnerOK(r) /\ BundleOK(r)

Books == BoundToBinary /\ AnnouncedKept

LEMMA Parts == IInv <=> TypeOK /\ Runs /\ Books
  BY DEF IInv, Runs, Books

LEMMA SameBooks ==
    ASSUME IInv, UNCHANGED <<seen.ckpt, durable.ckpt, announced>>
    PROVE  Books'
  BY DEF IInv, Books, BoundToBinary, AnnouncedKept

LEMMA InitInv == Init => IInv
<1> SUFFICES ASSUME Init PROVE IInv
  OBVIOUS
<1>1. \A p \in Procs : run[p] = Down /\ run[p].pc = "down"
                          /\ run[p].child = None /\ run[p].sidecar = None
  BY DEF Init, Down
<1>2. \A p \in Procs : RunnerOK(p) /\ BundleOK(p)
  BY <1>1, Idle
<1>3. BoundToBinary /\ AnnouncedKept
  BY DEF Init, FilesInit, EmptyDirectory, BoundToBinary, AnnouncedKept
<1>4. QED
  BY <1>1, <1>2, <1>3, InitTyped DEF IInv, Mutex

LEMMA LaunchInv ==
    ASSUME IInv, NEW p \in Procs, NEW k \in Runners, NEW lim \in 0 .. MaxRuns,
           Launch(p, k, lim)
    PROVE  Runs' /\ Books'
<1>1. Books'
  BY SameBooks DEF Launch, files, history
<1>2. CASE lock = None /\ (k = "batch" => FingerprintDefined)
  <2>1. \A r \in Procs : run[r].pc = "down" /\ run[r].child = None
                            /\ run[r].sidecar = None
    <3>1. \A r \in Procs : run[r].pc = "down"
      BY <1>2, RunAssumption DEF IInv, Mutex
    <3>2. QED
      BY <3>1, Waiting
  <2>2. run[p] \in Locals /\ lock' = p
           /\ run' = [run EXCEPT ![p] = [run[p] EXCEPT !.pc = "start", !.kind = k,
                                                       !.limit = lim]]
    BY <1>2 DEF Launch, IInv, TypeOK
  <2>3. /\ \A r \in Procs \ {p} : run'[r] = run[r]
        /\ run'[p] = [run[p] EXCEPT !.pc = "start", !.kind = k, !.limit = lim]
    BY <2>2 DEF IInv, TypeOK
  <2>4. run'[p].pc = "start" /\ run'[p].child = None /\ run'[p].sidecar = None
    <3>1. run[p].child = None /\ run[p].sidecar = None /\ run[p] \in Locals
             /\ run'[p] = [run[p] EXCEPT !.pc = "start", !.kind = k, !.limit = lim]
      BY <2>1, <2>2, <2>3
    <3>2. QED
      BY <3>1 DEF Locals
  <2>5. \A r \in Procs : (RunnerOK(r) /\ BundleOK(r))'
    <3>1. \A r \in Procs : run'[r].pc \in {"down", "start"}
             /\ run'[r].child = None /\ run'[r].sidecar = None
      BY <2>1, <2>3, <2>4
    <3>2. QED
      BY <3>1, IdleNext
  <2>6. Mutex'
    BY <2>1, <2>2, <2>3 DEF Mutex
  <2>7. QED
    BY <1>1, <2>5, <2>6 DEF Runs
<1>3. CASE ~(lock = None /\ (k = "batch" => FingerprintDefined))
  BY <1>1, <1>3, Parts
  DEF Launch, files, environment, history, Runs, Mutex, RunnerOK, BundleOK, Active,
      CheckpointFits, SavedResidues, ManifestOf
<1>4. QED
  BY <1>2, <1>3

LEMMA StartInv ==
    ASSUME IInv, NEW p \in Procs, Start(p)
    PROVE  Runs' /\ Books'
<1>1. Books'
  BY SameBooks DEF Start, files, history
<1>2. run[p] \in Locals /\ run[p].pc = "start" /\ run[p].child = None
         /\ run[p].sidecar = None
  BY Waiting DEF Start, IInv, TypeOK
<1> DEFINE todo == FirstMissing(SavedResidues, run[p].limit)
<1>3. run'[p] = [run[p] EXCEPT !.pc = "work", !.ident = bin, !.res = SavedResidues,
                               !.todo = todo]
         /\ \A r \in Procs \ {p} : run'[r] = run[r]
  BY DEF Start, IInv, TypeOK
<1>4. todo \cap Have(SavedResidues) = {}
  BY SavedTyped, MissingOnly DEF IInv
<1> HIDE DEF todo
<1>5. run'[p].pc = "work" /\ run'[p].ident = bin /\ run'[p].res = SavedResidues
         /\ run'[p].todo = todo /\ run'[p].child = None /\ run'[p].sidecar = None
  BY <1>2, <1>3 DEF Locals
<1>6. UNCHANGED <<seen, durable, bin, side, lock>> /\ CheckpointFits
  BY DEF Start, files, environment
<1>7. (RunnerOK(p) /\ BundleOK(p))'
  BY <1>4, <1>5, <1>6
  DEF RunnerOK, BundleOK, Active, CheckpointFits, SavedResidues, Bundling,
      ProvenanceDurable, ManifestWritten, ManifestDurable, MarkerWritten
<1>8. QED
  BY <1>1, <1>2, <1>3, <1>6, <1>7, OneMoves DEF Runs

LEMMA SpawnInv ==
    ASSUME IInv, NEW p \in Procs, Spawn(p)
    PROVE  Runs' /\ Books'
<1>1. Books'
  BY SameBooks DEF Spawn, files, history
<1>2. run[p] \in Locals /\ run[p].pc = "work"
         /\ run'[p] = [run[p] EXCEPT !.child = bin]
         /\ \A r \in Procs \ {p} : run'[r] = run[r]
  BY DEF Spawn, IInv, TypeOK
<1>3. run'[p].pc = "work" /\ run'[p].ident = run[p].ident /\ run'[p].res = run[p].res
         /\ run'[p].todo = run[p].todo /\ run'[p].child = bin
         /\ run'[p].sidecar = run[p].sidecar
  BY <1>2 DEF Locals
<1>4. UNCHANGED <<seen, durable, bin, side, lock>>
  BY DEF Spawn, files, environment
<1>5. (RunnerOK(p) /\ BundleOK(p))'
  BY <1>2, <1>3, <1>4
  DEF IInv, RunnerOK, BundleOK, Active, CheckpointFits, SavedResidues, Bundling,
      ProvenanceDurable, ManifestWritten, ManifestDurable, MarkerWritten
<1>6. QED
  BY <1>1, <1>2, <1>4, <1>5, OneMoves DEF Runs

LEMMA SaveInv ==
    ASSUME IInv, NEW p \in Procs, run[p].pc = "work", NEW q \in Prefix, Save(p, q, bin)
    PROVE  Runs' /\ Books'
<1> DEFINE residues == [run[p].res EXCEPT ![q] = bin]
<1> DEFINE new == [sha |-> run[p].ident, res |-> residues]
<1>1. /\ run[p] \in Locals /\ q \in run[p].todo
      /\ run'[p] = [run[p] EXCEPT !.pc = "saved", !.res = residues,
                                  !.todo = run[p].todo \ {q}]
      /\ \A r \in Procs \ {p} : run'[r] = run[r]
      /\ UNCHANGED <<bin, side, lock, announced>>
      /\ seen' = [seen EXCEPT !.ckpt = new] /\ UNCHANGED durable
  BY DEF Save, IInv, TypeOK, Replace, environment, history
<1>2. residues \in Residues /\ Have(residues) = Have(run[p].res) \cup {q}
      /\ \A r \in Prefix : residues[r] = IF r = q THEN bin ELSE run[p].res[r]
  <2>1. run[p].res \in [Prefix -> Binaries \cup {None}] /\ bin \in Binaries /\ bin # None
    BY <1>1, FilesAssumption DEF Locals, Residues, IInv, TypeOK
  <2>2. QED
    BY <2>1 DEF Residues, Have
<1>3. run[p].ident = bin /\ run[p].res = SavedResidues /\ run[p].child \in {bin, None}
      /\ run[p].todo \cap Have(run[p].res) = {} /\ run[p].sidecar = None
  BY DEF IInv, RunnerOK, Active, Bundling, ProvenanceDurable, ManifestWritten,
         ManifestDurable, MarkerWritten
<1>4. \A r \in Prefix : run[p].res[r] \in {bin, None}
  BY <1>3 DEF IInv, BoundToBinary, RunnerOK, Active, CheckpointFits, SavedResidues,
              NoResidues
<1>5. seen'.ckpt = new /\ new # None /\ new.sha = bin /\ new.res = residues
  <2>1. new \in Checkpoints
    BY <1>2, <1>3 DEF IInv, TypeOK, Checkpoints
  <2>2. seen \in Directories
    BY DEF IInv, TypeOK, FilesTypeOK
  <2>3. QED
    BY <1>1, <1>3, <2>1, <2>2, FilesAssumption DEF Directories
<1> HIDE DEF residues
<1>6. run'[p].pc = "saved" /\ run'[p].ident = bin /\ run'[p].child = run[p].child
      /\ run'[p].res = residues /\ run'[p].todo = run[p].todo \ {q}
      /\ run'[p].sidecar = None
  BY <1>1, <1>3 DEF Locals
<1> HIDE DEF new
<1>7. (RunnerOK(p) /\ BundleOK(p))'
  <2>1. run'[p].todo \cap Have(run'[p].res) = {}
    BY <1>2, <1>3, <1>6
  <2>2. QED
    BY <1>1, <1>3, <1>5, <1>6, <2>1
    DEF RunnerOK, BundleOK, Active, CheckpointFits, SavedResidues, Bundling,
        ProvenanceDurable, ManifestWritten, ManifestDurable, MarkerWritten
<1>8. BoundToBinary'
  <2>1. \A r \in Prefix : new.res[r] \in {new.sha, None}
    BY <1>2, <1>4, <1>5
  <2>2. durable'.ckpt # None =>
           \A r \in Prefix : durable'.ckpt.res[r] \in {durable'.ckpt.sha, None}
    BY <1>1 DEF IInv, BoundToBinary
  <2>3. QED
    BY <1>5, <2>1, <2>2 DEF BoundToBinary
<1>9. AnnouncedKept'
  BY <1>1, <1>2, <1>3, <1>5 DEF IInv, AnnouncedKept, SavedResidues
<1>10. QED
  BY <1>1, <1>7, <1>8, <1>9, OneMoves DEF Runs, Books

LEMMA SaveSyncInv ==
    ASSUME IInv, NEW p \in Procs, SaveSync(p)
    PROVE  Runs' /\ Books'
<1>1. /\ run[p].pc = "saved" /\ durable' = seen
      /\ announced' = announced \cup Have(run[p].res)
      /\ UNCHANGED <<seen, bin, side, lock>> /\ Moves(p, "work")
  BY GotoMoves DEF IInv, SaveSync, SyncDirectory, environment
<1>2. (RunnerOK(p) /\ BundleOK(p))'
  BY <1>1
  DEF Moves, IInv, RunnerOK, BundleOK, Active, CheckpointFits, SavedResidues, ManifestOf, Bundling,
      ProvenanceDurable, ManifestWritten, ManifestDurable, MarkerWritten
<1>3. Runs'
  BY <1>1, <1>2, OneMoves DEF Moves, Runs
<1>4. BoundToBinary'
  BY <1>1 DEF IInv, BoundToBinary
<1>5. run[p].res = SavedResidues
  BY <1>1 DEF IInv, RunnerOK, Active
<1>6. seen.ckpt = None => Have(run[p].res) = {}
  BY <1>5 DEF SavedResidues, NoResidues, Have
<1>7. AnnouncedKept'
  BY <1>1, <1>5, <1>6 DEF IInv, AnnouncedKept, SavedResidues
<1>8. QED
  BY <1>3, <1>4, <1>7 DEF Books

\* A complete dictionary of residues comes from a checkpoint.
LEMMA CompleteSaved ==
    ASSUME IInv, NEW p \in Procs, Active(p), Complete(run[p].res)
    PROVE  seen.ckpt # None
<1>1. 1 \in Prefix
  BY FilesAssumption DEF Prefix
<1>2. run[p].res[1] # None /\ run[p].res = SavedResidues
  BY <1>1 DEF Complete, Have, IInv, RunnerOK
<1>3. QED
  BY <1>1, <1>2 DEF SavedResidues, NoResidues

LEMMA CopyProvenanceInv ==
    ASSUME IInv, NEW p \in Procs, CopyProvenance(p)
    PROVE  Runs' /\ Books'
<1>1. /\ run[p] \in Locals /\ run[p].pc = "work"
      /\ Complete(run[p].res) /\ seen.ckpt # None /\ SidecarOf[side] = bin
      /\ run'[p] = [run[p] EXCEPT !.pc = "provenance", !.sidecar = side]
      /\ \A r \in Procs \ {p} : run'[r] = run[r]
      /\ seen' = [seen EXCEPT !.prov = side] /\ seen \in Directories
      /\ UNCHANGED <<durable, bin, side, lock, announced>>
  BY CompleteSaved
  DEF CopyProvenance, Ready, Active, Replace, environment, history, SidecarFits, IInv, TypeOK,
      FilesTypeOK
<1>2. /\ run'[p].pc = "provenance" /\ run'[p].ident = run[p].ident
      /\ run'[p].child = run[p].child /\ run'[p].res = run[p].res
      /\ run'[p].todo = run[p].todo /\ run'[p].sidecar = side
  BY <1>1 DEF Locals
<1>3. seen'.prov = side /\ seen'.ckpt = seen.ckpt
  BY <1>1 DEF Directories
<1>4. (RunnerOK(p) /\ BundleOK(p))'
  BY <1>1, <1>2, <1>3
  DEF IInv, RunnerOK, BundleOK, Active, CheckpointFits, SavedResidues, ManifestOf, Bundling,
      ProvenanceDurable, ManifestWritten, ManifestDurable, MarkerWritten
<1>5. QED
  BY <1>1, <1>3, <1>4, OneMoves, SameBooks DEF Runs

LEMMA NoProvenanceInv ==
    ASSUME IInv, NEW p \in Procs, NoProvenance(p)
    PROVE  Runs' /\ Books'
<1>1. /\ run[p].pc = "work" /\ Complete(run[p].res) /\ seen.ckpt # None
      /\ UNCHANGED <<seen, durable, bin, side, lock, announced>> /\ Moves(p, "manifest")
  BY GotoMoves, CompleteSaved DEF IInv, NoProvenance, Ready, Active, files, environment, history
<1>2. (RunnerOK(p) /\ BundleOK(p))'
  BY <1>1
  DEF Moves, IInv, RunnerOK, BundleOK, Active, CheckpointFits, SavedResidues, ManifestOf, Bundling,
      ProvenanceDurable, ManifestWritten, ManifestDurable, MarkerWritten
<1>3. QED
  BY <1>1, <1>2, OneMoves, SameBooks DEF Moves, Runs

\* What a directory sync makes durable.
LEMMA BundleSyncInv ==
    ASSUME IInv, NEW p \in Procs, ProvenanceSync(p) \/ ManifestSync(p) \/ ExactSync(p)
    PROVE  Runs' /\ Books'
<1>1. /\ durable' = seen /\ UNCHANGED <<seen, bin, side, lock, announced>>
      /\ \/ run[p].pc = "provenance" /\ Moves(p, "manifest")
         \/ run[p].pc = "manifested" /\ Moves(p, "mark")
         \/ run[p].pc = "marked" /\ Moves(p, "published")
  BY GotoMoves
  DEF IInv, ProvenanceSync, ManifestSync, ExactSync, SyncDirectory, environment, history
<1>2. (RunnerOK(p) /\ BundleOK(p))'
  BY <1>1
  DEF Moves, IInv, RunnerOK, BundleOK, Active, CheckpointFits, SavedResidues, ManifestOf, Bundling,
      ProvenanceDurable, ManifestWritten, ManifestDurable, MarkerWritten
<1>3. Books'
  BY <1>1 DEF IInv, Books, BoundToBinary, AnnouncedKept
<1>4. QED
  BY <1>1, <1>2, <1>3, OneMoves DEF Moves, Runs

LEMMA WriteManifestInv ==
    ASSUME IInv, NEW p \in Procs, WriteManifest(p)
    PROVE  Runs' /\ Books'
<1>1. /\ run[p].pc = "manifest" /\ Moves(p, "manifested") /\ seen \in Directories
      /\ seen' = [seen EXCEPT !.manifest = ManifestOf(p)]
      /\ UNCHANGED <<durable, bin, side, lock, announced>>
  BY GotoMoves DEF WriteManifest, Replace, ManifestOf, environment, history, IInv, TypeOK,
         FilesTypeOK
<1>2. seen'.manifest = ManifestOf(p) /\ seen'.ckpt = seen.ckpt /\ seen'.prov = seen.prov
  BY <1>1 DEF Directories
<1>3. ManifestOf(p)' = ManifestOf(p)
  BY <1>1, <1>2 DEF Moves, IInv, ManifestOf, ExactOf
<1>4. (RunnerOK(p) /\ BundleOK(p))'
  BY <1>1, <1>2, <1>3
  DEF Moves, IInv, RunnerOK, BundleOK, Active, CheckpointFits, SavedResidues, Bundling,
      ProvenanceDurable, ManifestWritten, ManifestDurable, MarkerWritten
<1>5. QED
  BY <1>1, <1>2, <1>4, OneMoves, SameBooks DEF Moves, Runs

LEMMA WriteExactInv ==
    ASSUME IInv, NEW p \in Procs, WriteExact(p)
    PROVE  Runs' /\ Books'
<1>1. /\ run[p].pc = "mark" /\ Moves(p, "marked") /\ seen \in Directories
      /\ seen' = [seen EXCEPT !.exact = ExactOf(run[p].res)]
      /\ UNCHANGED <<durable, bin, side, lock, announced>>
  BY GotoMoves DEF WriteExact, Replace, environment, history, IInv, TypeOK, FilesTypeOK
<1>2. /\ seen'.exact = ExactOf(run[p].res) /\ seen'.ckpt = seen.ckpt
      /\ seen'.prov = seen.prov /\ seen'.manifest = seen.manifest
  BY <1>1 DEF Directories
<1>3. ManifestOf(p)' = ManifestOf(p) /\ ExactOf(run[p].res)' = ExactOf(run[p].res)
  BY <1>1, <1>2 DEF Moves, IInv, ManifestOf, ExactOf
<1>4. (RunnerOK(p) /\ BundleOK(p))'
  BY <1>1, <1>2, <1>3
  DEF Moves, IInv, RunnerOK, BundleOK, Active, CheckpointFits, SavedResidues, Bundling,
      ProvenanceDurable, ManifestWritten, ManifestDurable, MarkerWritten
<1>5. QED
  BY <1>1, <1>2, <1>4, OneMoves, SameBooks DEF Moves, Runs

LEMMA EndInv ==
    ASSUME IInv, NEW p \in Procs, run[p].pc # "down", Exit(p),
           UNCHANGED <<seen, durable, announced>>
    PROVE  Runs' /\ Books'
  BY ExitKeeps, SameBooks DEF Runs

LEMMA OperatorInv ==
    ASSUME IInv, ~RebuildWhileRunning, Operator
    PROVE  Runs' /\ Books'
<1>1. ASSUME NEW b \in Binaries, Rebuild(b) PROVE Runs' /\ Books'
  <2>1. \A r \in Procs : run[r].pc = "down"
    BY <1>1, RunAssumption DEF Rebuild, IInv, Mutex
  <2>2. QED
    BY <1>1, <2>1, NobodyRuns, SameBooks DEF Rebuild, Runs, files
<1>2. ASSUME NEW s \in Sidecars, RebuildSidecar(s) PROVE Runs' /\ Books'
  BY <1>2, SameBooks
  DEF RebuildSidecar, files, history, Runs, Mutex, IInv, RunnerOK, BundleOK, Active,
      CheckpointFits, SavedResidues, ManifestOf
<1>3. CASE RemoveCheckpoint
  <2>1. \A r \in Procs : run[r].pc = "down"
    BY <1>3, RunAssumption DEF RemoveCheckpoint, IInv, Mutex
  <2>2. seen'.ckpt = None /\ UNCHANGED durable /\ announced' = {}
    BY <1>3 DEF RemoveCheckpoint, Replace, IInv, TypeOK, FilesTypeOK, Directories
  <2>3. Books'
    BY <2>2 DEF IInv, Books, BoundToBinary, AnnouncedKept
  <2>4. QED
    BY <1>3, <2>1, <2>3, NobodyRuns DEF RemoveCheckpoint, Runs
<1>4. QED
  BY <1>1, <1>2, <1>3 DEF Operator

LEMMA PowerLossInv == ASSUME IInv, PowerLoss PROVE Runs' /\ Books'
<1>1. \A r \in Procs : run'[r] = Down
  BY DEF PowerLoss
<1>2. Runs'
  BY <1>1, IdleNext DEF Runs, Mutex, Down
<1>3. Books'
  BY DEF PowerLoss, LoseUnsynced, IInv, Books, BoundToBinary, AnnouncedKept
<1>4. QED
  BY <1>2, <1>3

LEMMA FlushInv ==
    ASSUME IInv, NEW file \in FileNames, Flush(file)
    PROVE  Runs' /\ Books'
<1>1. /\ durable \in Directories /\ durable' = [durable EXCEPT ![file] = seen[file]]
      /\ UNCHANGED <<seen, bin, side, lock, run, announced>>
  BY DEF Flush, WriteBack, environment, history, IInv, TypeOK, FilesTypeOK
<1>2. /\ durable'.ckpt \in {durable.ckpt, seen.ckpt}
      /\ durable'.prov \in {durable.prov, seen.prov}
      /\ durable'.manifest \in {durable.manifest, seen.manifest}
      /\ durable'.exact \in {durable.exact, seen.exact}
  BY <1>1 DEF Directories, FileNames
<1>3. \A p \in Procs : (RunnerOK(p) /\ BundleOK(p))'
  BY <1>1, <1>2
  DEF IInv, RunnerOK, BundleOK, Active, CheckpointFits, SavedResidues, ManifestOf, Bundling,
      ProvenanceDurable, ManifestWritten, ManifestDurable, MarkerWritten
<1>4. Books'
  BY <1>1, <1>2 DEF IInv, Books, BoundToBinary, AnnouncedKept
<1>5. QED
  BY <1>1, <1>3, <1>4 DEF IInv, Runs, Mutex

LEMMA StepInv == ~RebuildWhileRunning /\ IInv /\ [Next]_vars => IInv'
<1> SUFFICES ASSUME ~RebuildWhileRunning, IInv, [Next]_vars PROVE Runs' /\ Books'
  BY Parts, StepTyped DEF IInv, Runs, Books
<1>1. ASSUME LaunchSome PROVE Runs' /\ Books'
  BY <1>1, LaunchInv DEF LaunchSome
<1>2. ASSUME NEW p \in Procs, RunnerStep(p) PROVE Runs' /\ Books'
  <2>1. CASE StartRefused(p) \/ StopPartial(p) \/ ResultRefused(p) \/ Report(p)
    <3>1. run[p].pc # "down" /\ Exit(p) /\ UNCHANGED <<seen, durable, announced>>
      BY <2>1
      DEF StartRefused, StopPartial, ResultRefused, Report, Ready, files, history
    <3>2. QED
      BY <3>1, EndInv
  <2>2. CASE SolveOne(p)
    <3>1. PICK q \in run[p].todo : Save(p, q, bin)
      BY <2>2 DEF SolveOne
    <3>2. q \in Prefix /\ run[p].pc = "work"
      BY <2>2 DEF SolveOne, IInv, TypeOK, Locals
    <3>3. QED
      BY <3>1, <3>2, SaveInv
  <2>3. CASE ReadLine(p)
    <3>1. PICK q \in run[p].todo : Save(p, q, run[p].child)
      BY <2>3 DEF ReadLine
    <3>2. q \in Prefix /\ run[p].pc = "work"
      BY <2>3 DEF ReadLine, IInv, TypeOK, Locals
    <3>3. run[p].child = bin
      BY <2>3 DEF ReadLine, IInv, RunnerOK, Active
    <3>4. QED
      BY <3>1, <3>2, <3>3, SaveInv
  <2>4. QED
    BY <1>2, <2>1, <2>2, <2>3, StartInv, SpawnInv, SaveSyncInv, CopyProvenanceInv,
       NoProvenanceInv, BundleSyncInv, WriteManifestInv, WriteExactInv
    DEF RunnerStep
<1>3. CASE Operator
  BY <1>3, OperatorInv
<1>4. CASE Faults
  <2>1. ASSUME NEW p \in Procs, SolverFails(p) \/ Kill(p) PROVE Runs' /\ Books'
    <3>1. run[p].pc # "down" /\ Exit(p) /\ UNCHANGED <<seen, durable, announced>>
      BY <2>1 DEF SolverFails, Kill, files
    <3>2. QED
      BY <3>1, EndInv
  <2>2. QED
    BY <1>4, <2>1, PowerLossInv, FlushInv DEF Faults
<1>5. CASE UNCHANGED vars
  BY <1>5
  DEF vars, files, IInv, Runs, Books, Mutex, RunnerOK, BundleOK, Active, CheckpointFits,
      SavedResidues, ManifestOf, BoundToBinary, AnnouncedKept
<1>6. QED
  BY <1>1, <1>2, <1>3, <1>4, <1>5 DEF Next

LEMMA RunnersSafe == ASSUME ~RebuildWhileRunning PROVE Spec => []IInv
<1>1. IInv /\ [Next]_vars => IInv'
  BY StepInv
<1>2. QED
  BY <1>1, InitInv, PTL DEF Spec

-----------------------------------------------------------------------------
(***************************************************************************)
(* What follows from IInv. Standing, file by file:                         *)
(***************************************************************************)
Agrees(c, s, m, x) ==
    /\ m # None /\ Complete(m.res) /\ m.exact = ExactOf(m.res)
    /\ c # None /\ c = m.ckpt /\ c.sha = m.sha /\ c.res = m.res
    /\ x # None /\ x = m.exact
    /\ m.prov # None => s = m.prov /\ SidecarOf[m.prov] = m.sha

AllAgree ==
    \A c \in {seen.ckpt, durable.ckpt}, s \in {seen.prov, durable.prov},
       m \in {seen.manifest, durable.manifest}, x \in {seen.exact, durable.exact} :
        Agrees(c, s, m, x)

LEMMA StandingIs == Standing <=> AllAgree
<1>1. \A c, s, m, x :
         Accepts([ckpt |-> c, prov |-> s, manifest |-> m, exact |-> x])
            <=> Agrees(c, s, m, x)
  BY DEF Accepts, Agrees, ManifestHolds, CheckpointAgrees, MarkerAgrees, ProvenanceAgrees
<1>2. Standing <=>
         \A c \in {seen.ckpt, durable.ckpt}, s \in {seen.prov, durable.prov},
            m \in {seen.manifest, durable.manifest}, x \in {seen.exact, durable.exact} :
             Accepts([ckpt |-> c, prov |-> s, manifest |-> m, exact |-> x])
  <2>1. \A c \in {seen.ckpt, durable.ckpt}, s \in {seen.prov, durable.prov},
           m \in {seen.manifest, durable.manifest}, x \in {seen.exact, durable.exact} :
            [ckpt |-> c, prov |-> s, manifest |-> m, exact |-> x] \in Survivors
    BY DEF Survivors
  <2>2. \A d \in Survivors :
           \E c \in {seen.ckpt, durable.ckpt}, s \in {seen.prov, durable.prov},
              m \in {seen.manifest, durable.manifest}, x \in {seen.exact, durable.exact} :
               d = [ckpt |-> c, prov |-> s, manifest |-> m, exact |-> x]
    BY DEF Survivors
  <2>3. QED
    BY <2>1, <2>2 DEF Standing
<1>3. QED
  BY <1>1, <1>2, Zenon DEF AllAgree

LEMMA PublishedStands == IInv => PublishedIsDurable
<1> SUFFICES ASSUME IInv, NEW p \in Procs, run[p].pc = "published" PROVE Standing
  BY DEF PublishedIsDurable
<1>1. /\ run[p].ident = bin /\ CheckpointFits /\ run[p].res = SavedResidues
      /\ Complete(run[p].res) /\ seen.ckpt # None
      /\ run[p].sidecar # None =>
            seen.prov = run[p].sidecar /\ SidecarOf[run[p].sidecar] = bin
      /\ seen.manifest = ManifestOf(p) /\ seen.exact = ExactOf(run[p].res)
      /\ durable.ckpt = seen.ckpt /\ durable.prov = seen.prov
      /\ durable.manifest = seen.manifest /\ durable.exact = seen.exact
  BY DEF IInv, RunnerOK, BundleOK, Active, Bundling, ProvenanceDurable, ManifestWritten,
         ManifestDurable, MarkerWritten
<1>2. seen.manifest # None /\ seen.exact # None
  <2>1. run[p].ident \in Binaries /\ run[p].res \in Residues
           /\ run[p].sidecar \in Sidecars \cup {None} /\ bin \in Binaries
    BY <1>1 DEF IInv, TypeOK, Locals
  <2>2. seen.ckpt \in Checkpoints \cup {None} /\ ExactOf(run[p].res) \in Exacts
    BY <2>1 DEF IInv, TypeOK, FilesTypeOK, Directories, ExactOf, Exacts
  <2>3. ManifestOf(p) \in Manifests
    BY <2>1, <2>2 DEF ManifestOf, Manifests
  <2>4. QED
    BY <1>1, <2>2, <2>3, FilesAssumption
<1>3. Agrees(seen.ckpt, seen.prov, seen.manifest, seen.exact)
  BY <1>1, <1>2 DEF Agrees, ManifestOf, CheckpointFits, SavedResidues
<1>4. \A c \in {seen.ckpt, durable.ckpt}, s \in {seen.prov, durable.prov},
         m \in {seen.manifest, durable.manifest}, x \in {seen.exact, durable.exact} :
          c = seen.ckpt /\ s = seen.prov /\ m = seen.manifest /\ x = seen.exact
  BY <1>1
<1>5. QED
  BY <1>3, <1>4, StandingIs, Zenon DEF AllAgree

LEMMA AcceptedRight == BoundToBinary => AcceptedIsRight
<1> SUFFICES ASSUME BoundToBinary, NEW d \in Survivors, Accepts(d), d.manifest.sha \in Good
             PROVE  d.exact = Count
  BY DEF AcceptedIsRight
<1>1. d.ckpt \in {seen.ckpt, durable.ckpt} /\ d.ckpt # None
  BY DEF Survivors, Accepts, CheckpointAgrees
<1>2. \A q \in Prefix : d.ckpt.res[q] \in {d.ckpt.sha, None}
  BY <1>1 DEF BoundToBinary
<1>3. Complete(d.ckpt.res) /\ d.ckpt.sha \in Good
         /\ d.exact = ExactOf(d.ckpt.res)
  BY DEF Accepts, CheckpointAgrees, ManifestHolds, MarkerAgrees
<1>4. \A q \in Prefix : d.ckpt.res[q] \in Good
  BY <1>2, <1>3 DEF Complete, Have
<1>5. QED
  BY <1>3, <1>4 DEF ExactOf

(***************************************************************************)
(* A result that stands. A runner finds every residue there and computes   *)
(* nothing; the files it then writes are those the verifier already        *)
(* accepts.                                                                *)
(***************************************************************************)
LEMMA StandingNextIs == Standing' <=> AllAgree'
  BY StandingIs, PTL

\* Nothing new on disk.
LEMMA NothingNew ==
    ASSUME Standing,
           seen'.ckpt \in {seen.ckpt, durable.ckpt},
           seen'.prov \in {seen.prov, durable.prov},
           seen'.manifest \in {seen.manifest, durable.manifest},
           seen'.exact \in {seen.exact, durable.exact},
           durable'.ckpt \in {seen.ckpt, durable.ckpt},
           durable'.prov \in {seen.prov, durable.prov},
           durable'.manifest \in {seen.manifest, durable.manifest},
           durable'.exact \in {seen.exact, durable.exact}
    PROVE  Standing'
<1>1. AllAgree
  BY StandingIs
<1>2. AllAgree'
  BY <1>1 DEF AllAgree, Agrees
<1>3. QED
  BY <1>2, StandingNextIs

\* Both copies of each file are the same, but for a provenance nobody names.
LEMMA StandingFiles ==
    ASSUME Standing
    PROVE  /\ Agrees(seen.ckpt, seen.prov, seen.manifest, seen.exact)
           /\ durable.ckpt = seen.ckpt /\ durable.exact = seen.exact
           /\ Agrees(durable.ckpt, durable.prov, durable.manifest, durable.exact)
           /\ durable.manifest.res = seen.manifest.res
           /\ Complete(SavedResidues)
<1>1. AllAgree
  BY StandingIs
<1>2. /\ Agrees(seen.ckpt, seen.prov, seen.manifest, seen.exact)
      /\ Agrees(durable.ckpt, seen.prov, seen.manifest, seen.exact)
      /\ Agrees(seen.ckpt, seen.prov, seen.manifest, durable.exact)
      /\ Agrees(durable.ckpt, durable.prov, durable.manifest, durable.exact)
  BY <1>1, Zenon DEF AllAgree
<1>3. QED
  BY <1>2 DEF Agrees, SavedResidues

LEMMA NothingToSave ==
    ASSUME IInv, Standing, NEW p \in Procs, Active(p)
    PROVE  run[p].todo = {}
<1>1. Complete(run[p].res) /\ run[p].todo \cap Have(run[p].res) = {}
  BY StandingFiles DEF IInv, RunnerOK
<1>2. run[p].todo \subseteq Prefix
  BY DEF IInv, TypeOK, Locals
<1>3. QED
  BY <1>1, <1>2 DEF Complete

\* The copied provenance names the binary of the checkpoint: it is the same one.
LEMMA ProvenanceKept ==
    ASSUME SafeUse, IInv, Standing, NEW p \in Procs, CopyProvenance(p)
    PROVE  Standing'
<1>1. /\ side \in Sidecars /\ SidecarOf[side] = bin /\ seen.ckpt.sha = bin
      /\ seen \in Directories /\ seen' = [seen EXCEPT !.prov = side] /\ durable' = durable
  BY CompleteSaved
  DEF CopyProvenance, SidecarFits, Replace, Ready, IInv, TypeOK, FilesTypeOK, RunnerOK,
      Active, CheckpointFits
<1>2. AllAgree
  BY StandingIs
<1>3. ASSUME NEW c \in {seen.ckpt, durable.ckpt},
             NEW m \in {seen.manifest, durable.manifest},
             NEW x \in {seen.exact, durable.exact}
      PROVE  Agrees(c, side, m, x)
  <2>1. Agrees(c, seen.prov, m, x) /\ c = seen.ckpt
    BY <1>2, StandingFiles DEF AllAgree
  <2>2. m.prov # None => m.prov \in Sidecars /\ SidecarOf[m.prov] = bin
    <3>1. m \in Manifests \cup {None}
      BY DEF IInv, TypeOK, FilesTypeOK, Directories
    <3>2. m \in Manifests
      BY <2>1, <3>1 DEF Agrees
    <3>3. m.prov \in Sidecars \cup {None}
      BY <3>2 DEF Manifests
    <3>4. QED
      BY <1>1, <2>1, <3>3 DEF Agrees
  <2>3. m.prov # None => m.prov = side
    BY <1>1, <2>2 DEF SafeUse
  <2>4. QED
    BY <2>1, <2>3 DEF Agrees
<1>4. /\ seen'.ckpt = seen.ckpt /\ seen'.prov = side
      /\ seen'.manifest = seen.manifest /\ seen'.exact = seen.exact
  BY <1>1 DEF Directories
<1>5. ASSUME NEW c \in {seen.ckpt, durable.ckpt}, NEW s \in {side, durable.prov},
             NEW m \in {seen.manifest, durable.manifest},
             NEW x \in {seen.exact, durable.exact}
      PROVE  Agrees(c, s, m, x)
  BY <1>2, <1>3 DEF AllAgree
<1>6. AllAgree'
  BY <1>1, <1>4, <1>5 DEF AllAgree, Agrees
<1>7. QED
  BY <1>6, StandingNextIs

LEMMA ManifestKept ==
    ASSUME IInv, Standing, NEW p \in Procs, WriteManifest(p)
    PROVE  Standing'
<1> DEFINE new == ManifestOf(p)
<1>1. /\ run[p].ident = bin /\ run[p].res = SavedResidues /\ seen.ckpt # None
      /\ seen.ckpt.sha = bin /\ Complete(run[p].res)
      /\ run[p].sidecar # None =>
            /\ seen.prov = run[p].sidecar /\ durable.prov = run[p].sidecar
            /\ SidecarOf[run[p].sidecar] = bin
  BY DEF WriteManifest, IInv, RunnerOK, BundleOK, Active, CheckpointFits, Bundling,
         ProvenanceDurable
<1>2. /\ seen \in Directories /\ seen' = [seen EXCEPT !.manifest = new]
      /\ durable' = durable /\ new \in Manifests
  <2>1. run[p].ident \in Binaries /\ run[p].res \in Residues
           /\ run[p].sidecar \in Sidecars \cup {None}
    BY <1>1 DEF IInv, TypeOK, Locals
  <2>2. seen.ckpt \in Checkpoints \cup {None} /\ ExactOf(run[p].res) \in Exacts
    BY <2>1 DEF IInv, TypeOK, FilesTypeOK, Directories, ExactOf, Exacts
  <2>3. QED
    BY <2>1, <2>2
    DEF WriteManifest, Replace, ManifestOf, Manifests, IInv, TypeOK, FilesTypeOK
<1>3. new # None
  BY <1>2, FilesAssumption
<1>4. /\ durable.ckpt = seen.ckpt /\ durable.exact = seen.exact /\ seen.exact # None
      /\ seen.exact = ExactOf(seen.ckpt.res)
  BY StandingFiles DEF Agrees
<1>5. Agrees(seen.ckpt, seen.prov, new, seen.exact)
         /\ Agrees(seen.ckpt, durable.prov, new, seen.exact)
  BY <1>1, <1>3, <1>4 DEF Agrees, ManifestOf, SavedResidues
<1> HIDE DEF new
<1>6. /\ seen'.ckpt = seen.ckpt /\ seen'.prov = seen.prov
      /\ seen'.manifest = new /\ seen'.exact = seen.exact
  BY <1>2 DEF Directories
<1>7. AllAgree
  BY StandingIs
<1>8. ASSUME NEW c \in {seen.ckpt, durable.ckpt}, NEW s \in {seen.prov, durable.prov},
             NEW m \in {new, durable.manifest},
             NEW x \in {seen.exact, durable.exact}
      PROVE  Agrees(c, s, m, x)
  BY <1>4, <1>5, <1>7 DEF AllAgree
<1>9. AllAgree'
  BY <1>2, <1>6, <1>8 DEF AllAgree, Agrees
<1>10. QED
  BY <1>9, StandingNextIs

LEMMA ExactKept ==
    ASSUME IInv, Standing, NEW p \in Procs, WriteExact(p)
    PROVE  Standing'
<1>1. run[p].res = SavedResidues
  BY DEF WriteExact, IInv, RunnerOK, Active
<1>2. ExactOf(run[p].res) = seen.exact
  BY <1>1, StandingFiles DEF Agrees, SavedResidues
<1>3. seen \in Directories /\ seen' = [seen EXCEPT !.exact = seen.exact]
         /\ durable' = durable
  BY <1>2 DEF WriteExact, Replace, IInv, TypeOK, FilesTypeOK
<1>4. seen' = seen
  BY <1>3 DEF Directories
<1>5. QED
  BY <1>3, <1>4, NothingNew

LEMMA StandingStep ==
    SafeUse /\ IInv /\ Standing /\ [Next]_vars => Standing' \/ RemoveCheckpoint
<1> SUFFICES ASSUME SafeUse, IInv, Standing, [Next]_vars, ~RemoveCheckpoint
             PROVE  Standing'
  OBVIOUS
<1>1. CASE UNCHANGED files
  BY <1>1, NothingNew DEF files
<1>2. CASE SyncDirectory \/ LoseUnsynced
  BY <1>2, NothingNew DEF SyncDirectory, LoseUnsynced
<1>3. ASSUME NEW p \in Procs, RunnerStep(p) PROVE Standing'
  <2>1. ~SolveOne(p) /\ ~ReadLine(p)
    BY NothingToSave DEF SolveOne, ReadLine, Active
  <2>2. CASE CopyProvenance(p) \/ WriteManifest(p) \/ WriteExact(p)
    BY <2>2, ProvenanceKept, ManifestKept, ExactKept
  <2>3. CASE SaveSync(p) \/ ProvenanceSync(p) \/ ManifestSync(p) \/ ExactSync(p)
    BY <2>3, <1>2 DEF SaveSync, ProvenanceSync, ManifestSync, ExactSync
  <2>4. CASE Start(p) \/ StartRefused(p) \/ Spawn(p) \/ StopPartial(p) \/ ResultRefused(p)
                \/ NoProvenance(p) \/ Report(p)
    BY <2>4, <1>1
    DEF Start, StartRefused, Spawn, StopPartial, ResultRefused, NoProvenance, Report
  <2>5. QED
    BY <1>3, <2>1, <2>2, <2>3, <2>4 DEF RunnerStep
<1>4. CASE LaunchSome \/ Operator
  BY <1>4, <1>1 DEF LaunchSome, Launch, Operator, Rebuild, RebuildSidecar
<1>5. ASSUME NEW file \in FileNames, Flush(file) PROVE Standing'
  <2>1. durable \in Directories /\ seen' = seen
           /\ durable' = [durable EXCEPT ![file] = seen[file]]
    BY <1>5 DEF Flush, WriteBack, IInv, TypeOK, FilesTypeOK
  <2>2. /\ durable'.ckpt \in {durable.ckpt, seen.ckpt}
        /\ durable'.prov \in {durable.prov, seen.prov}
        /\ durable'.manifest \in {durable.manifest, seen.manifest}
        /\ durable'.exact \in {durable.exact, seen.exact}
    BY <2>1 DEF Directories, FileNames
  <2>3. QED
    BY <2>1, <2>2, NothingNew
<1>6. CASE Faults
  BY <1>1, <1>2, <1>5, <1>6 DEF Faults, SolverFails, Kill, PowerLoss
<1>7. CASE UNCHANGED vars
  BY <1>1, <1>7 DEF vars
<1>8. QED
  BY <1>3, <1>4, <1>6, <1>7 DEF Next

-----------------------------------------------------------------------------
(***************************************************************************)
(* The residues of a checkpoint were computed by the binary it names, as   *)
(* long as the binary is not rebuilt under a running runner. This is the   *)
(* assumption the code makes when it hashes the binary once and then runs  *)
(* it by its path; without it the theorem is false.                        *)
(***************************************************************************)
THEOREM CheckpointsBound == ASSUME ~RebuildWhileRunning PROVE Spec => []BoundToBinary
<1>1. IInv => BoundToBinary
  BY DEF IInv
<1>2. QED
  BY <1>1, RunnersSafe, PTL

(***************************************************************************)
(* The verifier accepts no wrong value from a good binary, whatever        *)
(* mixture of old and new files a power loss leaves.                       *)
(***************************************************************************)
THEOREM AcceptedValueRight == ASSUME ~RebuildWhileRunning PROVE Spec => []AcceptedIsRight
<1>1. QED
  BY CheckpointsBound, AcceptedRight, PTL

(***************************************************************************)
(* The result of a runner that reports success would survive a power loss. *)
(***************************************************************************)
THEOREM SuccessDurable == ASSUME ~RebuildWhileRunning PROVE Spec => []PublishedIsDurable
<1>1. QED
  BY RunnersSafe, PublishedStands, PTL

(***************************************************************************)
(* No residue reported as done is lost.                                    *)
(***************************************************************************)
THEOREM NoResidueLost == ASSUME ~RebuildWhileRunning PROVE Spec => []AnnouncedKept
<1>1. IInv => AnnouncedKept
  BY DEF IInv
<1>2. QED
  BY <1>1, RunnersSafe, PTL

(***************************************************************************)
(* A result that stands goes on standing through any number of repeated,   *)
(* interrupted and concurrent runs, if a build of one binary always writes *)
(* the same sidecar.                                                       *)
(***************************************************************************)
THEOREM StandingResultKept == ASSUME SafeUse PROVE Spec => ResultKept
<1>1. ~RebuildWhileRunning
  BY DEF SafeUse
<1>2. Spec => []IInv
  BY <1>1, RunnersSafe
<1>3. IInv /\ [Next]_vars => [Standing => Standing' \/ RemoveCheckpoint]_vars
  BY StandingStep
<1>4. QED
  BY <1>2, <1>3, PTL DEF Spec, ResultKept
=============================================================================
