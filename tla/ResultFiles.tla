----------------------------- MODULE ResultFiles -----------------------------
(***************************************************************************)
(* The work directory of an exact count: checkpoint.json with the residues *)
(* computed so far, and the result bundle (the copy of the build           *)
(* provenance, exact_manifest.json, exact.txt), each file as processes see *)
(* it and as a power loss would leave it; and the verifier that judges the *)
(* bundle (scripts/tools/verify_exact_result.py).                          *)
(*                                                                         *)
(* A SHA-256 is the content it is taken of. A residue is the binary that   *)
(* computed it: that tells right from wrong and mixed from pure. Walls and *)
(* logs are left out, so that the verifier here accepts a little more than *)
(* the real one. The primes are the prefix of the table that the path      *)
(* bound calls for; the product of fewer does not exceed the bound.        *)
(***************************************************************************)
EXTENDS Integers, FiniteSets

CONSTANTS
    K,          \* the length of the prefix
    Binaries,   \* solver binaries, each by its hash
    Good,       \* those that compute right residues
    Sidecars,   \* build provenance files (<binary>.provenance.json)
    SidecarOf,  \* the binary each of them names
    Count,      \* the number of paths
    None        \* no file, no residue, no process

Prefix == 1 .. K

Residues == [Prefix -> Binaries \cup {None}]
Checkpoints == [sha : Binaries, res : Residues]
Exacts == {Count} \cup Residues
Manifests == [sha : Binaries, res : Residues, ckpt : Checkpoints \cup {None},
              prov : Sidecars \cup {None}, exact : Exacts]

ASSUME FilesAssumption ==
    /\ K \in Nat \ {0}
    /\ Good \subseteq Binaries
    /\ SidecarOf \in [Sidecars -> Binaries]
    /\ None \notin Binaries \cup Sidecars \cup Checkpoints \cup Manifests \cup Exacts
    /\ Count \notin Residues

NoResidues == [q \in Prefix |-> None]
Have(res) == {q \in Prefix : res[q] # None}
Complete(res) == Have(res) = Prefix

\* Mutant of FirstMissing: one prime more than the bound calls for.
FirstMissingOnePast(res, lim) ==
    LET missing == 1 .. K + 1 \ Have(res)
    IN  {q \in missing : lim = 0 \/ Cardinality({r \in missing : r < q}) < lim}

\* The primes without a residue, the first lim of them, or all when lim is 0.
FirstMissing(res, lim) ==
    LET missing == Prefix \ Have(res)
    IN  {q \in missing : lim = 0 \/ Cardinality({r \in missing : r < q}) < lim}

(***************************************************************************)
(* The Chinese remainder theorem: residues of the count give the count,    *)
(* the only number below the bound that has them; others give another      *)
(* number.                                                                 *)
(***************************************************************************)
ExactOf(res) == IF \A q \in Prefix : res[q] \in Good THEN Count ELSE res

-----------------------------------------------------------------------------
VARIABLES
    seen,     \* the files of the work directory as processes see them
    durable   \* the files as a power loss leaves them

files == <<seen, durable>>

FileNames == {"ckpt", "prov", "manifest", "exact"}

Directories == [ckpt : Checkpoints \cup {None}, prov : Sidecars \cup {None},
                manifest : Manifests \cup {None}, exact : Exacts \cup {None}]

FilesTypeOK == seen \in Directories /\ durable \in Directories

EmptyDirectory == [ckpt |-> None, prov |-> None, manifest |-> None, exact |-> None]

FilesInit == seen = EmptyDirectory /\ durable = EmptyDirectory

(***************************************************************************)
(* _durable_atomic_write: the temporary file is synced, then renamed over  *)
(* the old one, then the directory is synced. All files share a directory, *)
(* so its fsync makes every earlier rename in it durable.                  *)
(***************************************************************************)
Replace(file, content) == seen' = [seen EXCEPT ![file] = content] /\ UNCHANGED durable
SyncDirectory == durable' = seen /\ UNCHANGED seen

\* A rename may also reach the disk on its own, in any order.
WriteBack(file) ==
    /\ durable[file] # seen[file]
    /\ durable' = [durable EXCEPT ![file] = seen[file]]
    /\ UNCHANGED seen

LoseUnsynced == seen' = durable /\ UNCHANGED durable

\* What may be left: each file as it was last synced, or as it is now.
Survivors ==
    {[ckpt |-> c, prov |-> s, manifest |-> m, exact |-> x] :
        c \in {seen.ckpt, durable.ckpt}, s \in {seen.prov, durable.prov},
        m \in {seen.manifest, durable.manifest}, x \in {seen.exact, durable.exact}}

(***************************************************************************)
(* verify(): the manifest is complete and its exact value follows from its *)
(* residues; the checkpoint, exact.txt and the provenance beside it are    *)
(* the ones it names, by content.                                          *)
(***************************************************************************)
ManifestHolds(m) == Complete(m.res) /\ m.exact = ExactOf(m.res)

CheckpointAgrees(d) ==
    LET m == d.manifest
    IN  d.ckpt # None /\ d.ckpt = m.ckpt /\ d.ckpt.sha = m.sha /\ d.ckpt.res = m.res

\* Mutant of MarkerAgrees: exact.txt only has to be there.
MarkerPresent(d) == d.exact # None

MarkerAgrees(d) == d.exact # None /\ d.exact = d.manifest.exact

ProvenanceAgrees(d) ==
    LET m == d.manifest
    IN  m.prov # None => d.prov = m.prov /\ SidecarOf[m.prov] = m.sha

Accepts(d) ==
    /\ d.manifest # None
    /\ ManifestHolds(d.manifest)
    /\ CheckpointAgrees(d) /\ MarkerAgrees(d) /\ ProvenanceAgrees(d)
=============================================================================
