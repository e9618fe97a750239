----------------------------- MODULE ExactRunInv -----------------------------
(***************************************************************************)
(* Why the result of ExactRun stands: what the lock, the checkpoint and    *)
(* the order of the writes guarantee at each point of a runner.            *)
(***************************************************************************)
EXTENDS ExactRun

Mutex == \A p \in Procs : run[p].pc # "down" => lock = p

(***************************************************************************)
(* How far a runner has come with the bundle.                              *)
(***************************************************************************)
MarkerWritten == {"marked", "published"}
ManifestDurable == {"mark"} \cup MarkerWritten
ManifestWritten == {"manifested"} \cup ManifestDurable
ProvenanceDurable == {"manifest"} \cup ManifestWritten
Bundling == {"provenance"} \cup ProvenanceDurable

(***************************************************************************)
(* A runner that has read the checkpoint holds its residues, and so has    *)
(* only primes without one to compute; the binary is the one it hashed.    *)
(***************************************************************************)
Active(p) == run[p].pc \notin {"down", "start"}

RunnerOK(p) ==
    /\ ~Active(p) => run[p].child = None
    /\ run[p].pc \notin Bundling => run[p].sidecar = None
    /\ Active(p) =>
          /\ run[p].ident = bin /\ run[p].child \in {bin, None}
          /\ CheckpointFits
          /\ run[p].res = SavedResidues
          /\ run[p].todo \cap Have(run[p].res) = {}

ManifestOf(p) ==
    [sha |-> run[p].ident, res |-> run[p].res, ckpt |-> seen.ckpt,
     prov |-> run[p].sidecar, exact |-> ExactOf(run[p].res)]

(***************************************************************************)
(* The bundle, file by file: what a runner has written at each of its      *)
(* points, and what of it is durable.                                      *)
(***************************************************************************)
BundleOK(p) ==
    /\ run[p].pc \in Bundling =>
          /\ Complete(run[p].res) /\ seen.ckpt # None
          /\ run[p].sidecar # None =>
                seen.prov = run[p].sidecar /\ SidecarOf[run[p].sidecar] = bin
    /\ run[p].pc \in ProvenanceDurable /\ run[p].sidecar # None => durable.prov = seen.prov
    /\ run[p].pc \in ManifestWritten => seen.manifest = ManifestOf(p)
    /\ run[p].pc \in ManifestDurable =>
          /\ durable.ckpt = seen.ckpt /\ durable.prov = seen.prov
          /\ durable.manifest = seen.manifest
    /\ run[p].pc \in MarkerWritten => seen.exact = ExactOf(run[p].res)
    /\ run[p].pc = "published" => durable.exact = seen.exact

IInv ==
    /\ TypeOK
    /\ Mutex
    /\ \A p \in Procs : RunnerOK(p) /\ BundleOK(p)
    /\ BoundToBinary
    /\ AnnouncedKept
=============================================================================
