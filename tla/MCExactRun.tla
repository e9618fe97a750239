------------------------------ MODULE MCExactRun ------------------------------
(***************************************************************************)
(* Two primes; a good binary and a bad one, each with its sidecar.         *)
(***************************************************************************)
EXTENDS ExactRunInv, TLC

CONSTANTS good, bad, sg, sb

MCSidecarOf == (sg :> good) @@ (sb :> bad)
=============================================================================
