---------------------------- MODULE MCHashFrontier ----------------------------
(***************************************************************************)
(* The 3 x 3 grid, with a hash that sends most keys to few slots.          *)
(***************************************************************************)
EXTENDS HashFrontier, TLC

MCHash(key) == Cardinality(key.comps)
=============================================================================
