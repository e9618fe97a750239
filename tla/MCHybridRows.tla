----------------------------- MODULE MCHybridRows -----------------------------
(***************************************************************************)
(* Two workers in each pool; two HIGH groups on the CPU and one on the     *)
(* GPU; three LOW groups, two of them with the same worker when the        *)
(* schedule is static.                                                     *)
(***************************************************************************)
EXTENDS HybridRows, TLC

CONSTANTS h1, h2, l1, l2, g1, g2, g3, k1, k2, k3

MCPoolOf == (h1 :> High) @@ (h2 :> High) @@ (l1 :> Low) @@ (l2 :> Low)
MCContents == (HighList :> Selected) @@ (LowList :> LowGroups)
MCAnswer == <<g1, k1>>

\* The jobs of a vector by size, and who has which when the schedule is static.
BySize == (HighList :> <<g1, g2>>) @@ (LowList :> <<k1, k2, k3>>)
Largest == (HighList :> <<g1>>) @@ (LowList :> <<k1>>)
Smaller == (HighList :> <<g2>>) @@ (LowList :> <<k2, k3>>)

MCPlan == [l \in Lists |-> [q \in Queues |-> IF q \in Pools THEN BySize[l]
                                             ELSE IF q \in {h1, l1} THEN Largest[l]
                                             ELSE Smaller[l]]]
=============================================================================
