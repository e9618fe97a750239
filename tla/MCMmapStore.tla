---------------------------- MODULE MCMmapStore ----------------------------
(***************************************************************************)
(* Two windows over two main and two blocked slots. The slots of a file    *)
(* share a page, so a page holds slots of different groups. The partition  *)
(* changes from one window to the next.                                    *)
(***************************************************************************)
EXTENDS MmapStoreInv, Sequences, TLC

CONSTANTS g1, g2, m1, m2, b1, b2

MCGroups == {g1, g2}
MCMain == {m1, m2}
MCBlock == {b1, b2}
MCPages == {"pm", "pb"}
MCPageOf == [c \in MCMain \cup MCBlock |-> IF c \in MCMain THEN "pm" ELSE "pb"]

\* Each group owns a slot of each file; the pairing differs in window 2.
MCOwnPaired ==
    <<(m1 :> g1) @@ (m2 :> g2) @@ (b1 :> g1) @@ (b2 :> g2),
      (m1 :> g1) @@ (m2 :> g2) @@ (b1 :> g2) @@ (b2 :> g1)>>

\* Before them, a window in which g2 owns nothing.
MCOwnEmpty == <<[c \in MCMain \cup MCBlock |-> g1]>> \o MCOwnPaired
=============================================================================
