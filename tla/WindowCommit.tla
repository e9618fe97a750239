---------------------------- MODULE WindowCommit ----------------------------
(***************************************************************************)
(* What the mmap backend promises (docs/multigpu-mmap.md): the store is a  *)
(* vector to which every window is applied, once, one whole transition     *)
(* group at a time, whatever crashes happen in between.                    *)
(***************************************************************************)
EXTENDS StoreData

CONSTANT MayDiscard   \* GRIDFP_FRESH=1 may be used

VARIABLES
    open,      \* a checkpoint exists
    mod,       \* the modulus it is bound to
    win,       \* its window
    done,      \* the groups of the window already applied
    complete,  \* the run is over
    val        \* the vector

vars == <<open, mod, win, done, complete, val>>

TypeOK ==
    /\ open \in BOOLEAN /\ complete \in BOOLEAN
    /\ mod \in Mods \cup {NoMod}
    /\ win \in 0 .. NW
    /\ done \subseteq Groups
    /\ val \in Images

Closed == open = FALSE /\ mod = NoMod /\ win = 0 /\ done = {} /\ complete = FALSE

Init == Closed /\ val = [c \in Cells |-> Start]

\* The groups of a window that own no slot: they may count as done at any time.
Trivial(w) == {g \in Groups : CellsOf(w, g) = {}}

Begin ==
    /\ ~open
    /\ open' = TRUE
    /\ mod' \in Mods
    /\ win' = 1 /\ done' \in SUBSET Trivial(1) /\ complete' = FALSE
    /\ val' = [c \in Cells |-> Start]

\* The vector with the groups S of the current window applied to it.
Applied(S) ==
    [c \in Cells |-> LET g == Own[win][c]
                     IN  IF g \in S THEN Kernel(mod, win, g, val)[c] ELSE val[c]]

(***************************************************************************)
(* Some groups commit, each as a whole; with the last one the run may move *)
(* on to the next window, or be complete, in the same step.                *)
(***************************************************************************)
Commit(S) ==
    /\ open /\ ~complete
    /\ val' = Applied(S)
    /\ \/ /\ done' = done \cup S
          /\ UNCHANGED <<win, complete>>
       \/ /\ done \cup S = Groups /\ win < NW
          /\ win' = win + 1 /\ done' \in SUBSET Trivial(win + 1)
          /\ UNCHANGED complete
       \/ /\ done \cup S = Groups /\ win = NW
          /\ complete' = TRUE /\ done' = Groups
          /\ UNCHANGED win
    /\ UNCHANGED <<open, mod>>

Discard ==
    /\ MayDiscard /\ open
    /\ open' = FALSE /\ mod' = NoMod /\ win' = 0 /\ done' = {} /\ complete' = FALSE
    /\ val' = [c \in Cells |-> Start]

Next == Begin \/ (\E S \in SUBSET (Groups \ done) : Commit(S)) \/ Discard

Spec == Init /\ [][Next]_vars

(***************************************************************************)
(* Slots of done groups have had the current window applied, the others    *)
(* only the windows before it. A complete vector has had them all.         *)
(***************************************************************************)
AppliedOnce ==
    IF open
    THEN \A c \in Cells :
            val[c] = Ideal(mod, IF Own[win][c] \in done THEN win ELSE win - 1)
    ELSE \A c \in Cells : val[c] = Start

CompleteIsFinal == complete => \A c \in Cells : val[c] = Ideal(mod, NW)
=============================================================================
