------------------------- MODULE WindowCommitProofs -------------------------
(***************************************************************************)
(* Proofs about the abstract store: whatever groups commit together, and   *)
(* whatever is discarded, the vector is the result of applying each window *)
(* once to each slot.                                                      *)
(***************************************************************************)
EXTENDS WindowCommit, TLAPS

\* What the control part of the state must satisfy for the vector to make sense.
Position ==
    /\ open => mod \in Mods /\ win \in Windows
    /\ complete => open /\ win = NW /\ done = Groups

Inv == TypeOK /\ Position /\ AppliedOnce

LEMMA IdealIsValue ==
  /\ Start \in Values
  /\ \A m \in Mods, w \in 0 .. NW : Ideal(m, w) \in Values
  BY StoreAssumption DEF Values, Ideal, Windows, Start

LEMMA StartImage == [c \in Cells |-> Start] \in Images
  BY IdealIsValue DEF Images

(***************************************************************************)
(* A kernel turns the input of its group into its output when the slots    *)
(* of the group all hold the input.                                        *)
(***************************************************************************)
LEMMA KernelAdvances ==
  ASSUME NEW m \in Mods, NEW w \in Windows, NEW g \in Groups, NEW in \in Images,
         \A d \in CellsOf(w, g) : in[d] = Ideal(m, w - 1)
  PROVE  \A c \in CellsOf(w, g) : Kernel(m, w, g, in)[c] = Ideal(m, w)
  BY DEF Kernel, CellsOf

\* A slot's group owns it.
LEMMA NotTrivial == \A w \in Windows, c \in Cells : Own[w][c] \in Groups /\ Own[w][c] \notin Trivial(w)
  BY StoreAssumption DEF Trivial, CellsOf

LEMMA InitInv == Init => Inv
  <1>1. 0 \in 0 .. NW
    BY StoreAssumption
  <1>2. QED
    BY <1>1, StartImage DEF Init, Closed, Inv, TypeOK, Position, AppliedOnce

LEMMA BeginInv == Inv /\ Begin => Inv'
  <1>1. SUFFICES ASSUME Inv, Begin PROVE Inv'
    OBVIOUS
  <1>2. 1 \in Windows /\ 1 \in 0 .. NW /\ 1 - 1 = 0
    BY StoreAssumption DEF Windows
  <1>3. TypeOK' /\ Position'
    BY <1>1, <1>2, StartImage DEF Begin, TypeOK, Position, Trivial
  <1>4. AppliedOnce'
    BY <1>1, <1>2, NotTrivial DEF Begin, AppliedOnce, Ideal
  <1>5. QED
    BY <1>3, <1>4 DEF Inv

LEMMA DiscardInv == Inv /\ Discard => Inv'
  <1>1. 0 \in 0 .. NW
    BY StoreAssumption
  <1>2. QED
    BY <1>1, StartImage DEF Discard, Inv, TypeOK, Position, AppliedOnce

LEMMA CommitInv ==
  ASSUME Inv, NEW S \in SUBSET (Groups \ done), Commit(S)
  PROVE  Inv'
  <1>1. mod \in Mods /\ win \in Windows /\ open
    BY DEF Inv, Position, Commit
  <1>2. \A c \in Cells : Own[win][c] \in Groups
    BY <1>1, StoreAssumption
  <1>3. \A c \in Cells : val'[c] = Ideal(mod, IF Own[win][c] \in done \cup S THEN win
                                              ELSE win - 1)
    <2>1. SUFFICES ASSUME NEW c \in Cells
                   PROVE  val'[c] = Ideal(mod, IF Own[win][c] \in done \cup S THEN win
                                               ELSE win - 1)
      OBVIOUS
    <2>2. val'[c] = IF Own[win][c] \in S THEN Kernel(mod, win, Own[win][c], val)[c]
                    ELSE val[c]
      BY DEF Commit, Applied
    <2>3. CASE Own[win][c] \in S
      <3>1. \A d \in CellsOf(win, Own[win][c]) : val[d] = Ideal(mod, win - 1)
        BY <1>1, <2>3 DEF CellsOf, Inv, AppliedOnce
      <3>2. c \in CellsOf(win, Own[win][c]) /\ val \in Images
        BY DEF CellsOf, Inv, TypeOK
      <3>3. Kernel(mod, win, Own[win][c], val)[c] = Ideal(mod, win)
        BY <1>1, <1>2, <3>1, <3>2, KernelAdvances
      <3>4. QED
        BY <2>2, <2>3, <3>3
    <2>4. CASE Own[win][c] \notin S
      BY <1>1, <2>2, <2>4 DEF Inv, AppliedOnce
    <2>5. QED
      BY <2>3, <2>4
  <1>4. val' \in Images
    <2>1. win \in 0 .. NW /\ win - 1 \in 0 .. NW
      BY <1>1, StoreAssumption DEF Windows
    <2>2. \A c \in Cells : val'[c] \in Values
      BY <1>1, <1>3, <2>1, IdealIsValue
    <2>3. val' = [c \in Cells |-> val'[c]]
      BY DEF Commit, Applied
    <2>4. QED
      BY <2>2, <2>3 DEF Images
  <1>5. TypeOK' /\ Position'
    <2>1. done' \subseteq Groups
      BY DEF Commit, Inv, TypeOK, Trivial
    <2>2. win' \in Windows /\ win' \in 0 .. NW
      BY <1>1, StoreAssumption DEF Commit, Windows
    <2>3. complete' \in BOOLEAN /\ (complete' => win' = NW /\ done' = Groups)
      <3>1. CASE UNCHANGED complete
        BY <3>1 DEF Commit, Inv, TypeOK
      <3>2. CASE complete' = TRUE /\ done' = Groups /\ win = NW /\ UNCHANGED win
        BY <3>2
      <3>3. QED
        BY <3>1, <3>2 DEF Commit
    <2>4. QED
      BY <1>1, <1>4, <2>1, <2>2, <2>3 DEF Commit, Inv, TypeOK, Position
  <1>6. AppliedOnce'
    <2>1. CASE done' = done \cup S /\ UNCHANGED <<win, complete>>
      BY <1>1, <1>3, <2>1 DEF Commit, AppliedOnce
    <2>2. CASE /\ done \cup S = Groups /\ win < NW /\ win' = win + 1
               /\ done' \in SUBSET Trivial(win + 1)
      <3>1. win' \in Windows /\ win' - 1 = win
        BY <1>1, <2>2, StoreAssumption DEF Windows
      <3>2. \A c \in Cells : Own[win'][c] \notin done'
        BY <2>2, <3>1, NotTrivial
      <3>3. \A c \in Cells : val'[c] = Ideal(mod, win)
        BY <1>2, <1>3, <2>2
      <3>4. QED
        BY <1>1, <3>1, <3>2, <3>3 DEF Commit, AppliedOnce
    <2>3. CASE done \cup S = Groups /\ done' = Groups /\ win' = win
      BY <1>1, <1>3, <2>3 DEF Commit, AppliedOnce
    <2>4. QED
      BY <2>1, <2>2, <2>3 DEF Commit
  <1>7. QED
    BY <1>5, <1>6 DEF Inv

LEMMA NextInv == Inv /\ [Next]_vars => Inv'
  <1>1. CASE UNCHANGED vars
    BY <1>1 DEF vars, Inv, TypeOK, Position, AppliedOnce
  <1>2. CASE Next
    BY <1>2, BeginInv, CommitInv, DiscardInv DEF Next
  <1>3. QED
    BY <1>1, <1>2

(***************************************************************************)
(* The slots of a group that is done have had the current window applied   *)
(* and the others only the windows before it; with every group done in the *)
(* last window, the vector is the final one.                               *)
(***************************************************************************)
THEOREM WindowsAppliedOnce == Spec => [](AppliedOnce /\ CompleteIsFinal)
  <1>1. Inv => AppliedOnce /\ CompleteIsFinal
    <2>1. SUFFICES ASSUME Inv, complete, NEW c \in Cells PROVE val[c] = Ideal(mod, NW)
      BY DEF Inv, CompleteIsFinal
    <2>2. open /\ win = NW /\ win \in Windows /\ done = Groups
      BY <2>1 DEF Inv, Position
    <2>3. Own[win][c] \in done
      BY <2>2, StoreAssumption
    <2>4. QED
      BY <2>1, <2>2, <2>3 DEF Inv, AppliedOnce
  <1>2. QED
    BY <1>1, InitInv, NextInv, PTL DEF Spec
=============================================================================
