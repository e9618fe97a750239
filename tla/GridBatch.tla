------------------------------ MODULE GridBatch ------------------------------
(***************************************************************************)
(* The group-batch scheduler with the work main gives it: the plan of a    *)
(* row of the W x W grid, the kernels of its two windows, the first row    *)
(* before and the last row after them.                                     *)
(***************************************************************************)
EXTENDS GroupBatch, BatchPlan

CONSTANT Mods   \* the modulus of each residue

\* init_after_first_row_kernel
FirstCounts == [c \in Ranks |-> IF c \in FirstRowCells THEN 1 ELSE 0]

\* The windows of a row, and what each does to the cells of a buffer.
RowFlow == [w \in 1 .. 2 |-> Flow(Hi(w), Lo(w))]
RowWindow(r, w, v) == WindowSteps(Mods[r], RowFlow[w], v)

\* sum_first_row_states_kernel
LastRowSum(r, v) == SumFunctionOnSet(v, FirstRowCells) % Mods[r]

(***************************************************************************)
(* What main makes of its arguments. A modulus is at least 2, a row has    *)
(* two windows, all rows but the first and the last are processed, and     *)
(* the plan is the one of BatchPlan for groups that fit; the kernels are   *)
(* those of the windows. The ideal vector is what the windows one after    *)
(* the other make of the whole first row, and the answer the number of     *)
(* paths that the recursion gives.                                         *)
(***************************************************************************)
ASSUME SolverAssumption ==
    /\ DOMAIN Mods = 1 .. Residues /\ \A r \in 1 .. Residues : Mods[r] \in Nat \ {0, 1}
    /\ Wins = 2 /\ Rows = W - 2
    /\ Devices = 1 .. GPUs /\ Cells = Ranks
    /\ \A w \in 1 .. 2 : Fits(Groups(w))
    /\ Batches = ScheduleBatches /\ WinOf = ScheduleWin
    /\ CellsOf = ScheduleCells /\ Size = ScheduleSize
    /\ Listed = ScheduleListed /\ Order = ScheduleOrder /\ FirstOwner = ScheduleOwner
    /\ \A r \in 1 .. Residues :
          /\ FirstRow(r) = FirstCounts /\ Ideal(r, 0) = FirstCounts
          /\ \A j \in 1 .. Rows * Wins :
                LET w == ((j - 1) % Wins) + 1
                    before == Ideal(r, j - 1)
                IN  /\ Ideal(r, j) = RowWindow(r, w, before)
                    /\ \A b \in BatchesOf(w) :
                          Kernel(r, b, Slice(before, b)) = RowWindow(r, w, Slice(before, b))
          /\ Final(r, Ideal(r, Rows * Wins)) = LastRowSum(r, Ideal(r, Rows * Wins))
          /\ Answer(r) = PathCount(W, W) % Mods[r]

-----------------------------------------------------------------------------
(***************************************************************************)
(* Groups are closed, whatever the window: what flows into a slot of a     *)
(* group in any of the window's edges comes from the group, so that groups *)
(* may be worked on in any order and at once. With it, batches worked on   *)
(* alone make of the first row what windows of the whole vector would, and *)
(* the last vector adds up to the number of paths. Nothing of this changes *)
(* from state to state: it is looked at where the run begins.              *)
(***************************************************************************)
GroupsClosed ==
    stage = "begin" /\ ri = 1 =>
        /\ \A p_hi \in 1 .. W - 1 : \A p_lo \in 1 .. p_hi :
              \A occ \in SUBSET window_candidates(p_hi, p_lo) :
                 Closed(p_hi, p_lo, occ)
        /\ \A r \in 1 .. Residues : KernelCorrect(r) /\ AnswerCorrect(r)
=============================================================================
