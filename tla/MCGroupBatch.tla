----------------------------- MODULE MCGroupBatch -----------------------------
(***************************************************************************)
(* The 5 x 5 grid: a row is the windows 4 .. 3 and 2 .. 1, each with one   *)
(* large and one small batch, and all cases of the transition occur. Two   *)
(* GPUs, two moduli; the wrapping kernels are in use for the first only.   *)
(***************************************************************************)
EXTENDS GridBatch, TLC

MCMods == <<7, 5>>

\* @@ makes TLC compute a function's values once.
Computed(f) == f @@ <<>>

MCDevices == 1 .. GPUs
MCWinOf == Computed(ScheduleWin)
MCCellsOf == Computed(ScheduleCells)
MCSize == Computed(ScheduleSize)
MCListed == Computed(ScheduleListed)
MCOrder == Computed(ScheduleOrder)
MCFirstOwner == Computed(ScheduleOwner)

MCCells == Ranks
MCFirstRow(r) == FirstCounts
MCKernel(r, b, v) == RowWindow(r, b[1], v)
MCFinal(r, v) == LastRowSum(r, v)

\* The vectors after 0, 1, ..., 6 windows.
IdealTable ==
    LET after[j \in 0 .. 2 * Rows] ==
            [r \in 1 .. Residues |->
                IF j = 0 THEN FirstCounts
                ELSE Computed(RowWindow(r, IF j % 2 = 1 THEN 1 ELSE 2, after[j - 1][r]))]
    IN  after
MCIdeal(r, j) == IdealTable[j][r]
PathsTable == [r \in 1 .. Residues |-> PathCount(W, W) % Mods[r]]
MCAnswer(r) == PathsTable[r]
=============================================================================
