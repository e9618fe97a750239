------------------------------ MODULE BatchPlan ------------------------------
(***************************************************************************)
(* How the group-batch solver plans the two windows of a row before the    *)
(* first residue: groups by decreasing work, packed into batches up to a   *)
(* target size, each batch laid out in tiles, and batches given to the     *)
(* least loaded GPU.                                                       *)
(***************************************************************************)
EXTENDS GridFP

CONSTANTS
    Align,      \* sizes are rounded up to this many states (64 in the code)
    MaxLanes,   \* GRIDFP_GROUPBATCH_LANES: the columns of a tile, at most
    LOW_LUT_K,  \* where the row is cut into windows
    ScratchLimit,  \* the states a batch may have
    BatchesPerGpu,  \* GRIDFP_GROUPBATCH_BATCHES_PER_GPU: the batches of a window for a GPU, if not 0
    GPUs

LaneCounts == {1, 2, 4, 8, 16, 32}

ASSUME PlanAssumption ==
    /\ Align \in Nat \ {0} /\ MaxLanes \in LaneCounts
    /\ LOW_LUT_K \in 1 .. W - 2 /\ ScratchLimit \in Nat /\ BatchesPerGpu \in Nat /\ GPUs \in Nat \ {0}

-----------------------------------------------------------------------------
\* prepare_group: a group by the mask of the positions that are occupied in it, with its cells
\* and how many of them are main and blocked words.
Hi(w) == IF w = 1 THEN W - 1 ELSE LOW_LUT_K
Lo(w) == IF w = 1 THEN LOW_LUT_K + 1 ELSE 1

GroupOf(w, occ) ==
    LET cells == GroupCells(Hi(w), Lo(w), occ)
        main == Cardinality({c \in cells : c < MainN})
    IN  [occ |-> occ, cells |-> cells, main |-> main, block |-> Cardinality(cells) - main]

Groups(w) == {GroupOf(w, occ) : occ \in SUBSET window_candidates(Hi(w), Lo(w))}

Aligned(n) == ((n + Align - 1) \div Align) * Align

\* groupbatch_group_bytes, in states.
GroupSize(g) == Aligned(g.main) + Aligned(g.block)
GroupWork(g) == 2 * g.main + g.block

\* main goes on only if each group of a window fits by itself.
Fits(groups) == \A g \in groups : GroupSize(g) <= ScratchLimit

(***************************************************************************)
(* groupbatch_target_for_window: a window is cut into so many batches for  *)
(* each GPU, but not into ones that are too small for its largest group.   *)
(* The share is rounded up to a byte, and a state takes four.              *)
(***************************************************************************)
Smaller(a, b) == IF a < b THEN a ELSE b
Larger(a, b) == IF a < b THEN b ELSE a

BatchTarget(groups) ==
    LET total == SumFunction([g \in groups |-> GroupSize(g)])
        largest == Max({0} \cup {GroupSize(g) : g \in groups})
        wanted == GPUs * BatchesPerGpu
        fair == ((4 * total + wanted - 1) \div wanted) \div 4
    IN  IF GPUs = 1 \/ BatchesPerGpu = 0 THEN ScratchLimit
        ELSE Smaller(Larger(largest, Smaller(ScratchLimit, fair)), ScratchLimit)

BatchSize(batch) == SumFunction([i \in DOMAIN batch |-> GroupSize(batch[i])])
BatchWork(batch) == SumFunction([i \in DOMAIN batch |-> GroupWork(batch[i])])
BatchCells(batch) == UNION {batch[i].cells : i \in DOMAIN batch}

-----------------------------------------------------------------------------
\* A mask is the lesser number if the highest position that only one of the two has is in the other.
MaskBelow(a, b) == \E q \in b \ a : \A x \in a \ b : x < q

\* groupbatch_work_order
WorkOrder(a, b) == \/ GroupWork(a) > GroupWork(b)
                   \/ GroupWork(a) = GroupWork(b) /\ MaskBelow(a.occ, b.occ)

\* std::sort: each element at the place that so many come before.
InOrder(S, Before(_, _)) ==
    [i \in 1 .. Cardinality(S) |-> CHOOSE x \in S : Cardinality({y \in S : Before(y, x)}) = i - 1]

(***************************************************************************)
(* prepare_window_batches: a batch takes groups as long as they fit; empty *)
(* groups are left out.                                                    *)
(***************************************************************************)
Pack(batches, g, target) ==
    IF g.main + g.block = 0 THEN batches
    ELSE IF batches = <<>> \/ BatchSize(Last(batches)) + GroupSize(g) > target
    THEN Append(batches, <<g>>)
    ELSE [batches EXCEPT ![Len(batches)] = Append(@, g)]

PrepareBatches(groups, target) ==
    LET order == InOrder(groups, WorkOrder)
        packed[n \in 0 .. Len(order)] == IF n = 0 THEN <<>> ELSE Pack(packed[n - 1], order[n], target)
    IN  packed[Len(order)]

(***************************************************************************)
(* The layout of a batch: groups of the same shape that follow each other  *)
(* are the columns of a tile, as many as a power of two up to MaxLanes.    *)
(***************************************************************************)
SameGeometry(a, b) ==
    a.main = b.main /\ a.block = b.block /\ Cardinality(a.occ) = Cardinality(b.occ)

Lanes(batch, first) ==
    Max({n \in LaneCounts :
           /\ n <= MaxLanes /\ first + n - 1 <= Len(batch)
           /\ \A j \in first .. first + n - 1 : SameGeometry(batch[first], batch[j])})

TileSize(g, lanes) == Aligned(lanes * g.main) + Aligned(lanes * g.block)

LayoutSize(batch) ==
    LET used[first \in 1 .. Len(batch) + 1] ==
            IF first > Len(batch) THEN 0
            ELSE TileSize(batch[first], Lanes(batch, first)) + used[first + Lanes(batch, first)]
    IN  used[1]

(***************************************************************************)
(* make_groupbatch_affinity: batches by decreasing work, each to the first *)
(* of the GPUs with the least load. std::sort may leave batches of equal   *)
(* work in either order; here they are ordered by number.                  *)
(***************************************************************************)
StealOrder(batches) ==
    InOrder(DOMAIN batches,
            LAMBDA i, j : \/ BatchWork(batches[i]) > BatchWork(batches[j])
                          \/ BatchWork(batches[i]) = BatchWork(batches[j]) /\ i < j)

Lightest(load) ==
    CHOOSE d \in 1 .. GPUs : \A e \in 1 .. GPUs : load[d] < load[e] \/ (load[d] = load[e] /\ d <= e)

Give(given, i, work) ==
    LET best == Lightest(given.load)
    IN  [load |-> [given.load EXCEPT ![best] = @ + work], owner |-> [given.owner EXCEPT ![i] = best]]

MakeAffinity(batches) ==
    LET order == StealOrder(batches)
        given[n \in 0 .. Len(order)] ==
            IF n = 0
            THEN [load |-> [d \in 1 .. GPUs |-> 0], owner |-> [i \in DOMAIN batches |-> 0]]
            ELSE Give(given[n - 1], order[n], BatchWork(batches[order[n]]))
    IN  given[Len(order)]

-----------------------------------------------------------------------------
\* The schedule of a row, and what the scheduler takes from it.
Schedule == [w \in 1 .. 2 |-> PrepareBatches(Groups(w), BatchTarget(Groups(w)))]

ScheduleBatches == UNION {{w} \X DOMAIN Schedule[w] : w \in 1 .. 2}
ScheduleWin == [b \in ScheduleBatches |-> b[1]]
ScheduleCells == [b \in ScheduleBatches |-> BatchCells(Schedule[b[1]][b[2]])]
ScheduleSize == [b \in ScheduleBatches |-> LayoutSize(Schedule[b[1]][b[2]])]
ScheduleListed == [w \in 1 .. 2 |-> [i \in DOMAIN Schedule[w] |-> <<w, i>>]]
ScheduleOrder ==
    [w \in 1 .. 2 |-> LET s == StealOrder(Schedule[w]) IN [i \in DOMAIN s |-> <<w, s[i]>>]]
ScheduleOwner == [b \in ScheduleBatches |-> MakeAffinity(Schedule[b[1]]).owner[b[2]]]
=============================================================================
