-------------------------------- MODULE GridFP --------------------------------
(***************************************************************************)
(* The Grid-FP dynamic program of the GPU solvers: how the paths that      *)
(* cross the frontier of a W x W grid are written as words, how a word is  *)
(* ranked, what one horizontal edge does to it, and how the ranks are      *)
(* partitioned for a window of edges.                                      *)
(*                                                                         *)
(* A word gives each column N (no path end), L or R; with one R to close   *)
(* from outside, the L and R are balanced from the top position down. A    *)
(* main word has a position per column; a blocked word lacks the position  *)
(* of the column whose edge was just decided.                              *)
(***************************************************************************)
EXTENDS GridPaths, Integers, Sequences, FiniteSets, FiniteSetsExt, SequencesExt

CONSTANT MAXW   \* the columns the tables are made for

ASSUME GridAssumption == W \in Nat \ {0, 1} /\ MAXW \in Nat /\ W <= MAXW

Count(m, S, v) == Cardinality({i \in S : m[i] = v})

\* The height below position q of a word of n positions, read from the top.
Height(m, n, q) == 1 + Count(m, q .. n - 1, "L") - Count(m, q .. n - 1, "R")

Words(n) == {m \in [0 .. n - 1 -> {"N", "R", "L"}] :
               Height(m, n, 0) = 0 /\ \A q \in 0 .. n - 1 : Height(m, n, q) >= 0}

-----------------------------------------------------------------------------
\* H_DP: how many ways w lower positions can bring height h down to 0. A line has two entries
\* more than MAXW, and the last one is never filled in.
H_DP[w \in 0 .. MAXW] ==
    [h \in 0 .. MAXW + 1 |->
        IF w = 0 THEN IF h = 0 THEN 1 ELSE 0
        ELSE IF h > MAXW THEN 0
        ELSE H_DP[w - 1][h] + (IF h > 0 THEN H_DP[w - 1][h - 1] ELSE 0) + H_DP[w - 1][h + 1]]

\* rank_full: words in the order N < R < L, the top position first. Below counts the words
\* that agree with m above position q and come before it at q.
Below(m, n, q) ==
    LET h == Height(m, n, q + 1)
    IN  (IF m[q] = "N" THEN 0 ELSE H_DP[q][h]) + (IF m[q] = "L" /\ h > 0 THEN H_DP[q][h - 1] ELSE 0)

rank_full(m, n) == SumFunction([q \in 0 .. n - 1 |-> Below(m, n, q)])

MainN == H_DP[W][1]
BlockN == H_DP[W - 1][1]

\* A cell of the vector: the main words by rank, then the blocked words by rank.
MainCell(m) == rank_full(m, W)
BlockCell(s) == MainN + rank_full(s, W - 1)
Ranks == 0 .. MainN + BlockN - 1

-----------------------------------------------------------------------------
Put(m, p, a, b) == [m EXCEPT ![p] = a, ![p - 1] = b]

\* mshrink removes an empty position, minsert puts one back.
mshrink(m, at) == [i \in 0 .. W - 2 |-> IF i < at THEN m[i] ELSE m[i + 1]]
minsert(s, at) == [i \in 0 .. W - 1 |-> IF i < at THEN s[i] ELSE IF i = at THEN "N" ELSE s[i - 1]]

\* Mutant of closure_match_right: the next position, whatever is there.
closure_next(m, p) == {p + 1} \cap (0 .. W - 1)

\* The partner of the second of two L at p and p - 1, and of the first of two R.
closure_match_left(m, p) ==
    LET Closed(q) == Count(m, q .. p - 2, "R") - Count(m, q .. p - 2, "L") = 1
    IN  {q \in 0 .. p - 2 : Closed(q) /\ \A r \in q + 1 .. p - 2 : ~Closed(r)}
closure_match_right(m, p) ==
    LET Closed(q) == Count(m, p + 1 .. q, "L") - Count(m, p + 1 .. q, "R") = 1
    IN  {q \in p + 1 .. W - 1 : Closed(q) /\ \A r \in p + 1 .. q - 1 : ~Closed(r)}

(***************************************************************************)
(* include_horizontal: the cell a word goes to when the edge between the   *)
(* columns p and p - 1 is in the path; none when that would close a cycle. *)
(* Below the last column of the row the word stays blocked at the column.  *)
(***************************************************************************)
include_horizontal(m, p) ==
    LET a == m[p]
        b == m[p - 1]
        empty == Put(m, p, "N", "N")
        Keep(t, at) == IF p = 1 THEN MainCell(t) ELSE BlockCell(mshrink(t, at))
    IN  CASE a = "N" /\ b = "N" -> {MainCell(Put(m, p, "L", "R"))}
          [] a = "N" /\ b # "N" -> {Keep(IF p = 1 THEN Put(m, p, b, "N") ELSE m, p)}
          [] a # "N" /\ b = "N" -> {MainCell(Put(m, p, "N", a))}
          [] a = "L" /\ b = "L" -> {Keep([empty EXCEPT ![q] = "L"], p - 1) :
                                      q \in closure_match_left(m, p)}
          [] a = "R" /\ b = "R" -> {Keep([empty EXCEPT ![q] = "R"], p - 1) :
                                      q \in closure_match_right(m, p)}
          [] a = "R" /\ b = "L" -> {Keep(empty, p - 1)}
          [] OTHER -> {}

(***************************************************************************)
(* From which cell to which the counts flow at edge p: a main word keeps   *)
(* its count when the edge is left out, a blocked word becomes a main word *)
(* with an empty column, and a main word goes where including leads.       *)
(***************************************************************************)
Edge(p) == {<<MainCell(m), MainCell(m)>> : m \in Words(W)}
           \cup {<<BlockCell(s), MainCell(minsert(s, p))>> : s \in Words(W - 1)}
           \cup UNION {{MainCell(m)} \X include_horizontal(m, p) : m \in Words(W)}

\* The cells that flow into each cell.
Sources ==
    [p \in 1 .. W - 1 |->
        LET edge == Edge(p)
        IN  [c \in Ranks |-> SetToSeq({e[1] : e \in {x \in edge : x[2] = c}})]]

(***************************************************************************)
(* A window: the edges p_hi, p_hi - 1, ..., p_lo one after the other. Each *)
(* step adds up counts, so the window as a whole does: Flow lists, for a   *)
(* cell, the cells it adds up, one entry for each way through the edges.   *)
(***************************************************************************)
Flow(p_hi, p_lo) ==
    LET flow[p \in p_lo .. p_hi] ==
            LET from == Sources[p]
            IN  IF p = p_hi THEN from
                ELSE [c \in Ranks |-> FlattenSeq([i \in DOMAIN from[c] |-> flow[p + 1][from[c][i]]])]
    IN  flow[p_lo]

\* The cells of a buffer v after the window, modulo mod.
WindowSteps(mod, flow, v) ==
    [c \in DOMAIN v |->
        LET from == flow[c]
            sum[i \in 0 .. Len(from)] ==
                IF i = 0 THEN 0
                ELSE (sum[i - 1] + (IF from[i] \in DOMAIN v THEN v[from[i]] ELSE 0)) % mod
        IN  sum[Len(from)]]

-----------------------------------------------------------------------------
\* The positions whose occupancy no edge of the window changes.
window_candidates(p_hi, p_lo) == {q \in 0 .. W - 1 : q < p_lo - 1 \/ q > p_hi}

\* The cells of a group: words with exactly the positions occ occupied among those.
GroupCells(p_hi, p_lo, occ) ==
    LET fixed == window_candidates(p_hi, p_lo)
        bq(q) == IF q < p_lo - 1 THEN q ELSE q - 1
    IN  {MainCell(m) : m \in {x \in Words(W) : \A q \in fixed : x[q] # "N" <=> q \in occ}}
        \cup {BlockCell(s) : s \in {x \in Words(W - 1) :
                                      \A q \in fixed : x[bq(q)] # "N" <=> q \in occ}}

\* In each edge of the window, what flows into a cell of the group comes from the group.
Closed(p_hi, p_lo, occ) ==
    LET group == GroupCells(p_hi, p_lo, occ)
    IN  \A p \in p_lo .. p_hi, c \in group : ToSet(Sources[p][c]) \subseteq group

-----------------------------------------------------------------------------
(***************************************************************************)
(* The words after the first row: each choice of horizontal edges gives    *)
(* one. By symmetry the last row adds their counts up.                     *)
(***************************************************************************)
FirstRowWord(mask) ==
    LET start == [q \in 0 .. W - 1 |-> IF q = W - 1 THEN "R" ELSE "N"]
        after[p \in 1 .. W] ==
            IF p = W THEN start
            ELSE IF p \notin mask THEN after[p + 1]
            ELSE IF after[p + 1][p] = "N" THEN Put(after[p + 1], p, "L", "R")
            ELSE Put(after[p + 1], p, "N", after[p + 1][p])
    IN  after[1]

FirstRowCells == {MainCell(FirstRowWord(mask)) : mask \in SUBSET (1 .. W - 1)}
=============================================================================
