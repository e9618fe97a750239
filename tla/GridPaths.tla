------------------------------ MODULE GridPaths ------------------------------
(***************************************************************************)
(* What the program is to count, by definition: the paths from one corner  *)
(* of a grid to the opposite corner that visit no vertex twice.            *)
(***************************************************************************)
EXTENDS Integers, Sequences, Functions

CONSTANT W   \* the rows and columns of the grid the programs work on

\* A grid of one vertex has no edge to decide.
ASSUME WAssumption == W \in Nat \ {0, 1}

Vertices(rows, cols) == (1 .. rows) \X (1 .. cols)
Adjacent(u, v) == \/ u[1] = v[1] /\ u[2] - v[2] \in {-1, 1}
                  \/ u[2] = v[2] /\ u[1] - v[1] \in {-1, 1}

\* Where a path through vertices of U can go from x[1] when it has seen x[2].
Onward(U, x) == {u \in U \ x[2] : Adjacent(u, x[1])}

\* The sequences of vertices that are such a path.
CornerPaths(rows, cols) ==
    {p \in Seq(Vertices(rows, cols)) :
        /\ p # <<>> /\ p[1] = <<1, 1>> /\ p[Len(p)] = <<rows, cols>>
        /\ \A i, k \in 1 .. Len(p) : p[i] = p[k] => i = k
        /\ \A i \in 1 .. Len(p) - 1 : Adjacent(p[i + 1], p[i])}

\* How many there are, in a form that can be evaluated: from[<<v, seen>>] is how many ways lead on
\* from v past the vertices already seen.
PathCount(rows, cols) ==
    LET from[x \in Vertices(rows, cols) \X SUBSET Vertices(rows, cols)] ==
            IF x[1] = <<rows, cols>> THEN 1
            ELSE SumFunction([u \in Onward(Vertices(rows, cols), x) |-> from[<<u, x[2] \cup {u}>>]])
    IN  from[<<<<1, 1>>, {<<1, 1>>}>>]
=============================================================================
