------------------------------ MODULE FrontierDP ------------------------------
(***************************************************************************)
(* The frontier dynamic program of the older solvers: the edges of the     *)
(* W x W grid are decided one by one, and a key says of a partial choice   *)
(* of edges what the later ones depend on: the degree of each frontier     *)
(* vertex and which of them the chosen edges connect, with the terminals   *)
(* each component has swallowed. The code numbers the components in order  *)
(* of their first vertex, so that equal keys are equal bits; here a key    *)
(* holds them as a set.                                                    *)
(***************************************************************************)
EXTENDS GridPaths, Integers, Sequences, FiniteSets, SequencesExt

V == 0 .. W * W - 1
Start == 0
Target == W * W - 1

\* The edges row by row: for each vertex the one to the right, then the one below.
Edges == FlattenSeq([x \in 1 .. W * W |->
             (IF ((x - 1) % W) + 1 < W THEN <<<<x - 1, x>>>> ELSE <<>>)
             \o (IF (x - 1) + W \in V THEN <<<<x - 1, x - 1 + W>>>> ELSE <<>>)])

Touching(x) == {i \in DOMAIN Edges : x \in {Edges[i][1], Edges[i][2]}}

\* The frontier between the edges e and e + 1: vertices with edges on both sides.
Active == [e \in 0 .. Len(Edges) |->
             {x \in V : (\E i \in Touching(x) : i <= e) /\ (\E i \in Touching(x) : i > e)}]

EmptyKey == [done |-> FALSE, deg |-> [x \in {} |-> 0], comps |-> {}]

MaxDegree(x) == IF x \in {Start, Target} THEN 1 ELSE 2

-----------------------------------------------------------------------------
\* A key with edge <<u, v>> in the path; the empty set when that cannot be.
TakeEdge(key, u, v) ==
    LET deg == [x \in DOMAIN key.deg \cup {u, v} |-> IF x \in DOMAIN key.deg THEN key.deg[x] ELSE 0]
        joined == {c \in key.comps : c.members \cap {u, v} # {}}
        merged == [members |-> {u, v} \cup UNION {c.members : c \in joined},
                   ends |-> ({u, v} \cap {Start, Target}) \cup UNION {c.ends : c \in joined}]
    IN  IF key.done \/ deg[u] >= MaxDegree(u) \/ deg[v] >= MaxDegree(v)
           \/ \E c \in joined : {u, v} \subseteq c.members
        THEN {}
        ELSE {[done |-> FALSE, deg |-> [deg EXCEPT ![u] = @ + 1, ![v] = @ + 1],
               comps |-> (key.comps \ joined) \cup {merged}]}

SkipEdge(key, u, v) ==
    [key EXCEPT !.deg = [x \in DOMAIN key.deg \cup {u, v} |->
                            IF x \in DOMAIN key.deg THEN key.deg[x] ELSE 0]]

(***************************************************************************)
(* Vertices that leave the frontier must have the degree of a path, and a  *)
(* component that leaves it entirely must be the whole path.               *)
(***************************************************************************)
Forget(key, after) ==
    LET gone == DOMAIN key.deg \ after
        dead == {c \in key.comps : c.members \subseteq gone}
    IN  IF \/ \E x \in gone : IF x \in {Start, Target} THEN key.deg[x] # 1 ELSE key.deg[x] = 1
           \/ \E c \in dead : c.ends # {Start, Target}
        THEN {}
        ELSE {[done |-> key.done \/ dead # {},
               deg |-> [x \in after |-> key.deg[x]],
               comps |-> {[c EXCEPT !.members = @ \cap after] : c \in key.comps \ dead}]}

\* The key after edge e is left out (t = 0) or taken; none or one.
transition_one(key, e, t) ==
    LET u == Edges[e][1]
        v == Edges[e][2]
    IN  UNION {Forget(k, Active[e]) :
                 k \in IF t = 1 THEN TakeEdge(key, u, v) ELSE {SkipEdge(key, u, v)}}

\* The keys that can occur after e edges, and a table of what each of them leads to.
Reachable[e \in 0 .. Len(Edges)] ==
    IF e = 0 THEN {EmptyKey} ELSE UNION {transition_one(x[1], e, x[2]) : x \in Reachable[e - 1] \X {0, 1}}
Successors == [e \in DOMAIN Edges |-> [key \in Reachable[e - 1] |->
                                          [t \in 0 .. 1 |-> transition_one(key, e, t)]]]

-----------------------------------------------------------------------------
(***************************************************************************)
(* The sequential program (oneesan_frontier.cpp): how often each key       *)
(* occurs after e edges. Each key adds its ways to every key it leads to.  *)
(***************************************************************************)
NextCounts(counts, e) ==
    [key \in Reachable[e] |->
        SumFunction([x \in {y \in Reachable[e - 1] \X {0, 1} : key \in transition_one(y[1], e, y[2])}
                       |-> counts[x[1]]])]
Counts[e \in 0 .. Len(Edges)] ==
    IF e = 0 THEN [key \in {EmptyKey} |-> 1] ELSE NextCounts(Counts[e - 1], e)

\* What it prints: the ways of the keys that hold the whole path.
PathTotal == SumFunctionOnSet(Counts[Len(Edges)], {key \in Reachable[Len(Edges)] : key.done})
=============================================================================
