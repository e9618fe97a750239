------------------------------- MODULE ForkJoin -------------------------------
(***************************************************************************)
(* What the solvers expect of a pool of worker threads: a run begins with  *)
(* every job of its list to do, each job is taken by one thread, and the   *)
(* run is over only when nothing is left and nobody is at work.            *)
(***************************************************************************)
CONSTANTS
    Threads,   \* the worker threads of the pool
    Lists,     \* the job lists a run can be started with
    Contents,  \* the jobs of each list
    None

VARIABLES
    open,   \* a run is in flight
    todo,   \* jobs of the run nobody has taken
    doing   \* the job each thread is at work on, or None

vars == <<open, todo, doing>>

Init ==
    /\ open = FALSE
    /\ todo = {}
    /\ doing = [t \in Threads |-> None]

Fork(l) ==
    /\ ~open
    /\ \A t \in Threads : doing[t] = None
    /\ open' = TRUE
    /\ todo' = Contents[l]
    /\ UNCHANGED doing

Begin(t, j) ==
    /\ open
    /\ j \in todo
    /\ doing[t] = None
    /\ todo' = todo \ {j}
    /\ doing' = [doing EXCEPT ![t] = j]
    /\ UNCHANGED open

End(t) ==
    /\ doing[t] # None
    /\ doing' = [doing EXCEPT ![t] = None]
    /\ UNCHANGED <<open, todo>>

Join ==
    /\ open
    /\ todo = {}
    /\ \A t \in Threads : doing[t] = None
    /\ open' = FALSE
    /\ UNCHANGED <<todo, doing>>

Next ==
    \/ \E l \in Lists : Fork(l)
    \/ \E t \in Threads : (\E j \in todo : Begin(t, j)) \/ End(t)
    \/ Join

Spec == Init /\ [][Next]_vars
=============================================================================
