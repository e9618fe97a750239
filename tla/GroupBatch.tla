------------------------------ MODULE GroupBatch ------------------------------
(***************************************************************************)
(* The group-batch scheduler of the B300 solver (fullprerank orbit         *)
(* blockfused groupbatch batch): for each residue, for each row, for each  *)
(* window, one thread per GPU works off the batches of the window. A batch *)
(* is gathered from the vector into the arena of the GPU, transformed      *)
(* there and scattered back. What a GPU needs for a batch, its metadata    *)
(* and a CUDA graph of its kernels, is kept from row to row and from       *)
(* residue to residue.                                                     *)
(*                                                                         *)
(* The arithmetic is left to Kernel, FirstRow and Final.                   *)
(***************************************************************************)
EXTENDS Naturals, Sequences, FiniteSets

CONSTANTS
    Devices,       \* the GPUs
    Residues,      \* how many moduli the run has
    Wins,          \* how many windows a row has
    Rows,          \* how many rows are processed
    Cells,         \* the slots of the vector
    Batches,
    WinOf,         \* the window of each batch
    CellsOf,       \* the slots of each batch
    Size,          \* the bytes a batch needs in the arena
    Listed,        \* the batches of each window in the order they were prepared ...
    Order,         \* ... and by decreasing work (steal_order)
    FirstOwner,    \* the owner of each batch in make_groupbatch_affinity
    Device0,
    Wrap32,        \* the residues for which the wrapping kernels are in use
    FirstRow(_),   \* the vector after the first row, for a residue
    Kernel(_, _, _), \* what the kernels of a batch make of its slots, for a residue
    Final(_, _),   \* the residue read off the last vector
    Ideal(_, _),   \* for the properties: the vector a residue should have after k windows,
    Answer(_),     \* and what should be printed for it
    Modes,         \* how batches are given to GPUs
    GraphModes,    \* GRIDFP_GROUPBATCH_GRAPH
    None

BatchesOf(w) == {b \in Batches : WinOf[b] = w}

(***************************************************************************)
(* "single": one GPU; "shard": batches fixed to GPUs; "dynamic": a common  *)
(* counter; "affinity": each GPU does its own batches and then steals;     *)
(* "sticky": the thief keeps the batch; "reclaim": and the former owner    *)
(* frees what it kept for it.                                              *)
(***************************************************************************)
AllModes == {"single", "shard", "dynamic", "affinity", "sticky", "reclaim"}

ASSUME BatchAssumption ==
    /\ Residues \in Nat /\ Rows \in Nat /\ Wins \in Nat \ {0}
    /\ IsFiniteSet(Batches) /\ Device0 \in Devices /\ None \notin Devices
    /\ None \notin Batches
    /\ WinOf \in [Batches -> 1 .. Wins]
    /\ CellsOf \in [Batches -> SUBSET Cells]
    /\ \A b, c \in Batches : b # c /\ WinOf[b] = WinOf[c] => CellsOf[b] \cap CellsOf[c] = {}
    /\ \A w \in 1 .. Wins : Cells = UNION {CellsOf[b] : b \in BatchesOf(w)}
    /\ Size \in [Batches -> Nat]
    /\ Listed \in [1 .. Wins -> Seq(Batches)] /\ Order \in [1 .. Wins -> Seq(Batches)]
    /\ \A w \in 1 .. Wins : /\ BatchesOf(w) = {Listed[w][i] : i \in DOMAIN Listed[w]}
                            /\ BatchesOf(w) = {Order[w][i] : i \in DOMAIN Order[w]}
    /\ FirstOwner \in [Batches -> Devices]
    /\ Wrap32 \subseteq 1 .. Residues
    /\ Modes \subseteq AllModes /\ GraphModes \subseteq {0, 1, 2}

VARIABLES
    mode, graphMode,  \* fixed by the environment
    stage,    \* where main is
    ri,       \* the residue it works on
    k,        \* the windows begun for this residue
    mem,      \* the vector, spread over the GPUs
    printed,  \* the residues printed
    owner,    \* the owner of each batch
    dpc,      \* where the thread of each GPU is
    pos,      \* how far it is in its list of batches
    cur,      \* the batch it works on
    buf,      \* what is in its arena
    arena,    \* the allocation of its arena
    ready,    \* batches and GPUs with metadata on the GPU
    graph,    \* the cached graph of each batch on each GPU
    claimed, stealPos, executed

vars == <<mode, graphMode, stage, ri, k, mem, printed, owner, dpc, pos, cur, buf, arena, ready,
          graph, claimed, stealPos, executed>>

Win == ((k - 1) % Wins) + 1
NoGraph == [arena |-> 0, wrap |-> FALSE]

TypeOK ==
    /\ mode \in AllModes /\ graphMode \in {0, 1, 2}
    /\ stage \in {"begin", "fork", "join", "end", "failed"}
    /\ ri \in 1 .. Residues + 1 /\ k \in 0 .. Rows * Wins
    /\ mem \in [Cells -> Nat]
    /\ printed \in Seq(Nat)
    /\ owner \in [Batches -> Devices]
    /\ dpc \in [Devices -> {"home", "steal", "prepare", "gather", "transition", "scatter",
                            "joined"}]
    /\ pos \in [Devices -> Nat]
    /\ cur \in [Devices -> Batches \cup {None}]
    /\ \A d \in Devices : dpc[d] \in {"transition", "scatter"} => buf[d] \in [CellsOf[cur[d]] -> Nat]
    /\ arena \in [Devices -> [id : Nat, size : Nat]]
    /\ ready \subseteq Batches \X Devices
    /\ graph \in [Batches \X Devices -> [arena : Nat, wrap : BOOLEAN]]
    /\ claimed \subseteq Batches
    /\ stealPos \in Nat
    /\ executed \in [Batches -> Devices \cup {None}]

Init ==
    /\ mode \in Modes /\ graphMode \in GraphModes
    /\ stage = "begin" /\ ri = 1 /\ k = 0
    /\ mem = [c \in Cells |-> 0]
    /\ printed = <<>>
    /\ owner = IF mode = "single" THEN [b \in Batches |-> Device0] ELSE FirstOwner
    /\ dpc = [d \in Devices |-> "joined"]
    /\ pos = [d \in Devices |-> 0]
    /\ cur = [d \in Devices |-> None]
    /\ buf = [d \in Devices |-> <<>>]
    /\ arena = [d \in Devices |-> [id |-> 0, size |-> 0]]
    /\ ready = {}
    /\ graph = [x \in Batches \X Devices |-> NoGraph]
    /\ claimed = {} /\ stealPos = 0
    /\ executed = [b \in Batches |-> None]

-----------------------------------------------------------------------------
\* Mutant of Invalidated: graphs are kept from residue to residue.
StillCached == graph

Invalidated == IF ri > 1 THEN [x \in Batches \X Devices |-> NoGraph] ELSE graph

\* reserve_groupbatch_buffers for every window, and in a sharded run for the GPU's own batches.
Reserve == [d \in Devices |->
              [id |-> arena[d].id + 1,
               size |-> LET S == {Size[b] : b \in {c \in Batches : mode = "shard" => owner[c] = d}}
                        IN  CHOOSE n \in S \cup {0} : \A m \in S : m <= n]]

(***************************************************************************)
(* A residue begins: the graphs are dropped and the arenas released, the   *)
(* vector is set to the first row, and each arena is allocated for the     *)
(* largest batch of all windows.                                           *)
(***************************************************************************)
BeginResidue ==
    /\ stage = "begin" /\ ri <= Residues
    /\ graph' = Invalidated
    /\ arena' = Reserve
    /\ mem' = FirstRow(ri)
    /\ k' = 0
    /\ stage' = "fork"
    /\ UNCHANGED <<mode, graphMode, ri, printed, owner, dpc, pos, cur, buf, ready, claimed,
                   stealPos, executed>>

\* The next window: a thread per GPU, nothing claimed.
Fork ==
    /\ stage = "fork" /\ k < Rows * Wins
    /\ k' = k + 1
    /\ claimed' = {} /\ stealPos' = 0
    /\ executed' = [b \in Batches |-> None]
    /\ dpc' = [d \in Devices |-> "home"]
    /\ pos' = [d \in Devices |-> 0]
    /\ stage' = "join"
    /\ UNCHANGED <<mode, graphMode, ri, mem, printed, owner, cur, buf, arena, ready, graph>>

Sticky == mode \in {"sticky", "reclaim"}
Steals == mode \in {"dynamic", "affinity", "sticky", "reclaim"}

\* Mutant of NewOwner: the batches of the other windows too.
NewOwnerOfAll == [b \in Batches |-> IF Sticky THEN executed[b] ELSE owner[b]]

\* In a sticky run whoever executed a batch of the window is its owner from now on.
NewOwner == [b \in Batches |-> IF Sticky /\ WinOf[b] = Win THEN executed[b] ELSE owner[b]]

\* Mutant of Reclaimed: nothing is freed.
KeptByAll == {}

\* What the former owners of stolen batches free.
Reclaimed == IF mode = "reclaim"
             THEN {x \in ready : WinOf[x[1]] = Win /\ owner[x[1]] = x[2] /\ executed[x[1]] # x[2]}
             ELSE {}

(***************************************************************************)
(* All threads joined. A sticky run throws when a batch of the window was  *)
(* not executed.                                                           *)
(***************************************************************************)
Join ==
    /\ stage = "join" /\ \A d \in Devices : dpc[d] = "joined"
    /\ IF Sticky /\ \E b \in BatchesOf(Win) : executed[b] = None
       THEN stage' = "failed" /\ UNCHANGED <<owner, ready, graph>>
       ELSE /\ stage' = "fork"
            /\ owner' = NewOwner
            /\ ready' = ready \ Reclaimed
            /\ graph' = [x \in Batches \X Devices |-> IF x \in Reclaimed THEN NoGraph
                                                      ELSE graph[x]]
    /\ UNCHANGED <<mode, graphMode, ri, k, mem, printed, dpc, pos, cur, buf, arena, claimed,
                   stealPos, executed>>

PrintResidue ==
    /\ stage = "fork" /\ k = Rows * Wins
    /\ printed' = Append(printed, Final(ri, mem))
    /\ ri' = ri + 1
    /\ stage' = IF ri = Residues THEN "end" ELSE "begin"
    /\ UNCHANGED <<mode, graphMode, k, mem, owner, dpc, pos, cur, buf, arena, ready, graph,
                   claimed, stealPos, executed>>

-----------------------------------------------------------------------------
\* Mutant of Claim: nobody asks whether the batch is claimed.
ClaimAnyway(d, b) ==
    /\ claimed' = claimed \cup {b}
    /\ cur' = [cur EXCEPT ![d] = b]
    /\ dpc' = [dpc EXCEPT ![d] = "prepare"]

\* A thread claims batch b by compare-and-swap, unless it is claimed.
Claim(d, b) ==
    IF b \in claimed THEN UNCHANGED <<claimed, cur, dpc>>
    ELSE /\ claimed' = claimed \cup {b}
         /\ cur' = [cur EXCEPT ![d] = b]
         /\ dpc' = [dpc EXCEPT ![d] = "prepare"]

\* The order in which the batches of the window are gone through.
InTurn == IF mode \in {"single", "shard", "dynamic"} THEN Listed[Win] ELSE Order[Win]

\* Mutant of Ahead: d never gets past a batch of its own.
AheadAgain(d) == IF mode = "dynamic" THEN {} ELSE {i \in DOMAIN InTurn : owner[InTurn[i]] = d}

\* The positions of d's own batches that are still ahead of it.
Ahead(d) == IF mode = "dynamic" THEN {}
            ELSE {i \in DOMAIN InTurn : i > pos[d] /\ owner[InTurn[i]] = d}

Home(d) ==
    /\ dpc[d] = "home"
    /\ IF Ahead(d) = {}
       THEN /\ dpc' = [dpc EXCEPT ![d] = IF Steals THEN "steal" ELSE "joined"]
            /\ UNCHANGED <<pos, claimed, cur>>
       ELSE \E i \in Ahead(d) :
              /\ \A j \in Ahead(d) : i <= j
              /\ pos' = [pos EXCEPT ![d] = i]
              /\ Claim(d, InTurn[i])
    /\ UNCHANGED <<mode, graphMode, stage, ri, k, mem, printed, owner, buf, arena, ready, graph,
                   stealPos, executed>>

\* stealPos.fetch_add (nextBatch, in a dynamic run), and a claim of the batch it names.
Steal(d) ==
    /\ dpc[d] = "steal"
    /\ stealPos' = stealPos + 1
    /\ IF stealPos >= Len(InTurn)
       THEN dpc' = [dpc EXCEPT ![d] = "joined"] /\ UNCHANGED <<claimed, cur>>
       ELSE Claim(d, InTurn[stealPos + 1])
    /\ UNCHANGED <<mode, graphMode, stage, ri, k, mem, printed, owner, pos, buf, arena, ready,
                   graph, executed>>

-----------------------------------------------------------------------------
(***************************************************************************)
(* process_window_batched_io: a larger arena when this one is too small,   *)
(* and the upload of the metadata unless the GPU has it.                   *)
(***************************************************************************)
Prepare(d) ==
    /\ dpc[d] = "prepare"
    /\ arena' = IF Size[cur[d]] <= arena[d].size THEN arena
                ELSE [arena EXCEPT ![d] = [id |-> @.id + 1, size |-> Size[cur[d]]]]
    /\ ready' = ready \cup {<<cur[d], d>>}
    /\ dpc' = [dpc EXCEPT ![d] = "gather"]
    /\ UNCHANGED <<mode, graphMode, stage, ri, k, mem, printed, owner, pos, cur, buf, graph,
                   claimed, stealPos, executed>>

Gather(d) ==
    /\ dpc[d] = "gather"
    /\ buf' = [buf EXCEPT ![d] = [c \in CellsOf[cur[d]] |-> mem[c]]]
    /\ dpc' = [dpc EXCEPT ![d] = "transition"]
    /\ UNCHANGED <<mode, graphMode, stage, ri, k, mem, printed, owner, pos, cur, arena, ready,
                   graph, claimed, stealPos, executed>>

\* The graph d launches for its batch: the cached one, or one captured now.
Launched(d) ==
    LET cached == graph[<<cur[d], d>>]
    IN  IF graphMode # 0 /\ cached # NoGraph THEN cached
        ELSE [arena |-> arena[d].id, wrap |-> ri \in Wrap32]

(***************************************************************************)
(* The kernels of the window, launched one by one (mode 0) or as a graph   *)
(* (1; 2, with the copies around them). A graph bound to another arena, or *)
(* to the wrapping kernels when the modulus does not allow them, leaves    *)
(* the batch as it was, or worse. A new allocation has a new id here; the  *)
(* CUDA allocator may return the old address.                              *)
(***************************************************************************)
Transition(d) ==
    LET g == Launched(d)
    IN  /\ dpc[d] = "transition"
        /\ graph' = IF graphMode = 0 THEN graph ELSE [graph EXCEPT ![<<cur[d], d>>] = g]
        /\ buf' = IF g.arena = arena[d].id /\ (g.wrap => ri \in Wrap32)
                  THEN [buf EXCEPT ![d] = Kernel(ri, cur[d], @)] ELSE buf
        /\ dpc' = [dpc EXCEPT ![d] = "scatter"]
        /\ UNCHANGED <<mode, graphMode, stage, ri, k, mem, printed, owner, pos, cur, arena, ready,
                       claimed, stealPos, executed>>

Scatter(d) ==
    /\ dpc[d] = "scatter"
    /\ mem' = [c \in Cells |-> IF c \in CellsOf[cur[d]] THEN buf[d][c] ELSE mem[c]]
    /\ executed' = [executed EXCEPT ![cur[d]] = d]
    /\ buf' = [buf EXCEPT ![d] = <<>>]
    /\ cur' = [cur EXCEPT ![d] = None]
    /\ dpc' = [dpc EXCEPT ![d] = "home"]
    /\ UNCHANGED <<mode, graphMode, stage, ri, k, printed, owner, pos, arena, ready, graph,
                   claimed, stealPos>>

-----------------------------------------------------------------------------
MainStep == BeginResidue \/ Fork \/ Join \/ PrintResidue

Thread(d) == Home(d) \/ Steal(d) \/ Prepare(d) \/ Gather(d) \/ Transition(d) \/ Scatter(d)

Over == stage \in {"end", "failed"} /\ UNCHANGED vars

Next == MainStep \/ (\E d \in Devices : Thread(d)) \/ Over

Spec == Init /\ [][Next]_vars

\* Threads run until they are done; no loop waits for another thread.
FairSpec == Spec /\ WF_vars(MainStep) /\ \A d \in Devices : WF_vars(Thread(d))

-----------------------------------------------------------------------------
Slice(v, b) == [c \in CellsOf[b] |-> v[c]]

(***************************************************************************)
(* What the scheduler asks of the arithmetic. KernelCorrect: the slots of  *)
(* a batch after a window depend on its own slots before it, and on        *)
(* nothing else, and the first row is right. AnswerCorrect: so is what is  *)
(* read off the last vector.                                               *)
(***************************************************************************)
KernelCorrect(r) ==
    /\ FirstRow(r) = Ideal(r, 0)
    /\ \A j \in 0 .. Rows * Wins : Ideal(r, j) \in [Cells -> Nat]
    /\ \A j \in 1 .. Rows * Wins : \A b \in BatchesOf(((j - 1) % Wins) + 1) :
          Kernel(r, b, Slice(Ideal(r, j - 1), b)) = Slice(Ideal(r, j), b)

AnswerCorrect(r) == Final(r, Ideal(r, Rows * Wins)) = Answer(r) /\ Answer(r) \in Nat

(***************************************************************************)
(* Whatever the threads do, each slot of the vector is where it should be: *)
(* one window further once its batch is scattered, and not before; and the *)
(* batch in an arena is what its slots were, or are to become. So a batch  *)
(* done twice, skipped, done by a stale graph or gathered before its slots *)
(* were written shows here.                                                *)
(***************************************************************************)
SlotsRight ==
    /\ stage = "fork" => mem = Ideal(ri, k)
    /\ stage = "join" => \A b \in BatchesOf(Win) :
          Slice(mem, b) = Slice(Ideal(ri, IF executed[b] = None THEN k - 1 ELSE k), b)
    /\ \A d \in Devices :
          /\ dpc[d] = "transition" => buf[d] = Slice(Ideal(ri, k - 1), cur[d])
          /\ dpc[d] = "scatter" => buf[d] = Slice(Ideal(ri, k), cur[d])

(***************************************************************************)
(* A cached graph that can still be launched is bound to the arena its GPU *)
(* has now, to the kernels the modulus calls for and to metadata that is   *)
(* there.                                                                  *)
(***************************************************************************)
GraphsCurrent ==
    stage \in {"fork", "join"} =>
        \A b \in Batches, d \in Devices : graph[<<b, d>>] # NoGraph =>
            /\ graph[<<b, d>>] = [arena |-> arena[d].id, wrap |-> ri \in Wrap32]
            /\ <<b, d>> \in ready

(***************************************************************************)
(* In a reclaiming run a GPU keeps nothing for a batch it no longer owns,  *)
(* so that what stealing costs in memory does not add up over the rows.    *)
(***************************************************************************)
OneHolder ==
    mode = "reclaim" /\ stage # "join" =>
        \A b \in Batches, d \in Devices : <<b, d>> \in ready => owner[b] = d

\* The residues come out in order, each the number of paths modulo its modulus.
PrintedRight == \A r \in DOMAIN printed : printed[r] = Answer(r)

(***************************************************************************)
(* Every residue is printed: no thread waits for ever or goes round in     *)
(* circles, and no window ends with a batch nobody executed (the throw in  *)
(* the sticky branch), however the batches are stolen.                     *)
(***************************************************************************)
EventuallyPrinted == <>(Len(printed) = Residues)
=============================================================================
