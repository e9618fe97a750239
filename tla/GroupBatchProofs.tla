--------------------------- MODULE GroupBatchProofs ---------------------------
(***************************************************************************)
(* Proofs about the group-batch solver, for a grid of any size, any number *)
(* of GPUs and any of the modes. First the scheduler, whatever its kernels *)
(* compute; then the plan of a row: its batches cut up the vector, fit in  *)
(* the arenas and can be worked on alone; then the two with the kernels of *)
(* Grid-FP: the residues printed are the numbers of paths.                 *)
(***************************************************************************)
EXTENDS GridBatch, GridFPProofs

Working(d) == dpc[d] \in {"prepare", "gather", "transition", "scatter"}

(***************************************************************************)
(* Who works on what: a batch that is claimed is executed or in the hands  *)
(* of exactly one thread.                                                  *)
(***************************************************************************)
Claims ==
    /\ stage # "failed"
    /\ stage \in {"fork", "join"} => ri \in 1 .. Residues
    /\ stage = "join" => k \in 1 .. Rows * Wins /\ claimed \subseteq BatchesOf(Win)
    /\ stage # "join" => \A d \in Devices : dpc[d] = "joined"
    /\ \A d \in Devices : ~Working(d) => cur[d] = None
    /\ \A d \in Devices : Working(d) => cur[d] \in claimed /\ executed[cur[d]] = None
    /\ \A d, e \in Devices : Working(d) /\ Working(e) /\ cur[d] = cur[e] => d = e
    /\ stage = "join" => \A b \in claimed :
          executed[b] # None \/ \E d \in Devices : Working(d) /\ cur[d] = b
    /\ stage = "join" => \A b \in Batches : executed[b] # None => b \in claimed

(***************************************************************************)
(* What a thread has passed is claimed, and it does not join before it has *)
(* passed its own batches or, in a dynamic run, all of them.               *)
(***************************************************************************)
Turns ==
    /\ \A d \in Devices : dpc[d] = "steal" => Steals
    /\ stage = "join" /\ mode # "dynamic" =>
          \A i \in DOMAIN InTurn :
             /\ i <= pos[owner[InTurn[i]]] => InTurn[i] \in claimed
             /\ dpc[owner[InTurn[i]]] \in {"steal", "joined"} => i <= pos[owner[InTurn[i]]]
    /\ stage = "join" /\ mode = "dynamic" =>
          /\ \A i \in DOMAIN InTurn : i <= stealPos => InTurn[i] \in claimed
          /\ \A d \in Devices : dpc[d] = "joined" => Len(InTurn) <= stealPos

(***************************************************************************)
(* The arena a residue begins with holds every batch its GPU may work on,  *)
(* and what has been prepared stays until the window is over.              *)
(***************************************************************************)
Eligible(b, d) == mode = "shard" => owner[b] = d

Memory ==
    /\ stage \in {"fork", "join"} =>
          \A b \in Batches, d \in Devices : Eligible(b, d) => Size[b] <= arena[d].size
    /\ \A d \in Devices : Working(d) => Eligible(cur[d], d)
    /\ \A d \in Devices : dpc[d] \in {"gather", "transition", "scatter"} => <<cur[d], d>> \in ready
    /\ stage = "begin" /\ ri = 1 => \A x \in Batches \X Devices : graph[x] = NoGraph

\* In a reclaiming run whoever keeps something of a batch owns it or is about to.
Keepers ==
    mode = "reclaim" /\ stage = "join" =>
        \A b \in Batches, d \in Devices : <<b, d>> \in ready =>
            \/ owner[b] = d
            \/ WinOf[b] = Win /\ (executed[b] = d \/ (Working(d) /\ cur[d] = b))

Printing == Len(printed) = ri - 1

IInv == /\ TypeOK /\ buf = [d \in Devices |-> buf[d]]
        /\ Claims /\ Turns /\ Memory /\ Keepers /\ Printing
        /\ SlotsRight /\ GraphsCurrent /\ OneHolder

-----------------------------------------------------------------------------
LEMMA Indices ==
    /\ Rows * Wins \in Nat
    /\ \A j \in 1 .. Rows * Wins : ((j - 1) % Wins) + 1 \in 1 .. Wins
<1> DEFINE P == Rows * Wins
<1>1. P \in Nat
  BY BatchAssumption
<1>2. ASSUME NEW j \in 1 .. P PROVE ((j - 1) % Wins) + 1 \in 1 .. Wins
  <2>1. j - 1 \in Nat /\ Wins \in Nat /\ Wins > 0
    BY <1>1, <1>2, BatchAssumption
  <2> HIDE DEF P
  <2>2. (j - 1) % Wins \in 0 .. Wins - 1
    BY <2>1
  <2>3. QED
    BY <2>1, <2>2
<1>3. QED
  BY <1>1, <1>2

\* The batches of the window that is worked on, in the order it is gone through.
LEMMA Window ==
    ASSUME k \in 1 .. Rows * Wins
    PROVE  /\ Win \in 1 .. Wins
           /\ InTurn \in Seq(Batches)
           /\ BatchesOf(Win) = {InTurn[i] : i \in DOMAIN InTurn}
           /\ \A i \in DOMAIN InTurn : InTurn[i] \in Batches /\ WinOf[InTurn[i]] = Win
<1>1. Win \in 1 .. Wins
  BY Indices DEF Win
<1>2. InTurn \in {Listed[Win], Order[Win]}
  BY DEF InTurn
<1>3. InTurn \in Seq(Batches)
  BY <1>1, <1>2, BatchAssumption
<1>4. BatchesOf(Win) = {InTurn[i] : i \in DOMAIN InTurn}
  BY <1>1, <1>2, BatchAssumption
<1>5. ASSUME NEW i \in DOMAIN InTurn PROVE InTurn[i] \in Batches /\ WinOf[InTurn[i]] = Win
  BY <1>4, Zenon DEF BatchesOf
<1>6. QED
  BY <1>1, <1>3, <1>4, <1>5

LEMMA LargestSize ==
    ASSUME NEW B \in SUBSET Batches
    PROVE  \E n \in {Size[b] : b \in B} \cup {0} : \A b \in B : Size[b] <= n
<1> DEFINE Bounded(S) == \E n \in {Size[b] : b \in S} \cup {0} : \A b \in S : Size[b] <= n
           Bad == {S \in SUBSET Batches : ~Bounded(S)}
<1>1. SUFFICES ASSUME Bad # {} PROVE FALSE
  BY Zenon
<1>2. Bad \subseteq FiniteSubsetsOf(Batches)
  BY FS_FiniteSubsetsOfFinite, BatchAssumption
<1>3. PICK S \in Bad : \A T \in Bad : ~(<<T, S>> \in StrictSubsetOrdering(Batches))
  <2>1. IsWellFoundedOn(StrictSubsetOrdering(Batches), FiniteSubsetsOf(Batches))
    BY FS_StrictSubsetOrderingWellFounded
  <2> HIDE DEF Bad
  <2>2. QED
    BY <1>1, <1>2, <2>1, WFMin, Zenon
<1>4. PICK b \in S : TRUE
  OBVIOUS
<1> DEFINE R == S \ {b}
<1>5. <<R, S>> \in StrictSubsetOrdering(Batches)
  BY <1>4 DEF StrictSubsetOrdering
<1>6. Bounded(R)
  BY <1>3, <1>5
<1>7. PICK n \in {Size[c] : c \in R} \cup {0} : \A c \in R : Size[c] <= n
  BY <1>6
<1>8. n \in Nat /\ \A c \in S : Size[c] \in Nat
  BY <1>7, BatchAssumption
<1>9. CASE Size[b] <= n
  BY <1>3, <1>4, <1>7, <1>8, <1>9
<1>10. CASE n <= Size[b]
  <2>1. \A c \in S : Size[c] <= Size[b]
    BY <1>4, <1>7, <1>8, <1>10
  <2>2. QED
    BY <1>3, <1>4, <2>1
<1>11. QED
  BY <1>4, <1>8, <1>9, <1>10

\* The arenas a residue begins with.
LEMMA Reserved ==
    ASSUME TypeOK
    PROVE  /\ Reserve \in [Devices -> [id : Nat, size : Nat]]
           /\ \A b \in Batches, d \in Devices : Eligible(b, d) => Size[b] <= Reserve[d].size
<1> DEFINE Sizes(d) == {Size[b] : b \in {c \in Batches : mode = "shard" => owner[c] = d}}
           Largest(d) == CHOOSE n \in Sizes(d) \cup {0} : \A m \in Sizes(d) : m <= n
<1>1. ASSUME NEW d \in Devices
      PROVE  Largest(d) \in Sizes(d) \cup {0} /\ \A m \in Sizes(d) : m <= Largest(d)
  <2>1. \E n \in Sizes(d) \cup {0} : \A m \in Sizes(d) : m <= n
    <3>1. {c \in Batches : mode = "shard" => owner[c] = d} \in SUBSET Batches
      OBVIOUS
    <3>2. QED
      BY <3>1, LargestSize
  <2> HIDE DEF Sizes
  <2>2. QED
    BY <2>1
<1>2. Reserve = [d \in Devices |-> [id |-> arena[d].id + 1, size |-> Largest(d)]]
  BY DEF Reserve
<1>3. \A d \in Devices : Largest(d) \in Nat
  <2>1. \A d \in Devices : Sizes(d) \subseteq Nat
    BY BatchAssumption
  <2> HIDE DEF Sizes, Largest
  <2>2. QED
    BY <1>1, <2>1
<1> HIDE DEF Largest
<1>4. QED
  BY <1>1, <1>2, <1>3 DEF TypeOK, Eligible

-----------------------------------------------------------------------------
LEMMA InitIInv == Init => IInv
<1> SUFFICES ASSUME Init PROVE IInv
  OBVIOUS
<1>1. TypeOK
  BY BatchAssumption, Indices DEF Init, TypeOK, NoGraph
<1>2. buf = [d \in Devices |-> buf[d]] /\ Printing
  BY DEF Init, Printing
<1>3. Claims /\ Turns /\ Keepers
  BY DEF Init, Claims, Turns, Keepers, Working
<1>4. Memory /\ GraphsCurrent /\ OneHolder
  BY DEF Init, Memory, Working, GraphsCurrent, OneHolder
<1>5. SlotsRight
  BY DEF Init, SlotsRight
<1>6. QED
  BY <1>1, <1>2, <1>3, <1>4, <1>5 DEF IInv

LEMMA BeginResidueIInv ==
    ASSUME \A r \in 1 .. Residues : KernelCorrect(r), IInv, BeginResidue
    PROVE  IInv'
<1>1. KernelCorrect(ri) /\ ri \in 1 .. Residues
  BY DEF IInv, TypeOK, BeginResidue
<1>2. TypeOK'
  <2>1. mem' \in [Cells -> Nat] /\ k' \in 0 .. Rows * Wins
    BY <1>1, Indices DEF BeginResidue, KernelCorrect
  <2>2. arena' \in [Devices -> [id : Nat, size : Nat]]
    BY Reserved DEF IInv, BeginResidue
  <2>3. graph' \in [Batches \X Devices -> [arena : Nat, wrap : BOOLEAN]]
    BY DEF IInv, TypeOK, BeginResidue, Invalidated, NoGraph
  <2>4. QED
    BY <2>1, <2>2, <2>3 DEF IInv, TypeOK, BeginResidue
<1>3. (buf = [d \in Devices |-> buf[d]])' /\ Printing'
  BY DEF IInv, BeginResidue, Printing
<1>4. Claims' /\ Turns' /\ Keepers'
  BY <1>1 DEF IInv, BeginResidue, Claims, Turns, Steals, Keepers, Working
<1>5. \A x \in Batches \X Devices : graph'[x] = NoGraph
  BY DEF IInv, TypeOK, BeginResidue, Invalidated, Memory
<1>6. Memory'
  BY Reserved DEF IInv, BeginResidue, Memory, Working, Eligible, Claims
<1>7. GraphsCurrent' /\ OneHolder'
  BY <1>5 DEF IInv, BeginResidue, GraphsCurrent, OneHolder
<1>8. SlotsRight'
  BY <1>1 DEF IInv, BeginResidue, SlotsRight, Claims, KernelCorrect
<1>9. QED
  BY <1>2, <1>3, <1>4, <1>6, <1>7, <1>8 DEF IInv

LEMMA ForkIInv ==
    ASSUME IInv, Fork
    PROVE  IInv'
<1>1. k' \in 1 .. Rows * Wins /\ k' \in 0 .. Rows * Wins /\ k = k' - 1
  <2>1. \A P \in Nat : \A j \in 0 .. P :
            j < P => j + 1 \in 1 .. P /\ j + 1 \in 0 .. P /\ j = (j + 1) - 1
    OBVIOUS
  <2>2. Rows * Wins \in Nat /\ k \in 0 .. Rows * Wins /\ k < Rows * Wins /\ k' = k + 1
    BY Indices DEF IInv, TypeOK, Fork
  <2>3. QED
    BY <2>1, <2>2, Zenon
<1>2. TypeOK'
  <2>1. executed' \in [Batches -> Devices \cup {None}]
    BY DEF Fork
  <2>2. dpc' = [d \in Devices |-> "home"] /\ pos' = [d \in Devices |-> 0]
    BY DEF Fork
  <2>3. QED
    BY <1>1, <2>1, <2>2 DEF IInv, TypeOK, Fork
<1>3. (buf = [d \in Devices |-> buf[d]])' /\ Printing'
  BY DEF IInv, Fork, Printing
<1>4. Claims'
  BY <1>1 DEF IInv, TypeOK, Fork, Claims, Working
<1>5. Turns'
  <2>1. InTurn' \in Seq(Batches)
    <3>1. Win' \in 1 .. Wins
      BY <1>1, Indices DEF Win
    <3>2. InTurn' \in {Listed[Win'], Order[Win']}
      BY DEF InTurn
    <3>3. QED
      BY <3>1, <3>2, BatchAssumption
  <2>2. \A i \in DOMAIN InTurn' : i \in Nat /\ i > 0 /\ InTurn'[i] \in Batches
    BY <2>1
  <2>3. \A i \in DOMAIN InTurn' : owner'[InTurn'[i]] \in Devices
    BY <2>2 DEF IInv, TypeOK, Fork
  <2>4. \A d \in Devices : dpc'[d] = "home" /\ pos'[d] = 0
    BY DEF Fork
  <2>5. stealPos' = 0
    BY DEF Fork
  <2>6. QED
    BY <2>2, <2>3, <2>4, <2>5 DEF Turns
<1>6. Memory'
  BY DEF IInv, Fork, Memory, Working, Eligible
<1>7. GraphsCurrent' /\ OneHolder'
  BY DEF IInv, Fork, GraphsCurrent, OneHolder
<1>8. Keepers'
  BY DEF IInv, Fork, Keepers, OneHolder
<1>9. SlotsRight'
  <2>1. mem' = Ideal(ri', k' - 1)
    BY <1>1 DEF IInv, Fork, SlotsRight
  <2>2. \A b \in Batches : executed'[b] = None
    BY DEF Fork
  <2>3. \A d \in Devices : dpc'[d] = "home"
    BY DEF Fork
  <2>4. stage' = "join"
    BY DEF Fork
  <2>5. QED
    BY <2>1, <2>2, <2>3, <2>4 DEF SlotsRight, BatchesOf
<1>10. QED
  BY <1>2, <1>3, <1>4, <1>5, <1>6, <1>7, <1>8, <1>9 DEF IInv

\* When all threads have joined, every batch of the window is executed.
LEMMA AllExecuted ==
    ASSUME IInv, stage = "join", \A d \in Devices : dpc[d] = "joined"
    PROVE  \A b \in BatchesOf(Win) : executed[b] \in Devices
<1> SUFFICES ASSUME NEW b \in BatchesOf(Win) PROVE executed[b] \in Devices
  OBVIOUS
<1>1. PICK i \in DOMAIN InTurn : InTurn[i] = b
  BY Window DEF IInv, Claims
<1>2. b \in Batches /\ owner[b] \in Devices
  BY DEF BatchesOf, IInv, TypeOK
<1>3. b \in claimed
  <2>1. CASE mode # "dynamic"
    BY <1>1, <1>2, <2>1 DEF IInv, Turns
  <2>2. CASE mode = "dynamic"
    <3>1. Len(InTurn) <= stealPos
      BY <2>2, BatchAssumption DEF IInv, Turns
    <3>2. i \in 1 .. Len(InTurn) /\ stealPos \in Nat
      BY <1>1, Window DEF IInv, Claims, TypeOK
    <3>3. i <= stealPos
      BY <3>1, <3>2, Window DEF IInv, Claims
    <3>4. QED
      BY <1>1, <2>2, <3>3 DEF IInv, Turns
  <2>3. QED
    BY <2>1, <2>2
<1>4. executed[b] # None
  BY <1>3 DEF IInv, Claims, Working
<1>5. QED
  BY <1>2, <1>4 DEF IInv, TypeOK

LEMMA JoinIInv ==
    ASSUME \A r \in 1 .. Residues : KernelCorrect(r), IInv, Join
    PROVE  IInv'
<1>1. /\ stage = "join" /\ \A d \in Devices : dpc[d] = "joined"
      /\ ri \in 1 .. Residues /\ k \in 1 .. Rows * Wins
  BY DEF Join, IInv, Claims
<1>2. \A b \in BatchesOf(Win) : executed[b] \in Devices
  BY <1>1, AllExecuted
<1>3. /\ stage' = "fork" /\ owner' = NewOwner /\ ready' = ready \ Reclaimed
      /\ graph' = [x \in Batches \X Devices |-> IF x \in Reclaimed THEN NoGraph ELSE graph[x]]
      /\ UNCHANGED <<mode, graphMode, ri, k, mem, printed, dpc, pos, cur, buf, arena, claimed,
                     stealPos, executed>>
  BY <1>2, BatchAssumption DEF Join
<1>4. TypeOK'
  <2>1. owner' \in [Batches -> Devices]
    BY <1>2, <1>3 DEF NewOwner, BatchesOf, IInv, TypeOK
  <2>2. graph' \in [Batches \X Devices -> [arena : Nat, wrap : BOOLEAN]]
    BY <1>3 DEF IInv, TypeOK, NoGraph
  <2>3. QED
    BY <1>3, <2>1, <2>2 DEF IInv, TypeOK
<1>5. (buf = [d \in Devices |-> buf[d]])' /\ Printing'
  BY <1>3 DEF IInv, Printing
<1>6. Claims' /\ Keepers'
  BY <1>1, <1>3 DEF IInv, Claims, Keepers, Working
<1>7. Turns'
  BY <1>1, <1>3 DEF IInv, Turns, Steals
<1>8. Memory'
  <2>1. mode = "shard" => \A b \in Batches : owner'[b] = owner[b]
    BY <1>3 DEF NewOwner, Sticky
  <2>2. QED
    BY <1>1, <1>3, <2>1 DEF IInv, Memory, Working, Eligible
<1>9. GraphsCurrent'
  BY <1>1, <1>3 DEF IInv, GraphsCurrent
<1>10. OneHolder'
  <2>1. SUFFICES ASSUME mode = "reclaim", NEW b \in Batches, NEW d \in Devices,
                        <<b, d>> \in ready, <<b, d>> \notin Reclaimed
                 PROVE  owner'[b] = d
    BY <1>3 DEF OneHolder
  <2>2. \/ owner[b] = d
        \/ WinOf[b] = Win /\ executed[b] = d
    BY <1>1, <2>1 DEF IInv, Keepers, Working
  <2>3. owner'[b] = IF WinOf[b] = Win THEN executed[b] ELSE owner[b]
    BY <1>3, <2>1 DEF NewOwner, Sticky
  <2>4. ~(WinOf[b] = Win /\ owner[b] = d /\ executed[b] # d)
    BY <2>1 DEF Reclaimed
  <2>5. QED
    BY <2>2, <2>3, <2>4
<1>11. SlotsRight'
  <2>1. KernelCorrect(ri)
    BY <1>1
  <2>2. mem \in [Cells -> Nat] /\ Ideal(ri, k) \in [Cells -> Nat]
    BY <1>1, <2>1, Indices DEF KernelCorrect, IInv, TypeOK
  <2>3. ASSUME NEW c \in Cells PROVE mem[c] = Ideal(ri, k)[c]
    <3>1. Win \in 1 .. Wins
      BY <1>1, Window
    <3>2. PICK b \in BatchesOf(Win) : c \in CellsOf[b]
      BY <3>1, BatchAssumption
    <3>3. Slice(mem, b) = Slice(Ideal(ri, k), b)
      BY <1>1, <1>2, BatchAssumption DEF IInv, SlotsRight
    <3>4. Slice(mem, b)[c] = mem[c] /\ Slice(Ideal(ri, k), b)[c] = Ideal(ri, k)[c]
      BY <3>2 DEF Slice
    <3>5. QED
      BY <3>3, <3>4
  <2>4. mem = Ideal(ri, k)
    BY <2>2, <2>3
  <2>5. QED
    BY <1>1, <1>3, <2>4 DEF SlotsRight
<1>12. QED
  BY <1>4, <1>5, <1>6, <1>7, <1>8, <1>9, <1>10, <1>11 DEF IInv

LEMMA PrintResidueIInv ==
    ASSUME \A r \in 1 .. Residues : AnswerCorrect(r), IInv, PrintResidue
    PROVE  IInv'
<1>1. ri \in 1 .. Residues /\ stage = "fork" /\ stage' \in {"begin", "end"}
  BY DEF IInv, Claims, PrintResidue
<1>2. printed' = Append(printed, Answer(ri)) /\ Answer(ri) \in Nat
  BY <1>1 DEF PrintResidue, AnswerCorrect, IInv, SlotsRight
<1>3. TypeOK'
  <2>1. printed' \in Seq(Nat)
    BY <1>2 DEF IInv, TypeOK
  <2>2. ri' \in 1 .. Residues + 1
    BY <1>1, BatchAssumption DEF PrintResidue
  <2>3. QED
    BY <1>1, <2>1, <2>2 DEF IInv, TypeOK, PrintResidue
<1>4. (buf = [d \in Devices |-> buf[d]])' /\ Printing'
  BY <1>1, <1>2 DEF IInv, TypeOK, PrintResidue, Printing
<1>5. Claims' /\ Turns' /\ Keepers' /\ GraphsCurrent' /\ OneHolder'
  BY <1>1 DEF IInv, PrintResidue, Claims, Turns, Steals, Keepers, Working, GraphsCurrent, OneHolder
<1>6. Memory' /\ SlotsRight'
  BY <1>1 DEF IInv, TypeOK, PrintResidue, Claims, Memory, Working, Eligible, SlotsRight
<1>7. QED
  BY <1>3, <1>4, <1>5, <1>6 DEF IInv

-----------------------------------------------------------------------------
\* What neither a claim nor the end of a thread touches.
Rest == <<mode, graphMode, stage, ri, k, mem, printed, owner, buf, arena, ready, graph, executed>>

\* All of IInv but TypeOK and Turns.
Others == /\ buf = [d \in Devices |-> buf[d]]
          /\ Claims /\ Memory /\ Keepers /\ Printing /\ SlotsRight /\ GraphsCurrent /\ OneHolder

\* A thread without a batch only runs while a window is worked on.
LEMMA AtWork ==
    ASSUME IInv, NEW d \in Devices, dpc[d] # "joined"
    PROVE  stage = "join" /\ ri \in 1 .. Residues /\ k \in 1 .. Rows * Wins
  BY DEF IInv, Claims

LEMMA ClaimKeeps ==
    ASSUME IInv, NEW d \in Devices, dpc[d] \in {"home", "steal"},
           NEW b \in BatchesOf(Win), Eligible(b, d), Claim(d, b), UNCHANGED Rest
    PROVE  /\ Others'
           /\ claimed \subseteq claimed' /\ b \in claimed' /\ claimed' \subseteq Batches
           /\ dpc' \in [Devices -> {"home", "steal", "prepare", "gather", "transition", "scatter",
                                    "joined"}]
           /\ \A e \in Devices : dpc'[e] = dpc[e] \/ dpc'[e] = "prepare"
           /\ cur' \in [Devices -> Batches \cup {None}]
           /\ \A e \in Devices : dpc'[e] \in {"transition", "scatter"} => cur'[e] = cur[e]
<1>1. stage = "join" /\ b \in Batches /\ WinOf[b] = Win
  BY AtWork DEF BatchesOf
<1>2. CASE b \in claimed
  <2>1. UNCHANGED <<claimed, cur, dpc>>
    BY <1>2 DEF Claim
  <2>2. Others'
    BY <2>1 DEF Rest, IInv, Others, Claims, Memory, Keepers, Printing, SlotsRight,
                GraphsCurrent, OneHolder, Working, Eligible, Win
  <2>3. QED
    BY <1>2, <2>1, <2>2 DEF IInv, TypeOK
<1>3. CASE b \notin claimed
  <2>1. /\ claimed' = claimed \cup {b}
        /\ \A e \in Devices : cur'[e] = (IF e = d THEN b ELSE cur[e])
        /\ \A e \in Devices : dpc'[e] = (IF e = d THEN "prepare" ELSE dpc[e])
    BY <1>3 DEF Claim, IInv, TypeOK
  <2>2. executed[b] = None
    BY <1>1, <1>3 DEF IInv, Claims
  <2>3. \A e \in Devices : Working(e) => cur[e] # b
    BY <1>3 DEF IInv, Claims
  <2>4. ~Working(d) /\ Working(d)' /\ \A e \in Devices : e # d => (Working(e)' <=> Working(e))
    BY <2>1 DEF Working
  <2>5. Claims'
    <3>1. \A e \in Devices : ~Working(e)' => cur'[e] = None
      BY <2>1, <2>4 DEF IInv, Claims
    <3>2. \A e \in Devices : Working(e)' => cur'[e] \in claimed' /\ executed'[cur'[e]] = None
      BY <2>1, <2>2, <2>4 DEF IInv, Claims, Rest
    <3>3. \A e, f \in Devices : Working(e)' /\ Working(f)' /\ cur'[e] = cur'[f] => e = f
      BY <2>1, <2>3, <2>4 DEF IInv, Claims
    <3>4. \A c \in claimed' : executed'[c] # None \/ \E e \in Devices : Working(e)' /\ cur'[e] = c
      <4>1. ASSUME NEW c \in claimed, executed[c] = None
            PROVE  \E e \in Devices : Working(e)' /\ cur'[e] = c
        <5>1. PICK e \in Devices : Working(e) /\ cur[e] = c
          BY <1>1, <4>1 DEF IInv, Claims
        <5>2. QED
          BY <2>1, <2>4, <5>1
      <4>2. \E e \in Devices : Working(e)' /\ cur'[e] = b
        BY <2>1, <2>4
      <4>3. QED
        BY <2>1, <4>1, <4>2 DEF Rest
    <3>5. \A c \in Batches : executed'[c] # None => c \in claimed'
      BY <1>1, <2>1 DEF IInv, Claims, Rest
    <3>6. claimed' \subseteq BatchesOf(Win)'
      BY <1>1, <2>1 DEF IInv, Claims, Rest, Win, BatchesOf
    <3>7. stage' = "join" /\ ri' \in 1 .. Residues /\ k' \in 1 .. Rows * Wins
      BY AtWork DEF Rest
    <3>8. QED
      BY <3>1, <3>2, <3>3, <3>4, <3>5, <3>6, <3>7 DEF Claims
  <2>6. Memory'
    <3>1. \A e \in Devices : Working(e)' => Eligible(cur'[e], e)
      BY <2>1, <2>4 DEF IInv, Memory
    <3>2. \A e \in Devices : dpc'[e] \in {"gather", "transition", "scatter"} =>
                                 <<cur'[e], e>> \in ready
      BY <2>1 DEF IInv, Memory
    <3>3. QED
      BY <3>1, <3>2 DEF IInv, Memory, Eligible, Rest
  <2>7. Keepers'
    BY <2>1, <2>4 DEF IInv, Keepers, Rest, Win
  <2>8. SlotsRight'
    BY <2>1 DEF IInv, SlotsRight, Rest, Win, BatchesOf
  <2>9. (buf = [e \in Devices |-> buf[e]])' /\ Printing' /\ GraphsCurrent' /\ OneHolder'
    BY DEF IInv, Printing, GraphsCurrent, OneHolder, Rest
  <2>10. /\ claimed \subseteq Batches /\ cur \in [Devices -> Batches \cup {None}]
         /\ dpc \in [Devices -> {"home", "steal", "prepare", "gather", "transition", "scatter",
                                 "joined"}]
    BY DEF IInv, TypeOK
  <2>11. claimed' = claimed \cup {b} /\ cur' = [cur EXCEPT ![d] = b]
         /\ dpc' = [dpc EXCEPT ![d] = "prepare"]
    BY <1>3 DEF Claim
  <2>12. /\ claimed' \subseteq Batches /\ cur' \in [Devices -> Batches \cup {None}]
         /\ dpc' \in [Devices -> {"home", "steal", "prepare", "gather", "transition", "scatter",
                                  "joined"}]
    BY <1>1, <2>10, <2>11
  <2>13. QED
    BY <2>1, <2>5, <2>6, <2>7, <2>8, <2>9, <2>12 DEF Others
<1>4. QED
  BY <1>2, <1>3

\* A thread without a batch goes on stealing or joins.
LEMMA LeaveKeeps ==
    ASSUME IInv, NEW d \in Devices, dpc[d] \in {"home", "steal"},
           NEW to \in {"steal", "joined"}, dpc' = [dpc EXCEPT ![d] = to],
           UNCHANGED <<claimed, cur>>, UNCHANGED Rest
    PROVE  Others'
<1>1. \A e \in Devices : dpc'[e] = IF e = d THEN to ELSE dpc[e]
  BY DEF IInv, TypeOK
<1>2. \A e \in Devices : Working(e)' <=> Working(e)
  BY <1>1 DEF Working
<1>3. stage = "join"
  BY AtWork
<1>4. Claims' /\ Keepers'
  BY <1>2, <1>3 DEF IInv, Claims, Keepers, Rest, Win, BatchesOf
<1>5. Memory' /\ SlotsRight'
  BY <1>1, <1>2, <1>3 DEF IInv, Memory, Eligible, SlotsRight, Rest, Win, BatchesOf
<1>6. (buf = [e \in Devices |-> buf[e]])' /\ Printing' /\ GraphsCurrent' /\ OneHolder'
  BY DEF IInv, Printing, GraphsCurrent, OneHolder, Rest
<1>7. QED
  BY <1>4, <1>5, <1>6 DEF Others

LEMMA HomeIInv ==
    ASSUME IInv, NEW d \in Devices, Home(d)
    PROVE  IInv'
<1>1. stage = "join" /\ k \in 1 .. Rows * Wins /\ dpc[d] = "home"
  BY AtWork DEF Home
<1>2. UNCHANGED Rest /\ stealPos' = stealPos
  BY DEF Home, Rest
<1>3. InTurn' = InTurn
  BY <1>2 DEF InTurn, Win, Rest
<1>4. CASE Ahead(d) = {}
  <2> DEFINE to == IF Steals THEN "steal" ELSE "joined"
  <2>1. dpc' = [dpc EXCEPT ![d] = to] /\ UNCHANGED <<pos, claimed, cur>>
    BY <1>4 DEF Home
  <2>2. Others'
    BY <1>1, <1>2, <2>1, LeaveKeeps
  <2>3. TypeOK'
    BY <1>2, <2>1 DEF IInv, TypeOK, Rest
  <2>4. Turns'
    <3>1. \A e \in Devices : dpc'[e] = IF e = d THEN to ELSE dpc[e]
      BY <2>1 DEF IInv, TypeOK
    <3>2. \A e \in Devices : dpc'[e] = "steal" => Steals'
      BY <1>2, <3>1 DEF IInv, Turns, Steals, Rest
    <3>3. ASSUME mode # "dynamic", NEW i \in DOMAIN InTurn
          PROVE  /\ i <= pos[owner[InTurn[i]]] => InTurn[i] \in claimed
                 /\ dpc'[owner[InTurn[i]]] \in {"steal", "joined"} => i <= pos[owner[InTurn[i]]]
      <4>1. owner[InTurn[i]] \in Devices /\ i \in Nat /\ pos[d] \in Nat
        <5>1. InTurn \in Seq(Batches) /\ InTurn[i] \in Batches
          BY <1>1, Window
        <5>2. owner \in [Batches -> Devices] /\ pos \in [Devices -> Nat]
          BY DEF IInv, TypeOK
        <5>3. QED
          BY <5>1, <5>2
      <4>2. owner[InTurn[i]] = d => i <= pos[d]
        BY <1>4, <3>3, <4>1 DEF Ahead
      <4>3. QED
        BY <1>1, <3>1, <3>3, <4>1, <4>2 DEF IInv, Turns
    <3>4. ASSUME mode = "dynamic"
          PROVE  /\ \A i \in DOMAIN InTurn : i <= stealPos => InTurn[i] \in claimed
                 /\ \A e \in Devices : dpc'[e] = "joined" => Len(InTurn) <= stealPos
      BY <1>1, <3>1, <3>4 DEF IInv, Turns, Steals
    <3>5. QED
      BY <1>2, <1>3, <2>1, <3>2, <3>3, <3>4 DEF Turns, Rest
  <2>5. QED
    BY <2>2, <2>3, <2>4 DEF IInv, Others
<1>5. CASE Ahead(d) # {}
  <2>1. PICK i \in Ahead(d) : /\ \A j \in Ahead(d) : i <= j
                              /\ pos' = [pos EXCEPT ![d] = i]
                              /\ Claim(d, InTurn[i])
    BY <1>5 DEF Home
  <2>2. /\ mode # "dynamic" /\ i \in DOMAIN InTurn /\ i \in Nat /\ pos[d] < i
        /\ owner[InTurn[i]] = d
    BY <1>1, Window DEF Ahead
  <2>3. InTurn[i] \in BatchesOf(Win) /\ Eligible(InTurn[i], d)
    BY <1>1, <2>2, Window DEF Eligible
  <2>4. /\ Others'
        /\ claimed \subseteq claimed' /\ InTurn[i] \in claimed' /\ claimed' \subseteq Batches
        /\ dpc' \in [Devices -> {"home", "steal", "prepare", "gather", "transition", "scatter",
                                 "joined"}]
        /\ \A e \in Devices : dpc'[e] = dpc[e] \/ dpc'[e] = "prepare"
        /\ cur' \in [Devices -> Batches \cup {None}]
        /\ \A e \in Devices : dpc'[e] \in {"transition", "scatter"} => cur'[e] = cur[e]
    BY <1>1, <1>2, <2>1, <2>3, ClaimKeeps
  <2>5. pos' \in [Devices -> Nat] /\ \A e \in Devices : pos'[e] = IF e = d THEN i ELSE pos[e]
    BY <2>1, <2>2 DEF IInv, TypeOK
  <2>6. TypeOK'
    BY <1>2, <2>4, <2>5 DEF IInv, TypeOK, Rest
  <2>7. Turns'
    <3>1. \A e \in Devices : dpc'[e] = "steal" => Steals'
      BY <1>2, <2>4 DEF IInv, Turns, Steals, Rest
    <3>2. ASSUME NEW j \in DOMAIN InTurn
          PROVE  /\ j <= pos'[owner[InTurn[j]]] => InTurn[j] \in claimed'
                 /\ dpc'[owner[InTurn[j]]] \in {"steal", "joined"} => j <= pos'[owner[InTurn[j]]]
      <4>1. owner[InTurn[j]] \in Devices /\ j \in Nat /\ pos[d] \in Nat
        <5>1. InTurn \in Seq(Batches) /\ InTurn[j] \in Batches
          BY <1>1, Window
        <5>2. owner \in [Batches -> Devices] /\ pos \in [Devices -> Nat]
          BY DEF IInv, TypeOK
        <5>3. QED
          BY <5>1, <5>2
      <4>2. /\ j <= pos[owner[InTurn[j]]] => InTurn[j] \in claimed
            /\ dpc[owner[InTurn[j]]] \in {"steal", "joined"} => j <= pos[owner[InTurn[j]]]
        BY <1>1, <2>2 DEF IInv, Turns
      <4>3. CASE owner[InTurn[j]] = d
        <5>1. j <= i => j <= pos[d] \/ j = i
          BY <2>1, <2>2, <4>1, <4>3 DEF Ahead
        <5>2. dpc'[d] \notin {"steal", "joined"}
          BY <1>1, <2>4
        <5>3. QED
          BY <2>4, <2>5, <4>1, <4>2, <4>3, <5>1, <5>2
      <4>4. CASE owner[InTurn[j]] # d
        BY <2>4, <2>5, <4>1, <4>2, <4>4
      <4>5. QED
        BY <4>3, <4>4
    <3>3. QED
      BY <1>2, <1>3, <2>2, <3>1, <3>2 DEF Turns, Rest
  <2>8. QED
    BY <2>4, <2>6, <2>7 DEF IInv, Others
<1>6. QED
  BY <1>4, <1>5

LEMMA StealIInv ==
    ASSUME IInv, NEW d \in Devices, Steal(d)
    PROVE  IInv'
<1>1. stage = "join" /\ k \in 1 .. Rows * Wins /\ dpc[d] = "steal" /\ Steals
  BY AtWork DEF Steal, IInv, Turns
<1>2. UNCHANGED Rest /\ stealPos' = stealPos + 1 /\ pos' = pos
  BY DEF Steal, Rest
<1>3. InTurn' = InTurn /\ Steals' = Steals
  BY <1>2 DEF InTurn, Win, Steals, Rest
<1>4. InTurn \in Seq(Batches) /\ stealPos \in Nat /\ Len(InTurn) \in Nat
  BY <1>1, Window DEF IInv, TypeOK
<1>5. CASE stealPos >= Len(InTurn)
  <2>1. dpc' = [dpc EXCEPT ![d] = "joined"] /\ UNCHANGED <<claimed, cur>>
    BY <1>5 DEF Steal
  <2>2. Others'
    BY <1>1, <1>2, <2>1, LeaveKeeps
  <2>3. TypeOK'
    <3>1. stealPos' \in Nat
      BY <1>2, <1>4
    <3>2. dpc' \in [Devices -> {"home", "steal", "prepare", "gather", "transition", "scatter",
                                "joined"}]
      BY <2>1 DEF IInv, TypeOK
    <3>3. \A e \in Devices : dpc'[e] \in {"transition", "scatter"} => dpc[e] = dpc'[e]
      BY <2>1 DEF IInv, TypeOK
    <3>4. QED
      BY <1>2, <2>1, <3>1, <3>2, <3>3 DEF IInv, TypeOK, Rest
  <2>4. \A e \in Devices : dpc'[e] = IF e = d THEN "joined" ELSE dpc[e]
    BY <2>1 DEF IInv, TypeOK
  <2>5. Turns'
    <3>1. \A e \in Devices : dpc'[e] = "steal" => Steals'
      BY <1>1, <1>3
    <3>2. ASSUME mode # "dynamic", NEW j \in DOMAIN InTurn
          PROVE  /\ j <= pos[owner[InTurn[j]]] => InTurn[j] \in claimed
                 /\ dpc'[owner[InTurn[j]]] \in {"steal", "joined"} => j <= pos[owner[InTurn[j]]]
      <4>1. owner[InTurn[j]] \in Devices
        BY <1>1, Window DEF IInv, TypeOK
      <4>2. QED
        BY <1>1, <2>4, <3>2, <4>1 DEF IInv, Turns
    <3>3. ASSUME mode = "dynamic"
          PROVE  /\ \A j \in DOMAIN InTurn : j <= stealPos + 1 => InTurn[j] \in claimed
                 /\ Len(InTurn) <= stealPos + 1
      <4>1. \A j \in DOMAIN InTurn : j <= stealPos
        BY <1>4, <1>5
      <4>2. QED
        BY <1>1, <1>4, <1>5, <3>3, <4>1 DEF IInv, Turns
    <3>4. QED
      BY <1>2, <1>3, <2>1, <3>1, <3>2, <3>3 DEF Turns, Rest
  <2>6. QED
    BY <2>2, <2>3, <2>5 DEF IInv, Others
<1>6. CASE stealPos < Len(InTurn)
  <2> DEFINE i == stealPos + 1
  <2>1. i \in DOMAIN InTurn /\ Claim(d, InTurn[i])
    BY <1>4, <1>6 DEF Steal
  <2>2. InTurn[i] \in BatchesOf(Win) /\ Eligible(InTurn[i], d)
    BY <1>1, <2>1, Window DEF Eligible, Steals
  <2>3. /\ Others'
        /\ claimed \subseteq claimed' /\ InTurn[i] \in claimed' /\ claimed' \subseteq Batches
        /\ dpc' \in [Devices -> {"home", "steal", "prepare", "gather", "transition", "scatter",
                                 "joined"}]
        /\ \A e \in Devices : dpc'[e] = dpc[e] \/ dpc'[e] = "prepare"
        /\ cur' \in [Devices -> Batches \cup {None}]
        /\ \A e \in Devices : dpc'[e] \in {"transition", "scatter"} => cur'[e] = cur[e]
    BY <1>1, <1>2, <2>1, <2>2, ClaimKeeps
  <2>4. TypeOK'
    <3>1. stealPos' \in Nat
      BY <1>2, <1>4
    <3>2. \A e \in Devices : dpc'[e] \in {"transition", "scatter"} =>
              buf'[e] \in [CellsOf[cur'[e]] -> Nat]
      BY <1>2, <2>3 DEF IInv, TypeOK, Rest
    <3>3. QED
      BY <1>2, <2>3, <3>1, <3>2 DEF IInv, TypeOK, Rest
  <2>5. Turns'
    <3>1. \A e \in Devices : dpc'[e] = "steal" => Steals'
      BY <1>1, <1>3
    <3>2. ASSUME mode # "dynamic", NEW j \in DOMAIN InTurn
          PROVE  /\ j <= pos[owner[InTurn[j]]] => InTurn[j] \in claimed'
                 /\ dpc'[owner[InTurn[j]]] \in {"steal", "joined"} => j <= pos[owner[InTurn[j]]]
      <4>1. owner[InTurn[j]] \in Devices
        BY <1>1, Window DEF IInv, TypeOK
      <4>2. QED
        BY <1>1, <2>3, <3>2, <4>1 DEF IInv, Turns
    <3>3. ASSUME mode = "dynamic"
          PROVE  /\ \A j \in DOMAIN InTurn : j <= stealPos + 1 => InTurn[j] \in claimed'
                 /\ \A e \in Devices : dpc'[e] = "joined" => Len(InTurn) <= stealPos + 1
      <4>1. \A j \in DOMAIN InTurn : j <= stealPos + 1 => j <= stealPos \/ j = i
        BY <1>4
      <4>2. \A j \in DOMAIN InTurn : j <= stealPos => InTurn[j] \in claimed
        BY <1>1, <3>3 DEF IInv, Turns
      <4>3. ASSUME NEW e \in Devices, dpc'[e] = "joined" PROVE Len(InTurn) <= stealPos + 1
        <5>1. dpc[e] = "joined"
          BY <2>3, <4>3
        <5>2. Len(InTurn) <= stealPos
          BY <1>1, <3>3, <5>1 DEF IInv, Turns
        <5>3. QED
          BY <1>4, <5>2
      <4>4. QED
        BY <2>3, <4>1, <4>2, <4>3
    <3>4. QED
      BY <1>2, <1>3, <3>1, <3>2, <3>3 DEF Turns, Rest
  <2>6. QED
    BY <2>3, <2>4, <2>5 DEF IInv, Others
<1>7. QED
  BY <1>4, <1>5, <1>6

-----------------------------------------------------------------------------
LEMMA AtBatch ==
    ASSUME IInv, NEW d \in Devices, Working(d)
    PROVE  /\ stage = "join" /\ ri \in 1 .. Residues /\ k \in 1 .. Rows * Wins
           /\ cur[d] \in Batches /\ WinOf[cur[d]] = Win /\ cur[d] \in BatchesOf(Win)
           /\ cur[d] \in claimed /\ executed[cur[d]] = None
<1>1. stage = "join" /\ ri \in 1 .. Residues /\ k \in 1 .. Rows * Wins
  BY AtWork DEF Working
<1>2. cur[d] \in claimed /\ executed[cur[d]] = None
  BY DEF IInv, Claims
<1>3. QED
  BY <1>1, <1>2 DEF IInv, Claims, BatchesOf

\* A thread goes on with its batch, or home when that is done.
LEMMA WorkTurns ==
    ASSUME IInv, NEW d \in Devices, Working(d),
           NEW to \in {"gather", "transition", "scatter", "home"},
           dpc' = [dpc EXCEPT ![d] = to],
           UNCHANGED <<mode, stage, k, owner, pos, claimed, stealPos>>
    PROVE  /\ Turns'
           /\ dpc' \in [Devices -> {"home", "steal", "prepare", "gather", "transition", "scatter",
                                    "joined"}]
           /\ \A e \in Devices : dpc'[e] = IF e = d THEN to ELSE dpc[e]
<1>1. dpc' \in [Devices -> {"home", "steal", "prepare", "gather", "transition", "scatter",
                            "joined"}]
  BY DEF IInv, TypeOK
<1>2. \A e \in Devices : dpc'[e] = IF e = d THEN to ELSE dpc[e]
  BY DEF IInv, TypeOK
<1>3. InTurn' = InTurn /\ Steals' = Steals
  BY DEF InTurn, Win, Steals
<1>4. \A e \in Devices : dpc'[e] \in {"steal", "joined"} => dpc[e] = dpc'[e]
  BY <1>2
<1>5. stage = "join" /\ k \in 1 .. Rows * Wins
  BY AtBatch
<1>6. \A i \in DOMAIN InTurn : owner[InTurn[i]] \in Devices
  BY <1>5, Window DEF IInv, TypeOK
<1>7. Turns'
  BY <1>3, <1>4, <1>5, <1>6 DEF IInv, Turns
<1>8. QED
  BY <1>1, <1>2, <1>7

LEMMA WorkClaims ==
    ASSUME IInv, NEW d \in Devices, Working(d), NEW to \in {"gather", "transition", "scatter"},
           \A e \in Devices : dpc'[e] = IF e = d THEN to ELSE dpc[e],
           UNCHANGED <<mode, stage, ri, k, owner, claimed, cur, executed>>
    PROVE  Claims' /\ (\A e \in Devices : Working(e)' <=> Working(e))
<1>1. \A e \in Devices : Working(e)' <=> Working(e)
  BY DEF Working
<1>2. stage = "join"
  BY AtBatch
<1>3. QED
  BY <1>1, <1>2 DEF IInv, Claims, BatchesOf, Win

LEMMA PrepareIInv ==
    ASSUME IInv, NEW d \in Devices, Prepare(d)
    PROVE  IInv'
<1>1. Working(d) /\ dpc[d] = "prepare"
  BY DEF Prepare, Working
<1>2. /\ stage = "join" /\ cur[d] \in Batches /\ WinOf[cur[d]] = Win
  BY <1>1, AtBatch
<1>3. arena' = arena
  BY <1>1, <1>2 DEF Prepare, IInv, Memory
<1>4. /\ ready' = ready \cup {<<cur[d], d>>}
      /\ dpc' = [dpc EXCEPT ![d] = "gather"]
      /\ UNCHANGED <<mode, graphMode, stage, ri, k, mem, printed, owner, pos, cur, buf, graph,
                     claimed, stealPos, executed>>
  BY DEF Prepare
<1>5. /\ Turns'
      /\ dpc' \in [Devices -> {"home", "steal", "prepare", "gather", "transition", "scatter",
                               "joined"}]
      /\ \A e \in Devices : dpc'[e] = IF e = d THEN "gather" ELSE dpc[e]
  BY <1>1, <1>4, WorkTurns
<1>6. Claims' /\ \A e \in Devices : Working(e)' <=> Working(e)
  BY <1>1, <1>4, <1>5, WorkClaims
<1>7. TypeOK'
  <2>1. ready' \subseteq Batches \X Devices
    BY <1>2, <1>4 DEF IInv, TypeOK
  <2>2. QED
    BY <1>3, <1>4, <1>5, <2>1 DEF IInv, TypeOK
<1>8. Memory'
  BY <1>2, <1>3, <1>4, <1>5, <1>6 DEF IInv, Memory, Eligible
<1>9. Keepers'
  BY <1>1, <1>2, <1>4, <1>6 DEF IInv, Keepers, Win
<1>10. SlotsRight'
  BY <1>2, <1>4, <1>5 DEF IInv, SlotsRight, Win, BatchesOf
<1>11. (buf = [e \in Devices |-> buf[e]])' /\ Printing' /\ GraphsCurrent' /\ OneHolder'
  BY <1>2, <1>3, <1>4 DEF IInv, Printing, GraphsCurrent, OneHolder
<1>12. QED
  BY <1>5, <1>6, <1>7, <1>8, <1>9, <1>10, <1>11 DEF IInv

LEMMA GatherIInv ==
    ASSUME IInv, NEW d \in Devices, Gather(d)
    PROVE  IInv'
<1>1. Working(d) /\ dpc[d] = "gather"
  BY DEF Gather, Working
<1>2. /\ stage = "join" /\ cur[d] \in Batches /\ cur[d] \in BatchesOf(Win)
      /\ executed[cur[d]] = None
  BY <1>1, AtBatch
<1>3. /\ buf' = [buf EXCEPT ![d] = Slice(mem, cur[d])]
      /\ dpc' = [dpc EXCEPT ![d] = "transition"]
      /\ UNCHANGED <<mode, graphMode, stage, ri, k, mem, printed, owner, pos, cur, arena, ready,
                     graph, claimed, stealPos, executed>>
  BY DEF Gather, Slice
<1>4. /\ buf' = [e \in Devices |-> IF e = d THEN Slice(mem, cur[d]) ELSE buf[e]]
      /\ \A e \in Devices : buf'[e] = IF e = d THEN Slice(mem, cur[d]) ELSE buf[e]
  BY <1>3 DEF IInv
<1>5. /\ Turns'
      /\ dpc' \in [Devices -> {"home", "steal", "prepare", "gather", "transition", "scatter",
                               "joined"}]
      /\ \A e \in Devices : dpc'[e] = IF e = d THEN "transition" ELSE dpc[e]
  BY <1>1, <1>3, WorkTurns
<1>6. Claims' /\ \A e \in Devices : Working(e)' <=> Working(e)
  BY <1>1, <1>3, <1>5, WorkClaims
<1>7. TypeOK'
  <2>1. Slice(mem, cur[d]) \in [CellsOf[cur[d]] -> Nat]
    BY <1>2, BatchAssumption DEF Slice, IInv, TypeOK
  <2>2. \A e \in Devices : dpc'[e] \in {"transition", "scatter"} =>
            buf'[e] \in [CellsOf[cur'[e]] -> Nat]
    BY <1>3, <1>4, <1>5, <2>1 DEF IInv, TypeOK
  <2>3. QED
    BY <1>3, <1>5, <2>2 DEF IInv, TypeOK
<1>8. Memory'
  BY <1>1, <1>2, <1>3, <1>5, <1>6 DEF IInv, Memory, Eligible
<1>9. Keepers'
  BY <1>3, <1>6 DEF IInv, Keepers, Win
<1>10. SlotsRight'
  <2>1. Slice(mem, cur[d]) = Slice(Ideal(ri, k - 1), cur[d])
    BY <1>2 DEF IInv, SlotsRight
  <2>2. \A b \in BatchesOf(Win) :
          Slice(mem, b) = Slice(Ideal(ri, IF executed[b] = None THEN k - 1 ELSE k), b)
    BY <1>2 DEF IInv, SlotsRight
  <2>3. \A e \in Devices :
          /\ dpc'[e] = "transition" => buf'[e] = Slice(Ideal(ri, k - 1), cur[e])
          /\ dpc'[e] = "scatter" => buf'[e] = Slice(Ideal(ri, k), cur[e])
    BY <1>4, <1>5, <2>1 DEF IInv, SlotsRight
  <2>4. QED
    BY <1>2, <1>3, <2>2, <2>3 DEF SlotsRight, Slice, Win, BatchesOf
<1>11. Printing' /\ GraphsCurrent' /\ OneHolder'
  BY <1>3 DEF IInv, Printing, GraphsCurrent, OneHolder
<1>12. (buf = [e \in Devices |-> buf[e]])'
  BY <1>4
<1>13. QED
  BY <1>5, <1>6, <1>7, <1>8, <1>9, <1>10, <1>11, <1>12 DEF IInv

\* What is launched is bound to the arena and to kernels the modulus allows.
LEMMA LaunchedRight ==
    ASSUME IInv, NEW d \in Devices, Working(d)
    PROVE  Launched(d) = [arena |-> arena[d].id, wrap |-> ri \in Wrap32]
  BY AtBatch DEF Launched, IInv, GraphsCurrent

LEMMA TransitionIInv ==
    ASSUME \A r \in 1 .. Residues : KernelCorrect(r), IInv, NEW d \in Devices, Transition(d)
    PROVE  IInv'
<1> DEFINE g == [arena |-> arena[d].id, wrap |-> ri \in Wrap32]
           b == cur[d]
<1>1. Working(d) /\ dpc[d] = "transition"
  BY DEF Transition, Working
<1>2. /\ stage = "join" /\ ri \in 1 .. Residues /\ k \in 1 .. Rows * Wins
      /\ b \in Batches /\ b \in BatchesOf(Win)
  BY <1>1, AtBatch
<1>3. Launched(d) = g /\ g.arena = arena[d].id /\ (g.wrap <=> ri \in Wrap32)
  BY <1>1, LaunchedRight
<1>4. /\ graph' = IF graphMode = 0 THEN graph ELSE [graph EXCEPT ![<<b, d>>] = g]
      /\ buf' = [buf EXCEPT ![d] = Kernel(ri, b, buf[d])]
      /\ dpc' = [dpc EXCEPT ![d] = "scatter"]
      /\ UNCHANGED <<mode, graphMode, stage, ri, k, mem, printed, owner, pos, cur, arena, ready,
                     claimed, stealPos, executed>>
  BY <1>3 DEF Transition
<1>5. buf[d] = Slice(Ideal(ri, k - 1), b)
  BY <1>1 DEF IInv, SlotsRight
<1>6. Kernel(ri, b, buf[d]) = Slice(Ideal(ri, k), b)
  BY <1>2, <1>5 DEF KernelCorrect, Win
<1>7. /\ buf' = [e \in Devices |-> IF e = d THEN Slice(Ideal(ri, k), b) ELSE buf[e]]
      /\ \A e \in Devices : buf'[e] = IF e = d THEN Slice(Ideal(ri, k), b) ELSE buf[e]
  BY <1>4, <1>6 DEF IInv
<1>8. /\ Turns'
      /\ dpc' \in [Devices -> {"home", "steal", "prepare", "gather", "transition", "scatter",
                               "joined"}]
      /\ \A e \in Devices : dpc'[e] = IF e = d THEN "scatter" ELSE dpc[e]
  BY <1>1, <1>4, WorkTurns
<1>9. Claims' /\ \A e \in Devices : Working(e)' <=> Working(e)
  BY <1>1, <1>4, <1>8, WorkClaims
<1>10. TypeOK'
  <2>1. Ideal(ri, k) \in [Cells -> Nat]
    BY <1>2, Indices DEF KernelCorrect
  <2>2. Slice(Ideal(ri, k), b) \in [CellsOf[b] -> Nat]
    BY <1>2, <2>1, BatchAssumption DEF Slice
  <2>3. \A e \in Devices : dpc'[e] \in {"transition", "scatter"} =>
            buf'[e] \in [CellsOf[cur'[e]] -> Nat]
    BY <1>4, <1>7, <1>8, <2>2 DEF IInv, TypeOK
  <2>4. graph' \in [Batches \X Devices -> [arena : Nat, wrap : BOOLEAN]]
    <3>1. g \in [arena : Nat, wrap : BOOLEAN]
      BY DEF IInv, TypeOK
    <3>2. graph \in [Batches \X Devices -> [arena : Nat, wrap : BOOLEAN]]
      BY DEF IInv, TypeOK
    <3> HIDE DEF g
    <3>3. QED
      BY <1>4, <3>1, <3>2
  <2>5. QED
    BY <1>4, <1>8, <2>3, <2>4 DEF IInv, TypeOK
<1>11. Memory'
  <2>1. \A e \in Devices : dpc'[e] \in {"gather", "transition", "scatter"} =>
            <<cur[e], e>> \in ready
    BY <1>1, <1>8 DEF IInv, Memory
  <2>2. QED
    BY <1>2, <1>4, <1>9, <2>1 DEF IInv, Memory, Eligible
<1>12. Keepers'
  BY <1>4, <1>9 DEF IInv, Keepers, Win
<1>13. GraphsCurrent'
  <2>1. ASSUME NEW c \in Batches, NEW e \in Devices, graph'[<<c, e>>] # NoGraph
        PROVE  /\ graph'[<<c, e>>] = [arena |-> arena[e].id, wrap |-> ri \in Wrap32]
               /\ <<c, e>> \in ready
    <3>1. <<b, d>> \in ready
      BY <1>1 DEF IInv, Memory
    <3>2. CASE graph'[<<c, e>>] = graph[<<c, e>>]
      BY <1>2, <2>1, <3>2 DEF IInv, GraphsCurrent
    <3>3. CASE c = b /\ e = d /\ graph'[<<c, e>>] = g
      BY <3>1, <3>3
    <3>4. graph'[<<c, e>>] = graph[<<c, e>>] \/ (c = b /\ e = d /\ graph'[<<c, e>>] = g)
      <4>1. graph \in [Batches \X Devices -> [arena : Nat, wrap : BOOLEAN]]
        BY DEF IInv, TypeOK
      <4> HIDE DEF g
      <4>2. QED
        BY <1>4, <2>1, <4>1
    <3>5. QED
      BY <3>2, <3>3, <3>4
  <2>2. QED
    BY <1>4, <2>1 DEF GraphsCurrent
<1>14. SlotsRight'
  <2>1. \A c \in BatchesOf(Win) :
          Slice(mem, c) = Slice(Ideal(ri, IF executed[c] = None THEN k - 1 ELSE k), c)
    BY <1>2 DEF IInv, SlotsRight
  <2>2. \A e \in Devices :
          /\ dpc'[e] = "transition" => buf'[e] = Slice(Ideal(ri, k - 1), cur[e])
          /\ dpc'[e] = "scatter" => buf'[e] = Slice(Ideal(ri, k), cur[e])
    BY <1>7, <1>8 DEF IInv, SlotsRight
  <2>3. QED
    BY <1>2, <1>4, <2>1, <2>2 DEF SlotsRight, Slice, Win, BatchesOf
<1>15. Printing' /\ OneHolder' /\ (buf = [e \in Devices |-> buf[e]])'
  BY <1>4, <1>7 DEF IInv, Printing, OneHolder
<1>16. QED
  BY <1>8, <1>9, <1>10, <1>11, <1>12, <1>13, <1>14, <1>15 DEF IInv

LEMMA ScatterIInv ==
    ASSUME IInv, NEW d \in Devices, Scatter(d)
    PROVE  IInv'
<1> DEFINE b == cur[d]
<1>1. Working(d) /\ dpc[d] = "scatter"
  BY DEF Scatter, Working
<1>2. /\ stage = "join" /\ k \in 1 .. Rows * Wins /\ b \in claimed
      /\ b \in Batches /\ b \in BatchesOf(Win) /\ WinOf[b] = Win /\ executed[b] = None
  BY <1>1, AtBatch
<1>3. /\ mem' = [c \in Cells |-> IF c \in CellsOf[b] THEN buf[d][c] ELSE mem[c]]
      /\ executed' = [executed EXCEPT ![b] = d]
      /\ buf' = [buf EXCEPT ![d] = <<>>]
      /\ cur' = [cur EXCEPT ![d] = None]
      /\ dpc' = [dpc EXCEPT ![d] = "home"]
      /\ UNCHANGED <<mode, graphMode, stage, ri, k, printed, owner, pos, arena, ready, graph,
                     claimed, stealPos>>
  BY DEF Scatter
<1>4. /\ buf' = [e \in Devices |-> IF e = d THEN <<>> ELSE buf[e]]
      /\ \A e \in Devices : e # d => buf'[e] = buf[e]
  BY <1>3 DEF IInv
<1>5. /\ Turns'
      /\ dpc' \in [Devices -> {"home", "steal", "prepare", "gather", "transition", "scatter",
                               "joined"}]
      /\ \A e \in Devices : dpc'[e] = IF e = d THEN "home" ELSE dpc[e]
  BY <1>1, <1>3, WorkTurns
<1>6. /\ \A c \in Batches : executed'[c] = IF c = b THEN d ELSE executed[c]
      /\ \A e \in Devices : cur'[e] = IF e = d THEN None ELSE cur[e]
  BY <1>3 DEF IInv, TypeOK
<1>7. ~Working(d)' /\ \A e \in Devices : e # d => (Working(e)' <=> Working(e))
  BY <1>5 DEF Working
<1>8. d # None
  BY BatchAssumption
<1>9. Claims'
  <2>1. \A e \in Devices : ~Working(e)' => cur'[e] = None
    BY <1>6, <1>7 DEF IInv, Claims
  <2>2. ASSUME NEW e \in Devices, Working(e)' PROVE cur'[e] \in claimed' /\ executed'[cur'[e]] = None
    <3>1. e # d /\ Working(e) /\ cur'[e] = cur[e] /\ cur[e] # b
      BY <1>1, <1>6, <1>7, <2>2 DEF IInv, Claims
    <3>2. QED
      BY <1>3, <1>6, <3>1, AtBatch
  <2>3. \A e, f \in Devices : Working(e)' /\ Working(f)' /\ cur'[e] = cur'[f] => e = f
    BY <1>6, <1>7 DEF IInv, Claims
  <2>4. ASSUME NEW c \in claimed, executed'[c] = None
        PROVE  \E e \in Devices : Working(e)' /\ cur'[e] = c
    <3>1. c \in Batches /\ c # b /\ executed[c] = None
      BY <1>2, <1>6, <1>8, <2>4 DEF IInv, TypeOK
    <3>2. PICK e \in Devices : Working(e) /\ cur[e] = c
      BY <1>2, <3>1 DEF IInv, Claims
    <3>3. QED
      BY <1>6, <1>7, <3>1, <3>2
  <2>5. \A c \in Batches : executed'[c] # None => c \in claimed
    BY <1>2, <1>6 DEF IInv, Claims
  <2>6. claimed \subseteq BatchesOf(Win)' /\ ri' \in 1 .. Residues
    BY <1>2, <1>3 DEF IInv, Claims, Win, BatchesOf
  <2>7. QED
    BY <1>2, <1>3, <2>1, <2>2, <2>3, <2>4, <2>5, <2>6 DEF Claims
<1>10. buf[d] \in [CellsOf[b] -> Nat] /\ CellsOf[b] \subseteq Cells
  BY <1>1, <1>2, BatchAssumption DEF IInv, TypeOK
<1>11. mem \in [Cells -> Nat]
  BY DEF IInv, TypeOK
<1>12. TypeOK'
  <2>1. mem' \in [Cells -> Nat]
    BY <1>3, <1>10, <1>11
  <2>2. executed' \in [Batches -> Devices \cup {None}]
    BY <1>3 DEF IInv, TypeOK
  <2>3. cur' \in [Devices -> Batches \cup {None}]
    BY <1>3 DEF IInv, TypeOK
  <2>4. \A e \in Devices : dpc'[e] \in {"transition", "scatter"} =>
            buf'[e] \in [CellsOf[cur'[e]] -> Nat]
    BY <1>4, <1>5, <1>6 DEF IInv, TypeOK
  <2>5. QED
    BY <1>3, <1>5, <2>1, <2>2, <2>3, <2>4 DEF IInv, TypeOK
<1>13. Memory'
  <2>1. \A e \in Devices : dpc'[e] \in {"gather", "transition", "scatter"} =>
            <<cur'[e], e>> \in ready
    BY <1>5, <1>6 DEF IInv, Memory
  <2>2. \A e \in Devices : Working(e)' => Eligible(cur'[e], e)
    BY <1>6, <1>7 DEF IInv, Memory
  <2>3. QED
    BY <1>2, <1>3, <2>1, <2>2 DEF IInv, Memory, Eligible
<1>14. Keepers'
  <2>1. SUFFICES ASSUME mode = "reclaim", NEW c \in Batches, NEW e \in Devices, <<c, e>> \in ready
                 PROVE  \/ owner[c] = e
                        \/ WinOf[c] = Win /\ (executed'[c] = e \/ (Working(e)' /\ cur'[e] = c))
    BY <1>3 DEF Keepers, Win
  <2>2. \/ owner[c] = e
        \/ WinOf[c] = Win /\ (executed[c] = e \/ (Working(e) /\ cur[e] = c))
    BY <1>2, <2>1 DEF IInv, Keepers
  <2>3. executed[c] = e => executed'[c] = e
    BY <1>2, <1>6, BatchAssumption
  <2>4. Working(e) /\ cur[e] = c => executed'[c] = e \/ (Working(e)' /\ cur'[e] = c)
    BY <1>6, <1>7
  <2>5. QED
    BY <2>2, <2>3, <2>4
<1>15. SlotsRight'
  <2>1. buf[d] = Slice(Ideal(ri, k), b)
    BY <1>1 DEF IInv, SlotsRight
  <2>2. Slice(mem', b) = Slice(Ideal(ri, k), b)
    <3>1. \A c \in CellsOf[b] : mem'[c] = Ideal(ri, k)[c]
      BY <1>3, <1>10, <2>1 DEF Slice
    <3>2. QED
      BY <3>1 DEF Slice
  <2>3. ASSUME NEW c \in BatchesOf(Win), c # b
        PROVE  Slice(mem', c) = Slice(mem, c)
    <3>1. CellsOf[c] \subseteq Cells /\ CellsOf[c] \cap CellsOf[b] = {}
      BY <1>2, <2>3, BatchAssumption DEF BatchesOf
    <3>2. \A x \in CellsOf[c] : mem'[x] = mem[x]
      BY <1>3, <3>1
    <3>3. QED
      BY <3>2 DEF Slice
  <2>4. ASSUME NEW c \in BatchesOf(Win)
        PROVE  Slice(mem', c) = Slice(Ideal(ri, IF executed'[c] = None THEN k - 1 ELSE k), c)
    <3>1. c \in Batches
      BY DEF BatchesOf
    <3>2. CASE c = b
      BY <1>6, <1>8, <2>2, <3>1, <3>2
    <3>3. CASE c # b
      <4>1. Slice(mem, c) = Slice(Ideal(ri, IF executed[c] = None THEN k - 1 ELSE k), c)
        BY <1>2 DEF IInv, SlotsRight
      <4>2. executed'[c] = executed[c]
        BY <1>6, <3>1, <3>3
      <4>3. QED
        BY <2>3, <3>3, <4>1, <4>2
    <3>4. QED
      BY <3>2, <3>3
  <2>5. \A e \in Devices :
          /\ dpc'[e] = "transition" => buf'[e] = Slice(Ideal(ri, k - 1), cur'[e])
          /\ dpc'[e] = "scatter" => buf'[e] = Slice(Ideal(ri, k), cur'[e])
    BY <1>4, <1>5, <1>6 DEF IInv, SlotsRight
  <2>6. QED
    BY <1>2, <1>3, <2>4, <2>5 DEF SlotsRight, Win, BatchesOf
<1>16. Printing' /\ GraphsCurrent' /\ OneHolder' /\ (buf = [e \in Devices |-> buf[e]])'
  BY <1>2, <1>3, <1>4 DEF IInv, Printing, GraphsCurrent, OneHolder
<1>17. QED
  BY <1>5, <1>9, <1>12, <1>13, <1>14, <1>15, <1>16 DEF IInv

-----------------------------------------------------------------------------
\* What the scheduler asks of the kernels and of what is read off the last vector.
Correct == \A r \in 1 .. Residues : KernelCorrect(r) /\ AnswerCorrect(r)

LEMMA NextIInv == Correct /\ IInv /\ [Next]_vars => IInv'
<1> SUFFICES ASSUME Correct, IInv, [Next]_vars PROVE IInv'
  OBVIOUS
<1>1. CASE UNCHANGED vars
  <2>1. TypeOK' /\ Memory' /\ Keepers' /\ Printing' /\ (buf = [d \in Devices |-> buf[d]])'
    BY <1>1 DEF vars, IInv, TypeOK, Memory, Keepers, Printing, Working, Eligible, Win
  <2>2. Claims' /\ Turns'
    BY <1>1 DEF vars, IInv, Claims, Turns, Steals, Working, Win, InTurn, BatchesOf
  <2>3. SlotsRight' /\ GraphsCurrent' /\ OneHolder'
    BY <1>1 DEF vars, IInv, SlotsRight, GraphsCurrent, OneHolder, Win, BatchesOf, Slice
  <2>4. QED
    BY <2>1, <2>2, <2>3 DEF IInv
<1>2. CASE MainStep
  BY <1>2, BeginResidueIInv, ForkIInv, JoinIInv, PrintResidueIInv DEF MainStep, Correct
<1>3. ASSUME NEW d \in Devices, Thread(d) PROVE IInv'
  BY <1>3, HomeIInv, StealIInv, PrepareIInv, GatherIInv, TransitionIInv, ScatterIInv
  DEF Thread, Correct
<1>4. QED
  BY <1>1, <1>2, <1>3 DEF Next, Over

PInv == IInv /\ PrintedRight

LEMMA InitPInv == Init => PInv
  BY InitIInv DEF PInv, Init, PrintedRight

LEMMA NextPInv == Correct /\ PInv /\ [Next]_vars => PInv'
<1> SUFFICES ASSUME Correct, PInv, [Next]_vars PROVE PrintedRight'
  BY NextIInv DEF PInv
<1>1. CASE PrintResidue
  <2>1. printed \in Seq(Nat) /\ Len(printed) = ri - 1 /\ ri \in 1 .. Residues
    BY <1>1 DEF PInv, IInv, TypeOK, Printing, Claims, PrintResidue
  <2>2. printed' = Append(printed, Answer(ri)) /\ Answer(ri) \in Nat
    BY <1>1, <2>1 DEF PrintResidue, Correct, AnswerCorrect, PInv, IInv, SlotsRight
  <2>3. QED
    BY <2>1, <2>2 DEF PInv, PrintedRight
<1>2. CASE printed' = printed
  BY <1>2 DEF PInv, PrintedRight
<1>3. PrintResidue \/ printed' = printed
  BY DEF Next, vars, MainStep, Thread, Over, BeginResidue, Fork, Join, Home, Steal, Prepare, Gather,
         Transition, Scatter
<1>4. QED
  BY <1>1, <1>2, <1>3

(***************************************************************************)
(* If the kernels of a batch do what they should with the slots of the     *)
(* batch, whatever that is, then in any mode, with any number of GPUs and  *)
(* any interleaving, every slot of the vector is one window further once   *)
(* its batch is executed and not before, no stale graph is launched, and   *)
(* each residue printed is the one read off the right vector.              *)
(***************************************************************************)
THEOREM SchedulerRight ==
    ASSUME Correct
    PROVE  Spec => []PInv
<1>1. PInv /\ [Next]_vars => PInv'
  BY NextPInv
<1>2. QED
  BY <1>1, InitPInv, PTL DEF Spec

-----------------------------------------------------------------------------
(***************************************************************************)
(* The order of the groups.                                                *)
(***************************************************************************)
\* Masks are ordered as the numbers their bits spell are.
LEMMA MaskOrder ==
  ASSUME NEW n \in Nat
  PROVE  /\ \A a \in SUBSET (0 .. n) : ~MaskBelow(a, a)
         /\ \A a, b, c \in SUBSET (0 .. n) :
               MaskBelow(a, b) /\ MaskBelow(b, c) => MaskBelow(a, c)
         /\ \A a, b \in SUBSET (0 .. n) : a = b \/ MaskBelow(a, b) \/ MaskBelow(b, a)
  <1>1. ASSUME NEW a \in SUBSET (0 .. n) PROVE ~MaskBelow(a, a)
    BY DEF MaskBelow
  <1>2. ASSUME NEW a \in SUBSET (0 .. n), NEW b \in SUBSET (0 .. n), NEW c \in SUBSET (0 .. n),
               MaskBelow(a, b), MaskBelow(b, c)
        PROVE  MaskBelow(a, c)
    <2>1. PICK p \in b \ a : \A x \in a \ b : x < p
      BY <1>2 DEF MaskBelow
    <2>2. PICK q \in c \ b : \A x \in b \ c : x < q
      BY <1>2 DEF MaskBelow
    <2>3. p \in Int /\ q \in Int /\ p # q /\ \A x \in a : x \in Int
      OBVIOUS
    <2>4. CASE p < q
      <3>1. q \in c \ a
        BY <2>1, <2>2, <2>3, <2>4
      <3>2. ASSUME NEW x \in a \ c PROVE x < q
        BY <2>1, <2>2, <2>3, <2>4
      <3>3. QED
        BY <3>1, <3>2 DEF MaskBelow
    <2>5. CASE q < p
      <3>1. p \in c \ a
        BY <2>1, <2>2, <2>3, <2>5
      <3>2. ASSUME NEW x \in a \ c PROVE x < p
        BY <2>1, <2>2, <2>3, <2>5
      <3>3. QED
        BY <3>1, <3>2 DEF MaskBelow
    <2>6. QED
      BY <2>3, <2>4, <2>5
  <1>3. ASSUME NEW a \in SUBSET (0 .. n), NEW b \in SUBSET (0 .. n), a # b
        PROVE  MaskBelow(a, b) \/ MaskBelow(b, a)
    <2> DEFINE D == (a \ b) \cup (b \ a)
    <2>1. D \in SUBSET (0 .. n) /\ D # {}
      BY <1>3
    <2>2. PICK q \in D : \A x \in D : x <= q
      <3> HIDE DEF D
      <3>1. QED
        BY <2>1, NatMax
    <2>3. q \in Int /\ \A x \in D : x \in Int
      OBVIOUS
    <2>4. CASE q \in b \ a
      <3>1. \A x \in a \ b : x < q
        BY <2>2, <2>3, <2>4
      <3>2. QED
        BY <2>4, <3>1 DEF MaskBelow
    <2>5. CASE q \in a \ b
      <3>1. \A x \in b \ a : x < q
        BY <2>2, <2>3, <2>5
      <3>2. QED
        BY <2>5, <3>1 DEF MaskBelow
    <2>6. QED
      BY <2>4, <2>5
  <1>4. QED
    BY <1>1, <1>2, <1>3

\* Groups as the plan is made of: finitely many, one for a mask.
Proper(groups) ==
  /\ IsFiniteSet(groups)
  /\ \A g \in groups : g.main \in Nat /\ g.block \in Nat /\ g.occ \in SUBSET (0 .. W)
  /\ \A g, h \in groups : g.occ = h.occ => g = h

\* By decreasing work, each group has a place.
LEMMA WorkSorted ==
  ASSUME NEW groups, Proper(groups), NEW order, order = InOrder(groups, WorkOrder)
  PROVE  Enumerates(order, groups)
  <1> DEFINE R == {e \in groups \X groups : WorkOrder(e[1], e[2])}
             Masks == SUBSET (0 .. W)
             M == {e \in Masks \X Masks : MaskBelow(e[1], e[2])}
             Sooner(x, y) == \/ GroupWork(x) > GroupWork(y)
                             \/ GroupWork(x) = GroupWork(y) /\ <<x.occ, y.occ>> \in M
  <1>0. W \in Nat
    BY GridAssumption
  <1>1. /\ IsFiniteSet(groups)
        /\ \A g \in groups : GroupWork(g) \in Int /\ g.occ \in Masks
        /\ \A g, h \in groups : g.occ = h.occ => g = h
    BY DEF Proper, GroupWork
  <1>2. /\ \A a \in Masks : <<a, a>> \notin M
        /\ \A a, b, c \in Masks : <<a, b>> \in M /\ <<b, c>> \in M => <<a, c>> \in M
        /\ \A a, b \in Masks : a = b \/ <<a, b>> \in M \/ <<b, a>> \in M
    <2>1. \A a, b \in Masks : <<a, b>> \in M <=> MaskBelow(a, b)
      OBVIOUS
    <2> HIDE DEF M
    <2>2. QED
      BY <1>0, <2>1, MaskOrder, Zenon
  <1>3. \A x, y \in groups : <<x, y>> \in R <=> WorkOrder(x, y)
    OBVIOUS
  <1>4. \A x, y \in groups : WorkOrder(x, y) <=> Sooner(x, y)
    <2>1. \A x, y \in groups : <<x.occ, y.occ>> \in M <=> MaskBelow(x.occ, y.occ)
      BY <1>1
    <2> HIDE DEF M
    <2>2. QED
      BY <2>1, Zenon DEF WorkOrder
  <1>5. ASSUME NEW x \in groups PROVE {y \in groups : WorkOrder(y, x)} = {y \in groups : <<y, x>> \in R}
    BY <1>3
  <1> HIDE DEF R, M, Masks
  <1>6. \A x \in groups : <<x, x>> \notin R
    <2>1. ASSUME NEW x \in groups PROVE ~Sooner(x, x)
      BY <1>1, <1>2
    <2> HIDE DEF Sooner
    <2>2. QED
      BY <1>3, <1>4, <2>1
  <1>7. \A x, y, z \in groups : <<x, y>> \in R /\ <<y, z>> \in R => <<x, z>> \in R
    <2>1. ASSUME NEW x \in groups, NEW y \in groups, NEW z \in groups, Sooner(x, y), Sooner(y, z)
          PROVE  Sooner(x, z)
      BY <1>1, <1>2, <2>1
    <2> HIDE DEF Sooner
    <2>2. QED
      BY <1>3, <1>4, <2>1
  <1>8. \A x, y \in groups : x = y \/ <<x, y>> \in R \/ <<y, x>> \in R
    <2>1. ASSUME NEW x \in groups, NEW y \in groups PROVE x = y \/ Sooner(x, y) \/ Sooner(y, x)
      BY <1>1, <1>2
    <2> HIDE DEF Sooner
    <2>2. QED
      BY <1>3, <1>4, <2>1
  <1>9. order = Counted(groups, R)
    <2> DEFINE A(x) == Cardinality({y \in groups : WorkOrder(y, x)})
               B(x) == Cardinality({y \in groups : <<y, x>> \in R})
    <2>1. \A x \in groups : A(x) = B(x)
      BY <1>5
    <2>2. order = [i \in 1 .. Cardinality(groups) |-> CHOOSE x \in groups : A(x) = i - 1]
      BY DEF InOrder
    <2> HIDE DEF A, B
    <2>3. ASSUME NEW i PROVE (CHOOSE x \in groups : A(x) = i - 1) = (CHOOSE x \in groups : B(x) = i - 1)
      <3>1. \A x : (x \in groups /\ A(x) = i - 1) <=> (x \in groups /\ B(x) = i - 1)
        BY <2>1
      <3>2. QED
        BY <3>1
    <2>4. order = [i \in 1 .. Cardinality(groups) |-> CHOOSE x \in groups : B(x) = i - 1]
      BY <2>2, <2>3
    <2>5. QED
      BY <2>4 DEF B, Counted
  <1>10. StrictOrder(groups, R)
    BY <1>6, <1>7, <1>8 DEF StrictOrder
  <1>11. IsFiniteSet(groups)
    BY <1>1
  <1>12. QED
    BY <1>9, <1>10, <1>11, Sorts

-----------------------------------------------------------------------------
(***************************************************************************)
(* Groups packed into batches.                                             *)
(***************************************************************************)
\* Rounding up to a multiple of Align gives a natural that is no less.
LEMMA AlignedType ==
  ASSUME NEW n \in Nat
  PROVE  Aligned(n) \in Nat
  <1>1. Align \in Nat \ {0}
    BY PlanAssumption
  <1> DEFINE q == (n + Align - 1) \div Align
  <1>2. q \in Nat
    BY <1>1
  <1>3. q * Align \in Nat
    <2> HIDE DEF q
    <2>1. QED
      BY <1>1, <1>2
  <1>4. QED
    BY <1>3 DEF Aligned

\* Sizes are naturals.
LEMMA SizeType ==
  ASSUME NEW groups, Proper(groups), NEW g \in groups
  PROVE  GroupSize(g) \in Nat /\ GroupWork(g) \in Nat /\ g.main + g.block \in Nat
  <1>1. g.main \in Nat /\ g.block \in Nat
    BY DEF Proper
  <1>2. Aligned(g.main) \in Nat /\ Aligned(g.block) \in Nat
    BY <1>1, AlignedType
  <1>3. QED
    BY <1>1, <1>2 DEF GroupSize, GroupWork

LEMMA BatchTypes ==
  ASSUME NEW groups, Proper(groups), NEW b \in Seq(groups)
  PROVE  BatchSize(b) \in Nat /\ BatchWork(b) \in Nat
  <1> DEFINE size == [j \in DOMAIN b |-> GroupSize(b[j])]
             work == [j \in DOMAIN b |-> GroupWork(b[j])]
  <1>1. Len(b) \in Int /\ 1 \in Int /\ DOMAIN b = 1 .. Len(b) /\ \A j \in DOMAIN b : b[j] \in groups
    OBVIOUS
  <1>2. IsFiniteSet(DOMAIN b)
    BY <1>1, FS_Interval
  <1>3. \A j \in DOMAIN b : size[j] \in Nat /\ work[j] \in Nat
    BY <1>1, SizeType
  <1>4. BatchSize(b) = SumFunctionOnSet(size, DOMAIN b) /\ BatchWork(b) = SumFunctionOnSet(work, DOMAIN b)
    BY DEF BatchSize, BatchWork, SumFunction
  <1> HIDE DEF size, work
  <1>5. SumFunctionOnSet(size, DOMAIN b) \in Nat
    BY <1>2, <1>3, SumType
  <1>6. SumFunctionOnSet(work, DOMAIN b) \in Nat
    BY <1>2, <1>3, SumType
  <1>7. QED
    BY <1>4, <1>5, <1>6

\* A group more adds its size.
LEMMA SizeAppend ==
  ASSUME NEW groups, Proper(groups), NEW batch \in Seq(groups), NEW g \in groups
  PROVE  /\ BatchSize(batch) \in Nat
         /\ BatchSize(Append(batch, g)) = BatchSize(batch) + GroupSize(g)
         /\ BatchSize(<<g>>) = GroupSize(g)
  <1> DEFINE n == Len(batch)
             a == Append(batch, g)
             f == [i \in 1 .. n |-> GroupSize(batch[i])]
             h == [i \in 1 .. n + 1 |-> GroupSize(a[i])]
             one == [i \in {1} |-> GroupSize(g)]
  <1>1. n \in Nat /\ \A i \in 1 .. n : batch[i] \in groups
    OBVIOUS
  <1>2. \A x \in groups : GroupSize(x) \in Nat
    BY SizeType
  <1>3. DOMAIN batch = 1 .. n /\ DOMAIN a = 1 .. n + 1 /\ a[n + 1] = g /\ \A i \in 1 .. n : a[i] = batch[i]
    OBVIOUS
  <1>4. BatchSize(batch) = SumFunctionOnSet(f, 1 .. n) /\ BatchSize(a) = SumFunctionOnSet(h, 1 .. n + 1)
    BY <1>3 DEF BatchSize, SumFunction
  <1>5. \A i \in 1 .. n : f[i] \in Nat /\ f[i] = h[i]
    BY <1>1, <1>2, <1>3
  <1>6. h[n + 1] = GroupSize(g) /\ h[n + 1] \in Nat
    BY <1>1, <1>2, <1>3
  <1>7. DOMAIN <<g>> = {1} /\ \A i \in {1} : <<g>>[i] = g
    OBVIOUS
  <1>8. BatchSize(<<g>>) = SumFunctionOnSet(one, {1})
    BY <1>7 DEF BatchSize, SumFunction
  <1>9. IsFiniteSet(1 .. n)
    BY <1>1, FS_Interval
  <1>10. 1 .. n + 1 = (1 .. n) \cup {n + 1} /\ n + 1 \notin 1 .. n
    BY <1>1
  <1>11. one[1] = GroupSize(g) /\ one[1] \in Nat
    BY <1>2
  <1> HIDE DEF n, a, f, h, one
  <1>12. SumFunctionOnSet(f, 1 .. n) \in Nat
    BY <1>5, <1>9, SumType
  <1>13. SumFunctionOnSet(f, 1 .. n) = SumFunctionOnSet(h, 1 .. n)
    BY <1>5, <1>9, SumExt
  <1>14. \A i \in (1 .. n) \cup {n + 1} : h[i] \in Nat
    BY <1>5, <1>6
  <1>15. SumFunctionOnSet(h, (1 .. n) \cup {n + 1}) = h[n + 1] + SumFunctionOnSet(h, 1 .. n)
    BY <1>9, <1>10, <1>14, SumAdd
  <1>16. SumFunctionOnSet(one, {1}) = GroupSize(g)
    BY <1>11, SumSingle
  <1>17. BatchSize(a) = BatchSize(batch) + GroupSize(g)
    <2>1. BatchSize(a) = h[n + 1] + SumFunctionOnSet(h, 1 .. n)
      BY <1>4, <1>10, <1>15
    <2>2. GroupSize(g) \in Nat
      BY <1>2
    <2>3. QED
      BY <1>4, <1>6, <1>12, <1>13, <2>1, <2>2
  <1>18. QED
    BY <1>4, <1>8, <1>12, <1>16, <1>17 DEF a

\* Batches that hold the groups of S that are not empty, each in one place, within the target.
Packing(groups, target, batches, S) ==
  /\ batches \in Seq(Seq(groups) \ {<<>>})
  /\ \A b \in DOMAIN batches : \A i \in DOMAIN batches[b] :
        batches[b][i] \in S /\ batches[b][i].main + batches[b][i].block # 0
  /\ \A g \in S : g.main + g.block # 0 =>
        \E b \in DOMAIN batches : \E i \in DOMAIN batches[b] : batches[b][i] = g
  /\ \A b, c \in DOMAIN batches : \A i \in DOMAIN batches[b], j \in DOMAIN batches[c] :
        batches[b][i] = batches[c][j] => b = c /\ i = j
  /\ \A b \in DOMAIN batches : BatchSize(batches[b]) <= target

\* Packing keeps batches of groups, none of them without one.
LEMMA PackType ==
  ASSUME NEW groups, NEW target, NEW P \in Seq(Seq(groups) \ {<<>>}), NEW g \in groups
  PROVE  Pack(P, g, target) \in Seq(Seq(groups) \ {<<>>})
  <1> DEFINE B == Seq(groups) \ {<<>>}
             n == Len(P)
  <1>1. <<g>> \in B /\ P \in Seq(B)
    OBVIOUS
  <1>2. Append(P, <<g>>) \in Seq(B)
    <2> HIDE DEF B
    <2>1. QED
      BY <1>1
  <1>3. ASSUME P # <<>> PROVE [P EXCEPT ![n] = Append(P[n], g)] \in Seq(B)
    <2>1. n \in 1 .. n
      BY <1>3
    <2>2. P[n] \in Seq(groups)
      BY <2>1
    <2>3. Append(P[n], g) \in B
      BY <2>2
    <2> HIDE DEF B
    <2>4. QED
      BY <1>1, <2>1, <2>3
  <1>4. QED
    BY <1>2, <1>3 DEF Pack

\* One group more is packed.
LEMMA PackStep ==
  ASSUME NEW groups, Proper(groups), NEW target \in Nat, \A g \in groups : GroupSize(g) <= target,
         NEW S \in SUBSET groups, NEW g \in groups, g \notin S, NEW P, Packing(groups, target, P, S)
  PROVE  Packing(groups, target, Pack(P, g, target), S \cup {g})
  <1> DEFINE Q == Pack(P, g, target)
             B == Seq(groups) \ {<<>>}
             n == Len(P)
  <1>1. /\ P \in Seq(B)
        /\ \A b \in DOMAIN P : \A i \in DOMAIN P[b] : P[b][i] \in S /\ P[b][i].main + P[b][i].block # 0
        /\ \A x \in S : x.main + x.block # 0 => \E b \in DOMAIN P : \E i \in DOMAIN P[b] : P[b][i] = x
        /\ \A b, c \in DOMAIN P : \A i \in DOMAIN P[b], j \in DOMAIN P[c] : P[b][i] = P[c][j] => b = c /\ i = j
        /\ \A b \in DOMAIN P : BatchSize(P[b]) <= target
    BY DEF Packing
  <1>2. n \in Nat /\ DOMAIN P = 1 .. n /\ \A b \in 1 .. n : P[b] \in B
    BY <1>1
  <1>3. GroupSize(g) \in Nat /\ GroupSize(g) <= target /\ target \in Nat
    BY SizeType
  <1>4. CASE g.main + g.block = 0
    <2>1. Q = P
      BY <1>4 DEF Pack
    <2> HIDE DEF Q
    <2>2. QED
      BY <1>1, <1>4, <2>1 DEF Packing, Q
  <1>5. CASE g.main + g.block # 0 /\ (P = <<>> \/ BatchSize(Last(P)) + GroupSize(g) > target)
    <2>1. Q = Append(P, <<g>>)
      BY <1>5 DEF Pack
    <2>2. <<g>> \in B /\ DOMAIN <<g>> = {1} /\ <<g>>[1] = g
      OBVIOUS
    <2> HIDE DEF B
    <2>3. /\ Q \in Seq(B) /\ DOMAIN Q = 1 .. n + 1 /\ Q[n + 1] = <<g>>
          /\ \A b \in 1 .. n : Q[b] = P[b]
      BY <1>1, <1>2, <2>1, <2>2
    <2> HIDE DEF Q
    <2>4. \A b \in DOMAIN Q : (b \in DOMAIN P /\ Q[b] = P[b]) \/ (b = n + 1 /\ b \notin DOMAIN P)
      <3>1. \A b \in 1 .. n + 1 : b \in 1 .. n \/ b = n + 1
        BY <1>2
      <3>2. n + 1 \notin 1 .. n
        BY <1>2
      <3>3. DOMAIN P = 1 .. n /\ DOMAIN Q = 1 .. n + 1 /\ \A b \in 1 .. n : Q[b] = P[b]
        BY <1>2, <2>3
      <3> HIDE DEF n
      <3>4. QED
        BY <3>1, <3>2, <3>3
    <2>5. ASSUME NEW b \in DOMAIN Q, NEW i \in DOMAIN Q[b]
          PROVE  Q[b][i] \in S \cup {g} /\ Q[b][i].main + Q[b][i].block # 0
      BY <1>1, <1>5, <2>2, <2>3, <2>4
    <2>6. ASSUME NEW x \in S \cup {g}, x.main + x.block # 0
          PROVE  \E b \in DOMAIN Q : \E i \in DOMAIN Q[b] : Q[b][i] = x
      <3>1. CASE x = g
        <4>1. n + 1 \in DOMAIN Q /\ 1 \in DOMAIN Q[n + 1] /\ Q[n + 1][1] = x
          BY <1>2, <2>2, <2>3, <3>1
        <4>2. QED
          BY <4>1
      <3>2. CASE x \in S
        <4>1. PICK b \in DOMAIN P : \E i \in DOMAIN P[b] : P[b][i] = x
          BY <1>1, <2>6, <3>2
        <4>2. b \in DOMAIN Q /\ Q[b] = P[b]
          BY <1>2, <2>3, <4>1
        <4>3. QED
          BY <4>1, <4>2
      <3>3. QED
        BY <3>1, <3>2
    <2>7. ASSUME NEW b \in DOMAIN Q, NEW c \in DOMAIN Q, NEW i \in DOMAIN Q[b], NEW j \in DOMAIN Q[c],
                 Q[b][i] = Q[c][j]
          PROVE  b = c /\ i = j
      <3>1. b \in DOMAIN P => Q[b] = P[b] /\ Q[b][i] # g
        BY <1>1, <2>4
      <3>2. c \in DOMAIN P => Q[c] = P[c] /\ Q[c][j] # g
        BY <1>1, <2>4
      <3>3. b \notin DOMAIN P => b = n + 1 /\ i = 1 /\ Q[b][i] = g
        BY <2>2, <2>3, <2>4
      <3>4. c \notin DOMAIN P => c = n + 1 /\ j = 1 /\ Q[c][j] = g
        BY <2>2, <2>3, <2>4
      <3>5. QED
        BY <1>1, <2>7, <3>1, <3>2, <3>3, <3>4
    <2>8. ASSUME NEW b \in DOMAIN Q PROVE BatchSize(Q[b]) <= target
      <3>1. BatchSize(<<g>>) = GroupSize(g)
        <4>1. <<>> \in Seq(groups)
          OBVIOUS
        <4>2. QED
          BY <4>1, SizeAppend
      <3>2. QED
        BY <1>1, <1>3, <2>3, <2>4, <3>1
    <2>9. QED
      BY <2>3, <2>5, <2>6, <2>7, <2>8 DEF Packing, B, Q
  <1>6. CASE g.main + g.block # 0 /\ ~(P = <<>> \/ BatchSize(Last(P)) + GroupSize(g) > target)
    <2> DEFINE a == Append(P[n], g)
               m == Len(P[n])
    <2>1. n \in 1 .. n /\ Last(P) = P[n]
      BY <1>1, <1>2, <1>6 DEF Last
    <2>2. Q = [P EXCEPT ![n] = a]
      BY <1>6 DEF Pack
    <2>3. /\ P[n] \in Seq(groups) /\ m \in Nat /\ a \in B /\ DOMAIN P[n] = 1 .. m
          /\ DOMAIN a = 1 .. m + 1 /\ a[m + 1] = g
          /\ \A i \in 1 .. m : a[i] = P[n][i]
      BY <1>2, <2>1
    <2> HIDE DEF B, a, m
    <2>4. /\ Q \in Seq(B) /\ DOMAIN Q = 1 .. n /\ Q[n] = a
          /\ \A b \in 1 .. n : b # n => Q[b] = P[b]
      BY <1>1, <1>2, <2>1, <2>2, <2>3
    <2> HIDE DEF Q
    \* What is in a place was there before, or is the new group.
    <2>5. ASSUME NEW b \in DOMAIN Q, NEW i \in DOMAIN Q[b]
          PROVE  \/ b \in DOMAIN P /\ i \in DOMAIN P[b] /\ Q[b][i] = P[b][i]
                 \/ b = n /\ i = m + 1 /\ Q[b][i] = g
      <3>1. CASE b = n
        <4>1. i \in 1 .. m + 1
          BY <2>3, <2>4, <3>1
        <4>2. i \in 1 .. m \/ i = m + 1
          BY <2>3, <4>1
        <4>3. QED
          BY <1>2, <2>1, <2>3, <2>4, <3>1, <4>2
      <3>2. CASE b # n
        BY <1>2, <2>4, <3>2
      <3>3. QED
        BY <3>1, <3>2
    <2>6. ASSUME NEW b \in DOMAIN P, NEW i \in DOMAIN P[b]
          PROVE  b \in DOMAIN Q /\ i \in DOMAIN Q[b] /\ Q[b][i] = P[b][i]
      <3>1. CASE b = n
        <4>1. i \in 1 .. m /\ i \in 1 .. m + 1
          BY <2>3, <3>1
        <4>2. QED
          BY <2>1, <2>3, <2>4, <3>1, <4>1
      <3>2. CASE b # n
        BY <1>2, <2>4, <3>2
      <3>3. QED
        BY <3>1, <3>2
    <2>7. ASSUME NEW b \in DOMAIN Q, NEW i \in DOMAIN Q[b]
          PROVE  Q[b][i] \in S \cup {g} /\ Q[b][i].main + Q[b][i].block # 0
      BY <1>1, <1>6, <2>5
    <2>8. ASSUME NEW x \in S \cup {g}, x.main + x.block # 0
          PROVE  \E b \in DOMAIN Q : \E i \in DOMAIN Q[b] : Q[b][i] = x
      <3>1. CASE x = g
        <4>1. n \in DOMAIN Q /\ m + 1 \in DOMAIN Q[n] /\ Q[n][m + 1] = x
          BY <2>1, <2>3, <2>4, <3>1
        <4>2. QED
          BY <4>1
      <3>2. CASE x \in S
        <4>1. PICK b \in DOMAIN P : \E i \in DOMAIN P[b] : P[b][i] = x
          BY <1>1, <2>8, <3>2
        <4>2. PICK i \in DOMAIN P[b] : P[b][i] = x
          BY <4>1
        <4>3. QED
          BY <2>6, <4>1, <4>2
      <3>3. QED
        BY <3>1, <3>2
    <2>9. ASSUME NEW b \in DOMAIN Q, NEW c \in DOMAIN Q, NEW i \in DOMAIN Q[b], NEW j \in DOMAIN Q[c],
                 Q[b][i] = Q[c][j]
          PROVE  b = c /\ i = j
      <3>1. \/ b \in DOMAIN P /\ i \in DOMAIN P[b] /\ Q[b][i] = P[b][i] /\ Q[b][i] # g
            \/ b = n /\ i = m + 1 /\ Q[b][i] = g
        BY <1>1, <2>5
      <3>2. \/ c \in DOMAIN P /\ j \in DOMAIN P[c] /\ Q[c][j] = P[c][j] /\ Q[c][j] # g
            \/ c = n /\ j = m + 1 /\ Q[c][j] = g
        BY <1>1, <2>5
      <3>3. QED
        BY <1>1, <2>9, <3>1, <3>2
    <2>10. ASSUME NEW b \in DOMAIN Q PROVE BatchSize(Q[b]) <= target
      <3>1. BatchSize(a) = BatchSize(P[n]) + GroupSize(g) /\ BatchSize(P[n]) \in Nat
        BY <2>3, SizeAppend DEF a
      <3>2. BatchSize(a) <= target
        BY <1>3, <1>6, <2>1, <3>1
      <3>3. QED
        BY <1>1, <1>2, <2>4, <3>2
    <2>11. QED
      BY <2>4, <2>7, <2>8, <2>9, <2>10 DEF Packing, B, Q
  <1>7. QED
    BY <1>4, <1>5, <1>6

\* The target of a window is never above the one main checks its groups against, nor below a group:
\* the check "groupbatch single group exceeds target" never fails.
LEMMA TargetFits ==
  ASSUME NEW groups, Proper(groups), Fits(groups)
  PROVE  /\ BatchTarget(groups) \in Nat /\ BatchTarget(groups) <= ScratchLimit
         /\ \A g \in groups : GroupSize(g) <= BatchTarget(groups)
  <1> DEFINE size == [g \in groups |-> GroupSize(g)]
             total == SumFunctionOnSet(size, groups)
             sizes == {0} \cup {GroupSize(g) : g \in groups}
             largest == Max(sizes)
             wanted == GPUs * BatchesPerGpu
             fair == ((4 * total + wanted - 1) \div wanted) \div 4
             tuned == Smaller(Larger(largest, Smaller(ScratchLimit, fair)), ScratchLimit)
  <1>1. ScratchLimit \in Nat /\ GPUs \in Nat \ {0} /\ BatchesPerGpu \in Nat
    BY PlanAssumption
  <1>2. \A g \in groups : GroupSize(g) \in Nat /\ GroupSize(g) <= ScratchLimit
    BY SizeType DEF Fits
  <1>3. IsFiniteSet(groups)
    BY DEF Proper
  <1>4. total \in Nat
    <2>1. \A g \in groups : size[g] \in Nat
      BY <1>2
    <2> HIDE DEF size
    <2>2. QED
      BY <1>3, <2>1, SumType
  <1>5. largest \in Nat /\ largest <= ScratchLimit /\ \A g \in groups : GroupSize(g) <= largest
    <2>1. sizes \in SUBSET (0 .. ScratchLimit) /\ sizes # {} /\ \A g \in groups : GroupSize(g) \in sizes
      BY <1>1, <1>2
    <2> HIDE DEF sizes
    <2>2. largest \in sizes /\ \A x \in sizes : x <= largest
      BY <1>1, <2>1, NatMax
    <2> HIDE DEF largest
    <2>3. largest \in 0 .. ScratchLimit
      BY <2>1, <2>2
    <2>4. \A g \in groups : GroupSize(g) <= largest
      BY <2>1, <2>2
    <2>5. QED
      BY <1>1, <2>3, <2>4
  <1>6. BatchTarget(groups) = IF GPUs = 1 \/ BatchesPerGpu = 0 THEN ScratchLimit ELSE tuned
    BY DEF BatchTarget, SumFunction
  <1>7. CASE GPUs = 1 \/ BatchesPerGpu = 0
    BY <1>1, <1>2, <1>6, <1>7
  <1>8. CASE ~(GPUs = 1 \/ BatchesPerGpu = 0)
    <2>1. wanted \in Nat \ {0}
      BY <1>1, <1>8
    <2> HIDE DEF total, wanted, largest
    <2>2. (4 * total + wanted - 1) \div wanted \in Nat
      <3>1. 4 * total + wanted - 1 \in Nat
        BY <1>4, <2>1
      <3>2. QED
        BY <2>1, <3>1
    <2>3. fair \in Nat
      BY <2>2
    <2> HIDE DEF fair
    <2>4. tuned \in Nat /\ tuned <= ScratchLimit /\ largest <= tuned
      BY <1>1, <1>5, <2>3 DEF Smaller, Larger
    <2> HIDE DEF tuned
    <2>5. QED
      BY <1>2, <1>5, <1>6, <1>8, <2>4
  <1>9. QED
    BY <1>7, <1>8

\* prepare_window_batches puts each group that is not empty into one batch, in one place, and no
\* batch is larger than the target: its two checks of the target never fail.
THEOREM PackedOnce ==
  ASSUME NEW groups, Proper(groups), NEW target \in Nat, \A g \in groups : GroupSize(g) <= target
  PROVE  Packing(groups, target, PrepareBatches(groups, target), groups)
  <1> DEFINE order == InOrder(groups, WorkOrder)
             N == Len(order)
             Solves(f) == f = [n \in 0 .. N |-> IF n = 0 THEN <<>> ELSE Pack(f[n - 1], order[n], target)]
             f == CHOOSE g : Solves(g)
             Passed(n) == {order[i] : i \in 1 .. n}
             Bad == {n \in 0 .. N : ~Packing(groups, target, f[n], Passed(n))}
  <1>1. PrepareBatches(groups, target) = f[N]
    BY DEF PrepareBatches
  <1>2. /\ order \in Seq(groups)
        /\ \A g \in groups : \E i \in 1 .. N : order[i] = g
        /\ \A i, j \in 1 .. N : order[i] = order[j] => i = j
    BY WorkSorted DEF Enumerates
  <1> HIDE DEF order
  <1>3. N \in Nat /\ \A i \in 1 .. N : order[i] \in groups
    BY <1>2
  <1> HIDE DEF N
  <1>4. Packing(groups, target, <<>>, {})
    BY DEF Packing
  <1>5. \E g : Solves(g)
    <2> DEFINE B == Seq(Seq(groups) \ {<<>>})
               step == [e \in B \X (1 .. N) |-> Pack(e[1], order[e[2]], target)]
    <2>1. step \in [B \X (1 .. N) -> B]
      <3>1. ASSUME NEW P \in B, NEW i \in 1 .. N PROVE Pack(P, order[i], target) \in B
        BY <1>3, PackType
      <3>2. QED
        BY <3>1
    <2>2. <<>> \in B
      OBVIOUS
    <2> HIDE DEF B
    <2>3. PICK g \in [0 .. N -> B] : Iterates(g, N, <<>>, step)
      <3> HIDE DEF step
      <3>1. QED
        BY <1>3, <2>1, <2>2, IterExists
    <2>4. ASSUME NEW n \in 0 .. N PROVE g[n] = IF n = 0 THEN <<>> ELSE Pack(g[n - 1], order[n], target)
      <3>1. CASE n = 0
        BY <2>3, <3>1 DEF Iterates
      <3>2. CASE n # 0
        <4>1. n \in 1 .. N /\ n - 1 \in 0 .. N
          BY <1>3, <3>2
        <4>2. g[n - 1] \in B
          BY <2>3, <4>1
        <4>3. g[n] = step[<<g[n - 1], n>>]
          BY <2>3, <4>1 DEF Iterates
        <4>4. QED
          BY <3>2, <4>1, <4>2, <4>3
      <3>3. QED
        BY <3>1, <3>2
    <2>5. Solves(g)
      BY <2>3, <2>4
    <2>6. QED
      BY <2>5
  <1>6. Solves(f)
    BY <1>5
  <1> HIDE DEF f
  <1>7. \A n \in 0 .. N : f[n] = IF n = 0 THEN <<>> ELSE Pack(f[n - 1], order[n], target)
    BY <1>6
  <1>8. Bad = {}
    <2>1. SUFFICES ASSUME Bad # {} PROVE FALSE
      OBVIOUS
    <2>2. PICK n \in Bad : \A m \in Bad : n <= m
      <3>1. Bad \in SUBSET Nat
        BY <1>3
      <3> HIDE DEF Bad
      <3>2. QED
        BY <2>1, <3>1, NatMin
    <2>3. CASE n = 0
      <3>1. f[0] = <<>> /\ Passed(0) = {}
        BY <1>3, <1>7
      <3>2. QED
        BY <1>4, <2>2, <2>3, <3>1
    <2>4. CASE n # 0
      <3>1. n \in 1 .. N /\ n - 1 \in 0 .. N /\ ~(n <= n - 1)
        BY <1>3, <2>2, <2>4
      <3>2. Packing(groups, target, f[n - 1], Passed(n - 1))
        BY <2>2, <3>1
      <3>3. f[n] = Pack(f[n - 1], order[n], target)
        BY <1>7, <3>1
      <3>4. Passed(n - 1) \in SUBSET groups
        BY <1>3, <3>1
      <3>5. order[n] \notin Passed(n - 1)
        <4>1. ASSUME NEW i \in 1 .. n - 1 PROVE order[i] # order[n]
          <5>1. i \in 1 .. N /\ n \in 1 .. N /\ i # n
            BY <1>3, <3>1
          <5>2. \A x, y \in 1 .. N : order[x] = order[y] => x = y
            BY <1>2
          <5>3. QED
            BY <5>1, <5>2
        <4>2. QED
          BY <4>1
      <3>6. Passed(n) = Passed(n - 1) \cup {order[n]}
        <4>1. \A i : i \in 1 .. n <=> i \in 1 .. n - 1 \/ i = n
          BY <3>1
        <4>2. QED
          BY <4>1
      <3>7. order[n] \in groups
        BY <1>3, <3>1
      <3> HIDE DEF Passed
      <3>8. Packing(groups, target, f[n], Passed(n))
        BY <3>2, <3>3, <3>4, <3>5, <3>6, <3>7, PackStep
      <3>9. QED
        BY <2>2, <3>8
    <2>5. QED
      BY <2>3, <2>4
  <1>9. Packing(groups, target, f[N], Passed(N))
    <2>1. N \in 0 .. N
      BY <1>3
    <2>2. QED
      BY <1>8, <2>1
  <1>10. Passed(N) = groups
    BY <1>2, <1>3
  <1>11. QED
    BY <1>1, <1>9, <1>10

-----------------------------------------------------------------------------
(***************************************************************************)
(* The batches of a window cut up the vector.                              *)
(***************************************************************************)
\* The windows of the schedule.
LEMMA WindowRange ==
  ASSUME NEW w \in 1 .. 2
  PROVE  Hi(w) \in 1 .. W - 1 /\ Lo(w) \in 1 .. Hi(w)
  <1>1. W \in Nat /\ LOW_LUT_K \in 1 .. W - 2
    BY GridAssumption, PlanAssumption
  <1>2. QED
    BY <1>1 DEF Hi, Lo

\* A group's cells are in the vector, and a group without words has none.
LEMMA GroupFacts ==
  ASSUME NEW w \in 1 .. 2, NEW occ
  PROVE  LET g == GroupOf(w, occ)
         IN  /\ g.occ = occ /\ g.cells = GroupCells(Hi(w), Lo(w), occ) /\ g.cells \in SUBSET Ranks
             /\ g.main \in Nat /\ g.block \in Nat /\ (g.main + g.block = 0 => g.cells = {})
  <1> DEFINE cells == GroupCells(Hi(w), Lo(w), occ)
             mains == {c \in cells : c < MainN}
  <1>1. /\ GroupOf(w, occ).occ = occ /\ GroupOf(w, occ).cells = cells
        /\ GroupOf(w, occ).main = Cardinality(mains)
        /\ GroupOf(w, occ).block = Cardinality(cells) - Cardinality(mains)
    BY DEF GroupOf
  <1>2. cells \in SUBSET Ranks
    <2>1. Hi(w) \in 1 .. W - 1 /\ Lo(w) \in 1 .. Hi(w) /\ Lo(w) \in Lo(w) .. Hi(w)
      BY WindowRange
    <2>2. QED
      BY <2>1, SourcesInGroup
  <1>3. IsFiniteSet(Ranks)
    <2>1. 0 \in Int /\ MainN + BlockN - 1 \in Int
      BY CellsAre
    <2>2. QED
      BY <2>1, FS_Interval DEF Ranks
  <1>4. mains \in SUBSET cells
    OBVIOUS
  <1> HIDE DEF cells, mains
  <1>5. IsFiniteSet(cells)
    BY <1>2, <1>3, FS_Subset
  <1>6. IsFiniteSet(mains) /\ Cardinality(mains) <= Cardinality(cells)
    BY <1>4, <1>5, FS_Subset
  <1>7. Cardinality(mains) \in Nat /\ Cardinality(cells) \in Nat
    BY <1>5, <1>6, FS_CardinalityType
  <1>8. Cardinality(cells) = 0 => cells = {}
    BY <1>5, FS_EmptySet
  <1>9. QED
    BY <1>1, <1>2, <1>6, <1>7, <1>8 DEF cells

\* The groups of a window are finitely many, one for a mask.
LEMMA GroupsProper ==
  ASSUME NEW w \in 1 .. 2
  PROVE  /\ Proper(Groups(w))
         /\ \A g \in Groups(w) : g.occ \in SUBSET window_candidates(Hi(w), Lo(w)) /\ g = GroupOf(w, g.occ)
  <1> DEFINE F == window_candidates(Hi(w), Lo(w))
             f == [occ \in SUBSET F |-> GroupOf(w, occ)]
  <1>1. F \in SUBSET (0 .. W) /\ F \in SUBSET (0 .. W - 1)
    <2>1. W \in Nat
      BY GridAssumption
    <2>2. QED
      BY <2>1 DEF window_candidates
  <1>2. IsFiniteSet(SUBSET F)
    <2>1. 0 \in Int /\ W - 1 \in Int
      BY GridAssumption
    <2>2. IsFiniteSet(0 .. W - 1)
      BY <2>1, FS_Interval
    <2>3. IsFiniteSet(F)
      BY <1>1, <2>2, FS_Subset
    <2>4. QED
      BY <2>3, FS_SUBSET
  <1>3. Groups(w) = {GroupOf(w, occ) : occ \in SUBSET F}
    BY DEF Groups
  <1>4. \A occ \in SUBSET F : /\ GroupOf(w, occ).occ = occ
                              /\ GroupOf(w, occ).main \in Nat /\ GroupOf(w, occ).block \in Nat
    BY GroupFacts
  <1> HIDE DEF F
  <1>5. \A g \in Groups(w) : g.occ \in SUBSET F /\ g = GroupOf(w, g.occ) /\ g.main \in Nat /\ g.block \in Nat
    BY <1>3, <1>4
  <1>6. IsFiniteSet(Groups(w))
    <2>1. f \in Surjection(SUBSET F, Groups(w))
      BY <1>3 DEF Surjection
    <2> HIDE DEF f
    <2>2. QED
      BY <1>2, <2>1, FS_Surjection
  <1>7. Proper(Groups(w))
    <2>1. \A g, h \in Groups(w) : g.occ = h.occ => g = h
      BY <1>5
    <2>2. \A g \in Groups(w) : g.occ \in SUBSET (0 .. W)
      BY <1>1, <1>5
    <2>3. QED
      BY <1>5, <1>6, <2>1, <2>2 DEF Proper
  <1>8. QED
    BY <1>5, <1>7 DEF F

\* The batches of a window cut up the vector.
THEOREM BatchesPartition ==
  ASSUME NEW w \in 1 .. 2, Fits(Groups(w)), NEW plan, plan = Schedule[w]
  PROVE  /\ \A b, c \in DOMAIN plan : b # c => BatchCells(plan[b]) \cap BatchCells(plan[c]) = {}
         /\ Ranks = UNION {BatchCells(plan[b]) : b \in DOMAIN plan}
  <1> DEFINE G == Groups(w)
             F == window_candidates(Hi(w), Lo(w))
             CellsIn(occ) == GroupCells(Hi(w), Lo(w), occ)
  <1>1. Packing(G, BatchTarget(G), plan, G)
    <2>1. plan = PrepareBatches(G, BatchTarget(G)) /\ Proper(G)
      BY GroupsProper DEF Schedule
    <2> HIDE DEF G
    <2>2. Fits(G)
      BY DEF G
    <2>3. BatchTarget(G) \in Nat /\ \A g \in G : GroupSize(g) <= BatchTarget(G)
      BY <2>1, <2>2, TargetFits
    <2>4. QED
      BY <2>1, <2>3, PackedOnce
  <1>2. ASSUME NEW b \in DOMAIN plan, NEW i \in DOMAIN plan[b]
        PROVE  plan[b][i] \in G
    BY <1>1 DEF Packing
  <1>3. \A g \in G : g.occ \in SUBSET F /\ g = GroupOf(w, g.occ) /\ g.cells = CellsIn(g.occ)
                     /\ g.cells \in SUBSET Ranks /\ (g.main + g.block = 0 => g.cells = {})
    BY GroupsProper, GroupFacts
  <1>4. \A o \in SUBSET F : GroupOf(w, o) \in G /\ GroupOf(w, o).occ = o
    BY GroupFacts DEF Groups
  <1>5. \A c \in Ranks : \E o \in SUBSET F : c \in CellsIn(o) /\ \A p \in SUBSET F : c \in CellsIn(p) => p = o
    BY WindowRange, GroupsPartition
  <1> HIDE DEF G, F, CellsIn
  <1>6. ASSUME NEW b \in DOMAIN plan, NEW c \in DOMAIN plan,
               NEW x \in BatchCells(plan[b]), x \in BatchCells(plan[c])
        PROVE  b = c
    <2>1. PICK i \in DOMAIN plan[b] : x \in plan[b][i].cells
      BY DEF BatchCells
    <2>2. PICK j \in DOMAIN plan[c] : x \in plan[c][j].cells
      BY <1>6 DEF BatchCells
    <2>3. plan[b][i] \in G /\ plan[c][j] \in G
      BY <1>2
    <2>4. x \in Ranks
      BY <1>3, <2>1, <2>3
    <2>5. plan[b][i].occ = plan[c][j].occ
      BY <1>3, <1>5, <2>1, <2>2, <2>3, <2>4
    <2>6. plan[b][i] = plan[c][j]
      BY <1>3, <2>3, <2>5
    <2>7. QED
      BY <1>1, <2>6 DEF Packing
  <1>7. ASSUME NEW x \in Ranks PROVE \E b \in DOMAIN plan : x \in BatchCells(plan[b])
    <2>1. PICK o \in SUBSET F : x \in CellsIn(o)
      BY <1>5
    <2>2. GroupOf(w, o) \in G /\ x \in GroupOf(w, o).cells
      BY <1>3, <1>4, <2>1
    <2>3. GroupOf(w, o).main + GroupOf(w, o).block # 0
      BY <1>3, <2>2
    <2>4. PICK b \in DOMAIN plan : \E i \in DOMAIN plan[b] : plan[b][i] = GroupOf(w, o)
      BY <1>1, <2>2, <2>3 DEF Packing
    <2>5. QED
      BY <2>2, <2>4 DEF BatchCells
  <1>8. ASSUME NEW b \in DOMAIN plan, NEW x \in BatchCells(plan[b]) PROVE x \in Ranks
    BY <1>2, <1>3 DEF BatchCells
  <1>9. QED
    BY <1>6, <1>7, <1>8

-----------------------------------------------------------------------------
(***************************************************************************)
(* The layout of a batch in tiles.                                         *)
(***************************************************************************)
\* Adding up from the end, skipping ahead.
Skipping(f, n, lo, next, v) ==
  f[n + 1] = 0 /\ \A i \in lo .. n : f[i] = v[i] + f[next[i]]

LEMMA SkipExists ==
  ASSUME NEW n \in Nat, NEW next \in [1 .. n -> 1 .. n + 1], \A i \in 1 .. n : next[i] > i,
         NEW v \in [1 .. n -> Nat]
  PROVE  \E f \in [1 .. n + 1 -> Nat] : Skipping(f, n, 1, next, v)
  <1> DEFINE Solves(f, lo) == f \in [lo .. n + 1 -> Nat] /\ Skipping(f, n, lo, next, v)
             Bad == {d \in 0 .. n : ~\E f : Solves(f, n + 1 - d)}
  <1>1. Bad = {}
    <2>1. SUFFICES ASSUME Bad # {} PROVE FALSE
      OBVIOUS
    <2>2. PICK d \in Bad : \A l \in Bad : d <= l
      <3>1. Bad \in SUBSET Nat
        OBVIOUS
      <3> HIDE DEF Bad
      <3>2. QED
        BY <2>1, <3>1, NatMin
    <2> DEFINE lo == n + 1 - d
    <2>3. CASE d = 0
      <3>1. Solves([i \in n + 1 .. n + 1 |-> 0], n + 1)
        BY DEF Skipping
      <3>2. lo = n + 1
        BY <2>3
      <3>3. QED
        BY <2>2, <3>1, <3>2
    <2>4. CASE d # 0
      <3>1. d - 1 \in 0 .. n /\ ~(d <= d - 1) /\ lo \in 1 .. n /\ n + 1 - (d - 1) = lo + 1
        BY <2>2, <2>4
      <3>2. PICK g : Solves(g, lo + 1)
        BY <2>2, <3>1
      <3> HIDE DEF lo
      <3> DEFINE x == v[lo] + g[next[lo]]
                 h == [i \in lo .. n + 1 |-> IF i = lo THEN x ELSE g[i]]
      <3>3. next[lo] \in lo + 1 .. n + 1
        BY <3>1
      <3>4. x \in Nat
        BY <3>1, <3>2, <3>3
      <3>5. \A i \in lo .. n + 1 : i = lo \/ i \in lo + 1 .. n + 1
        BY <3>1
      <3>6. h \in [lo .. n + 1 -> Nat]
        BY <3>2, <3>4, <3>5
      <3>7. h[n + 1] = 0
        BY <3>1, <3>2 DEF Skipping
      <3>8. ASSUME NEW i \in lo .. n PROVE h[i] = v[i] + h[next[i]]
        <4>1. i \in 1 .. n
          BY <3>1
        <4>2. next[i] \in lo + 1 .. n + 1 /\ next[i] \in lo .. n + 1 /\ i \in lo .. n + 1
          BY <3>1, <4>1
        <4>3. h[next[i]] = g[next[i]]
          BY <3>1, <4>2
        <4>4. CASE i = lo
          BY <4>2, <4>3, <4>4
        <4>5. CASE i # lo
          <5>1. i \in lo + 1 .. n
            BY <3>1, <4>5
          <5>2. g[i] = v[i] + g[next[i]] /\ h[i] = g[i]
            BY <3>2, <4>2, <4>5, <5>1 DEF Skipping
          <5>3. QED
            BY <4>3, <5>2
        <4>6. QED
          BY <4>4, <4>5
      <3> HIDE DEF h
      <3>9. Solves(h, lo)
        BY <3>6, <3>7, <3>8 DEF Skipping
      <3>10. QED
        BY <2>2, <3>9 DEF lo
    <2>5. QED
      BY <2>3, <2>4
  <1>2. n \in 0 .. n /\ n + 1 - n = 1
    OBVIOUS
  <1>3. \E f : Solves(f, 1)
    BY <1>1, <1>2
  <1>4. QED
    BY <1>3

\* A multiple of Align that is no less is no less than what is rounded up.
LEMMA AlignedLeast ==
  ASSUME NEW m \in Nat, NEW q \in Nat, m <= q * Align
  PROVE  Aligned(m) <= q * Align
  <1>1. Align \in Nat \ {0}
    BY PlanAssumption
  <1> DEFINE d == (m + Align - 1) \div Align
  <1>2. m + Align - 1 = Align * d + ((m + Align - 1) % Align) /\ d \in Int
    BY <1>1, ModDiv
  <1>3. (m + Align - 1) % Align \in Nat
    BY <1>1
  <1>4. Aligned(m) = d * Align
    BY DEF Aligned
  <1> HIDE DEF d
  <1>5. Align * d <= m + Align - 1
    <2>1. Align * d \in Int
      BY <1>1, <1>2
    <2>2. QED
      BY <1>1, <1>2, <1>3, <2>1
  <1>6. ASSUME q < d PROVE FALSE
    <2>1. Align * q + Align <= Align * d
      BY <1>1, <1>2, <1>6, MulMono
    <2>2. Align * q = q * Align /\ q * Align \in Int /\ Align * d \in Int
      BY <1>1, <1>2
    <2>3. QED
      BY <1>1, <1>5, <2>1, <2>2
  <1>7. d <= q
    BY <1>2, <1>6
  <1>8. CASE d = q
    BY <1>1, <1>4, <1>8
  <1>9. CASE d < q
    <2>1. Align * d + Align <= Align * q
      BY <1>1, <1>2, <1>9, MulMono
    <2>2. QED
      BY <1>1, <1>2, <1>4, <2>1
  <1>10. QED
    BY <1>2, <1>7, <1>8, <1>9

\* What is rounded up is no less.
LEMMA AlignedAtLeast ==
  ASSUME NEW n \in Nat
  PROVE  \E lo \in Nat : Aligned(n) = lo * Align /\ n <= lo * Align
  <1>1. Align \in Nat \ {0}
    BY PlanAssumption
  <1> DEFINE d == (n + Align - 1) \div Align
  <1>2. n + Align - 1 = Align * d + ((n + Align - 1) % Align) /\ d \in Int
    BY <1>1, ModDiv
  <1>3. (n + Align - 1) % Align \in 0 .. Align - 1
    BY <1>1
  <1>4. Aligned(n) = d * Align /\ d \in Nat
    BY <1>1 DEF Aligned
  <1> HIDE DEF d
  <1>5. n <= d * Align
    <2>1. Align * d = d * Align /\ d * Align \in Int
      BY <1>1, <1>4
    <2>2. QED
      BY <1>1, <1>2, <1>3, <2>1
  <1>6. QED
    BY <1>4, <1>5

\* Rounding up once for some columns takes no more than for each of them.
LEMMA AlignedMany ==
  ASSUME NEW l \in LaneCounts, NEW n \in Nat
  PROVE  Aligned(l * n) <= l * Aligned(n)
  <1>1. PICK lo \in Nat : Aligned(n) = lo * Align /\ n <= lo * Align
    BY AlignedAtLeast
  <1>2. Align \in Nat /\ l \in Nat
    BY PlanAssumption DEF LaneCounts
  <1>3. l * n \in Nat /\ l * lo \in Nat /\ lo * Align \in Nat
    BY <1>2
  <1>4. l * n <= l * (lo * Align)
    <2> DEFINE p == lo * Align
    <2>1. p \in Nat /\ n <= p
      BY <1>1, <1>3
    <2> HIDE DEF p
    <2>2. l * n <= l * p
      BY <2>1 DEF LaneCounts
    <2>3. QED
      BY <2>2 DEF p
  <1>5. l * (lo * Align) = (l * lo) * Align
    BY <1>2
  <1>6. Aligned(l * n) <= (l * lo) * Align
    BY <1>3, <1>4, <1>5, AlignedLeast
  <1>7. QED
    BY <1>1, <1>5, <1>6

\* A tile has a column at least, ends within the batch and has groups of one shape.
LEMMA LanesType ==
  ASSUME NEW S, NEW batch \in Seq(S), NEW first \in 1 .. Len(batch)
  PROVE  LET l == Lanes(batch, first)
         IN  /\ l \in LaneCounts /\ l \in Nat \ {0} /\ first + l - 1 <= Len(batch)
             /\ \A j \in first .. first + l - 1 : SameGeometry(batch[first], batch[j])
  <1> DEFINE T == {n \in LaneCounts :
                     /\ n <= MaxLanes /\ first + n - 1 <= Len(batch)
                     /\ \A j \in first .. first + n - 1 : SameGeometry(batch[first], batch[j])}
  <1>1. 1 \in T
    <2>1. 1 \in LaneCounts /\ 1 <= MaxLanes
      BY PlanAssumption DEF LaneCounts
    <2>2. Len(batch) \in Nat /\ first \in Nat /\ first + 1 - 1 = first
      OBVIOUS
    <2>3. SameGeometry(batch[first], batch[first])
      BY DEF SameGeometry
    <2>4. \A j \in first .. first + 1 - 1 : j = first
      BY <2>2
    <2>5. QED
      BY <2>1, <2>2, <2>3, <2>4
  <1>2. T \in SUBSET (0 .. 32)
    BY DEF LaneCounts
  <1>3. Lanes(batch, first) = Max(T)
    BY DEF Lanes
  <1>4. Max(T) \in T
    <2> HIDE DEF T
    <2>1. QED
      BY <1>1, <1>2, NatMax
  <1>5. \A l \in LaneCounts : l \in Nat \ {0}
    BY DEF LaneCounts
  <1>6. QED
    BY <1>3, <1>4, <1>5

\* The sizes of the groups from first on.
Remaining(batch, first) ==
  SumFunctionOnSet([i \in DOMAIN batch |-> GroupSize(batch[i])], first .. Len(batch))

\* It is the first and the ones after it, and of groups of the same size the first so many times.
LEMMA RestStep ==
  ASSUME NEW groups, Proper(groups), NEW batch \in Seq(groups)
  PROVE  /\ Remaining(batch, 1) = BatchSize(batch) /\ Remaining(batch, Len(batch) + 1) = 0
         /\ \A i \in 1 .. Len(batch) + 1 : Remaining(batch, i) \in Nat
         /\ \A i \in 1 .. Len(batch) : Remaining(batch, i) = GroupSize(batch[i]) + Remaining(batch, i + 1)
  <1> DEFINE n == Len(batch)
             f == [i \in DOMAIN batch |-> GroupSize(batch[i])]
  <1>1. n \in Nat /\ DOMAIN batch = 1 .. n /\ \A i \in 1 .. n : batch[i] \in groups
    OBVIOUS
  <1>2. \A i \in 1 .. n : f[i] \in Nat /\ f[i] = GroupSize(batch[i])
    BY <1>1, SizeType
  <1>3. DOMAIN f = 1 .. n
    BY <1>1
  <1>4. \A i : Remaining(batch, i) = SumFunctionOnSet(f, i .. n)
    BY DEF Remaining
  <1>5. BatchSize(batch) = SumFunctionOnSet(f, 1 .. n)
    BY <1>3 DEF BatchSize, SumFunction
  <1> HIDE DEF f, n
  <1>6. Remaining(batch, n + 1) = 0
    <2>1. (n + 1) .. n = {}
      BY <1>1
    <2>2. QED
      BY <1>4, <2>1, SumEmpty
  <1>7. ASSUME NEW i \in 1 .. n + 1 PROVE Remaining(batch, i) \in Nat /\ IsFiniteSet(i .. n)
    <2>1. IsFiniteSet(i .. n) /\ \A j \in i .. n : j \in 1 .. n
      <3>1. i \in Int /\ n \in Int
        BY <1>1
      <3>2. QED
        BY <1>1, <3>1, FS_Interval
    <2>2. QED
      BY <1>2, <1>4, <2>1, SumType
  <1>8. ASSUME NEW i \in 1 .. n PROVE Remaining(batch, i) = GroupSize(batch[i]) + Remaining(batch, i + 1)
    <2>1. i .. n = ((i + 1) .. n) \cup {i} /\ i \notin (i + 1) .. n /\ i + 1 \in 1 .. n + 1
      BY <1>1
    <2>2. IsFiniteSet((i + 1) .. n)
      BY <1>7, <2>1
    <2>3. \A j \in ((i + 1) .. n) \cup {i} : f[j] \in Nat
      BY <1>1, <1>2
    <2>4. SumFunctionOnSet(f, ((i + 1) .. n) \cup {i}) = f[i] + SumFunctionOnSet(f, (i + 1) .. n)
      BY <2>1, <2>2, <2>3, SumAdd
    <2>5. QED
      BY <1>2, <1>4, <2>1, <2>4
  <1>9. QED
    BY <1>4, <1>5, <1>6, <1>7, <1>8 DEF n

\* A tile takes no more than its groups one by one.
LEMMA TileFits ==
  ASSUME NEW groups, Proper(groups), NEW batch \in Seq(groups), NEW first \in 1 .. Len(batch),
         NEW l, l = Lanes(batch, first)
  PROVE  /\ TileSize(batch[first], l) \in Nat /\ Remaining(batch, first + l) \in Nat
         /\ TileSize(batch[first], l) + Remaining(batch, first + l) <= Remaining(batch, first)
  <1> DEFINE g == batch[first]
             n == Len(batch)
             Good(j) == j * GroupSize(g) + Remaining(batch, first + j) = Remaining(batch, first)
             Bad == {j \in 0 .. l : ~Good(j)}
  <1>1. /\ l \in LaneCounts /\ l \in Nat \ {0} /\ first + l - 1 <= n
        /\ \A j \in first .. first + l - 1 : SameGeometry(g, batch[j])
    BY LanesType
  <1>2. n \in Nat /\ first \in 1 .. n /\ g \in groups /\ \A i \in 1 .. n : batch[i] \in groups
    OBVIOUS
  <1>3. g.main \in Nat /\ g.block \in Nat /\ GroupSize(g) \in Nat
    BY <1>2, SizeType DEF Proper
  <1>4. /\ \A i \in 1 .. n + 1 : Remaining(batch, i) \in Nat
        /\ \A i \in 1 .. n : Remaining(batch, i) = GroupSize(batch[i]) + Remaining(batch, i + 1)
    BY RestStep
  <1> HIDE DEF n
  <1>5. \A j \in first .. first + l - 1 : GroupSize(batch[j]) = GroupSize(g)
    BY <1>1 DEF SameGeometry, GroupSize
  <1> HIDE DEF g
  <1>6. Bad = {}
    <2>1. SUFFICES ASSUME Bad # {} PROVE FALSE
      OBVIOUS
    <2>2. PICK j \in Bad : \A lo \in Bad : j <= lo
      <3>1. Bad \in SUBSET Nat
        BY <1>1
      <3> HIDE DEF Bad
      <3>2. QED
        BY <2>1, <3>1, NatMin
    <2>3. CASE j = 0
      <3>1. 0 * GroupSize(g) = 0 /\ first + 0 = first /\ first \in 1 .. n + 1
        BY <1>2, <1>3
      <3>2. Remaining(batch, first) \in Nat
        BY <1>4, <3>1
      <3>3. Good(0)
        BY <3>1, <3>2
      <3>4. QED
        BY <2>2, <2>3, <3>3
    <2>4. CASE j # 0
      <3> DEFINE i == j - 1
      <3>1. i \in 0 .. l /\ ~(j <= i) /\ j = i + 1 /\ first + i \in first .. first + l - 1
            /\ first + i \in 1 .. n /\ (first + i) + 1 = first + j /\ first + j \in 1 .. n + 1
        BY <1>1, <1>2, <2>2, <2>4
      <3>2. Good(i)
        <4> HIDE DEF Good, i
        <4>1. QED
          BY <2>2, <3>1
      <3> HIDE DEF i
      <3>3. Remaining(batch, first + i) = GroupSize(g) + Remaining(batch, first + j)
        BY <1>4, <1>5, <3>1
      <3>4. Remaining(batch, first + j) \in Nat /\ Remaining(batch, first + i) \in Nat
        <4>1. first + i \in 1 .. n + 1
          BY <1>2, <3>1
        <4>2. QED
          BY <1>4, <3>1, <4>1
      <3>5. j * GroupSize(g) = i * GroupSize(g) + GroupSize(g) /\ i * GroupSize(g) \in Nat
        BY <1>3, <3>1
      <3>6. Good(j)
        BY <1>3, <3>2, <3>3, <3>4, <3>5
      <3>7. QED
        BY <2>2, <3>6
    <2>5. QED
      BY <2>3, <2>4
  <1>7. l * GroupSize(g) + Remaining(batch, first + l) = Remaining(batch, first)
    <2>1. l \in 0 .. l
      BY <1>1
    <2>2. QED
      BY <1>6, <2>1
  <1>8. Remaining(batch, first + l) \in Nat
    <2>1. first + l \in 1 .. n + 1
      BY <1>1, <1>2
    <2>2. QED
      BY <1>4, <2>1
  <1>9. TileSize(g, l) <= l * GroupSize(g) /\ TileSize(g, l) \in Nat /\ l * GroupSize(g) \in Nat
    <2> DEFINE a == Aligned(g.main)
               b == Aligned(g.block)
               c == Aligned(l * g.main)
               d == Aligned(l * g.block)
    <2>1. a \in Nat /\ b \in Nat
      BY <1>3, AlignedType
    <2>2. l * g.main \in Nat /\ l * g.block \in Nat
      BY <1>1, <1>3
    <2>3. c \in Nat /\ d \in Nat
      BY <2>2, AlignedType
    <2>4. c <= l * a /\ d <= l * b
      BY <1>1, <1>3, AlignedMany
    <2>5. TileSize(g, l) = c + d /\ GroupSize(g) = a + b
      BY DEF TileSize, GroupSize
    <2> HIDE DEF a, b, c, d
    <2>6. l * (a + b) = l * a + l * b /\ l * a \in Nat /\ l * b \in Nat
      BY <1>1, <2>1
    <2>7. QED
      BY <2>3, <2>4, <2>5, <2>6
  <1>10. QED
    BY <1>7, <1>8, <1>9 DEF g

\* prepare_window_batches: a batch in tiles is no larger than its groups one after the other, so that
\* its last check of the target ("groupbatch tile exceeds scratch target") does not fail either.
THEOREM LayoutFits ==
  ASSUME NEW groups, Proper(groups), NEW batch \in Seq(groups)
  PROVE  LayoutSize(batch) \in Nat /\ LayoutSize(batch) <= BatchSize(batch)
  <1> DEFINE n == Len(batch)
             next == [i \in 1 .. n |-> i + Lanes(batch, i)]
             v == [i \in 1 .. n |-> TileSize(batch[i], Lanes(batch, i))]
             Solves(f) == f = [first \in 1 .. n + 1 |->
                                 IF first > n THEN 0
                                 ELSE TileSize(batch[first], Lanes(batch, first))
                                      + f[first + Lanes(batch, first)]]
             u == CHOOSE f : Solves(f)
             Bad == {d \in 0 .. n : ~(u[n + 1 - d] \in Nat /\ u[n + 1 - d] <= Remaining(batch, n + 1 - d))}
  <1>1. n \in Nat /\ \A i \in 1 .. n : batch[i] \in groups
    OBVIOUS
  <1>2. LayoutSize(batch) = u[1]
    BY DEF LayoutSize
  <1>3. ASSUME NEW i \in 1 .. n
        PROVE  next[i] \in 1 .. n + 1 /\ next[i] > i /\ v[i] \in Nat
               /\ v[i] + Remaining(batch, next[i]) <= Remaining(batch, i) /\ Remaining(batch, next[i]) \in Nat
    <2>1. Lanes(batch, i) \in Nat \ {0} /\ i + Lanes(batch, i) - 1 <= n
      BY LanesType
    <2>2. QED
      BY <1>1, <2>1, TileFits
  <1>4. \E f : Solves(f)
    <2> HIDE DEF n
    <2>1. next \in [1 .. n -> 1 .. n + 1] /\ v \in [1 .. n -> Nat]
      BY <1>3
    <2> HIDE DEF next, v
    <2>2. PICK f \in [1 .. n + 1 -> Nat] : Skipping(f, n, 1, next, v)
      BY <1>1, <1>3, <2>1, SkipExists
    <2>3. ASSUME NEW i \in 1 .. n + 1
          PROVE  f[i] = IF i > n THEN 0
                        ELSE TileSize(batch[i], Lanes(batch, i)) + f[i + Lanes(batch, i)]
      <3>1. CASE i = n + 1
        BY <1>1, <2>2, <3>1 DEF Skipping
      <3>2. CASE i # n + 1
        <4>1. i \in 1 .. n /\ ~(i > n)
          BY <1>1, <3>2
        <4>2. f[i] = v[i] + f[next[i]]
          BY <2>2, <4>1 DEF Skipping
        <4>3. QED
          BY <4>1, <4>2 DEF next, v
      <3>3. QED
        BY <3>1, <3>2
    <2>4. QED
      BY <2>2, <2>3
  <1>5. Solves(u)
    BY <1>4
  <1> HIDE DEF u
  <1>6. u[n + 1] = 0 /\ \A i \in 1 .. n : u[i] = v[i] + u[next[i]]
    BY <1>1, <1>5
  <1>7. Remaining(batch, 1) = BatchSize(batch) /\ \A i \in 1 .. n + 1 : Remaining(batch, i) \in Nat
    BY RestStep
  <1> HIDE DEF n, v
  <1>8. Bad = {}
    <2>1. SUFFICES ASSUME Bad # {} PROVE FALSE
      OBVIOUS
    <2>2. PICK d \in Bad : \A l \in Bad : d <= l
      <3>1. Bad \in SUBSET Nat
        BY <1>1
      <3> HIDE DEF Bad
      <3>2. QED
        BY <2>1, <3>1, NatMin
    <2>3. CASE d = 0
      <3>1. u[n + 1 - d] = 0 /\ n + 1 - d = n + 1 /\ n + 1 \in 1 .. n + 1
        BY <1>1, <1>6, <2>3
      <3>2. Remaining(batch, n + 1) \in Nat
        BY <1>7, <3>1
      <3>3. QED
        BY <2>2, <3>1, <3>2
    <2>4. CASE d # 0
      <3> DEFINE i == n + 1 - d
                 lo == n + 1 - next[i]
      <3>1. i \in 1 .. n
        BY <1>1, <2>2, <2>4
      <3>2. next[i] \in 1 .. n + 1 /\ next[i] > i
        BY <1>3, <3>1
      <3>3. lo \in 0 .. n /\ ~(d <= lo) /\ n + 1 - lo = next[i]
        <4> DEFINE x == next[i]
        <4>1. x \in 1 .. n + 1 /\ x > n + 1 - d
          BY <3>2
        <4> HIDE DEF x
        <4>2. n + 1 - x \in 0 .. n /\ ~(d <= n + 1 - x) /\ n + 1 - (n + 1 - x) = x
          BY <1>1, <2>2, <4>1
        <4>3. QED
          BY <4>2 DEF x
      <3>4. u[n + 1 - lo] \in Nat /\ u[n + 1 - lo] <= Remaining(batch, n + 1 - lo)
        <4> HIDE DEF lo
        <4>1. QED
          BY <2>2, <3>3
      <3>5. u[next[i]] \in Nat /\ u[next[i]] <= Remaining(batch, next[i])
        BY <3>3, <3>4
      <3>6. u[i] = v[i] + u[next[i]] /\ Remaining(batch, i) \in Nat
        <4>1. i \in 1 .. n + 1
          BY <1>1, <3>1
        <4>2. QED
          BY <1>6, <1>7, <3>1, <4>1
      <3>7. v[i] \in Nat /\ v[i] + Remaining(batch, next[i]) <= Remaining(batch, i) /\ Remaining(batch, next[i]) \in Nat
        BY <1>3, <3>1
      <3> HIDE DEF next
      <3>8. u[i] \in Nat /\ u[i] <= Remaining(batch, i)
        BY <3>5, <3>6, <3>7
      <3>9. QED
        BY <2>2, <3>8
    <2>5. QED
      BY <2>3, <2>4
  <1>9. n \in 0 .. n /\ n + 1 - n = 1
    BY <1>1
  <1>10. u[1] \in Nat /\ u[1] <= Remaining(batch, 1)
    BY <1>8, <1>9
  <1>11. QED
    BY <1>2, <1>7, <1>10

-----------------------------------------------------------------------------
(***************************************************************************)
(* Batches given to GPUs.                                                  *)
(***************************************************************************)
\* By decreasing work, each batch has a place.
LEMMA StealSorted ==
  ASSUME NEW groups, Proper(groups), NEW batches \in Seq(Seq(groups)),
         NEW order, order = StealOrder(batches)
  PROVE  Enumerates(order, DOMAIN batches) /\ \A i \in DOMAIN batches : BatchWork(batches[i]) \in Nat
  <1> DEFINE D == DOMAIN batches
             Work(i) == BatchWork(batches[i])
             Sooner(i, j) == Work(i) > Work(j) \/ (Work(i) = Work(j) /\ i < j)
             R == {e \in D \X D : Sooner(e[1], e[2])}
  <1>1. D \in SUBSET Int /\ IsFiniteSet(D)
    <2>1. Len(batches) \in Int /\ D = 1 .. Len(batches) /\ 1 \in Int
      OBVIOUS
    <2>2. QED
      BY <2>1, FS_Interval
  <1>2. ASSUME NEW i \in D PROVE Work(i) \in Nat
    <2>1. batches[i] \in Seq(groups)
      OBVIOUS
    <2>2. QED
      BY <2>1, BatchTypes
  <1> HIDE DEF D, Work
  <1>3. \A x, y \in D : <<x, y>> \in R <=> Sooner(x, y)
    OBVIOUS
  <1> HIDE DEF R
  <1>4. StrictOrder(D, R)
    <2>1. \A x \in D : <<x, x>> \notin R
      BY <1>1, <1>2, <1>3
    <2>2. ASSUME NEW x \in D, NEW y \in D, NEW z \in D, <<x, y>> \in R, <<y, z>> \in R
          PROVE  <<x, z>> \in R
      <3>1. Work(x) \in Nat /\ Work(y) \in Nat /\ Work(z) \in Nat
        BY <1>2
      <3>2. x \in Int /\ y \in Int /\ z \in Int
        BY <1>1
      <3>3. Sooner(x, y) /\ Sooner(y, z)
        BY <1>3, <2>2
      <3>4. Sooner(x, z)
        BY <3>1, <3>2, <3>3
      <3> HIDE DEF Sooner
      <3>5. QED
        BY <1>3, <3>4
    <2>3. ASSUME NEW x \in D, NEW y \in D, x # y PROVE <<x, y>> \in R \/ <<y, x>> \in R
      <3>1. Work(x) \in Nat /\ Work(y) \in Nat
        BY <1>2
      <3>2. x \in Int /\ y \in Int
        BY <1>1
      <3>3. Sooner(x, y) \/ Sooner(y, x)
        BY <2>3, <3>1, <3>2
      <3> HIDE DEF Sooner
      <3>4. QED
        BY <1>3, <3>3
    <2>4. QED
      BY <2>1, <2>2, <2>3 DEF StrictOrder
  <1>5. order = Counted(D, R)
    <2> DEFINE A(x) == Cardinality({y \in D : Sooner(y, x)})
               B(x) == Cardinality({y \in D : <<y, x>> \in R})
    <2>1. ASSUME NEW x \in D PROVE A(x) = B(x)
      <3>1. {y \in D : Sooner(y, x)} = {y \in D : <<y, x>> \in R}
        BY <1>3
      <3>2. QED
        BY <3>1
    <2>2. order = [i \in 1 .. Cardinality(D) |-> CHOOSE x \in D : A(x) = i - 1]
      BY DEF StealOrder, InOrder, D, Work
    <2> HIDE DEF A, B
    <2>3. ASSUME NEW i PROVE (CHOOSE x \in D : A(x) = i - 1) = (CHOOSE x \in D : B(x) = i - 1)
      <3>1. \A x : (x \in D /\ A(x) = i - 1) <=> (x \in D /\ B(x) = i - 1)
        BY <2>1
      <3>2. QED
        BY <3>1
    <2>4. order = [i \in 1 .. Cardinality(D) |-> CHOOSE x \in D : B(x) = i - 1]
      BY <2>2, <2>3
    <2>5. QED
      BY <2>4 DEF B, Counted
  <1>6. Enumerates(order, D)
    <2>1. IsFiniteSet(D)
      BY <1>1
    <2>2. QED
      BY <1>4, <1>5, <2>1, Sorts
  <1>7. \A i \in D : Work(i) \in Nat
    BY <1>2
  <1>8. QED
    BY <1>6, <1>7 DEF D, Work

\* There is a first GPU of the least load.
LEMMA LightestIs ==
  ASSUME NEW load \in [1 .. GPUs -> Nat]
  PROVE  Lightest(load) \in 1 .. GPUs /\ \A e \in 1 .. GPUs : load[Lightest(load)] <= load[e]
  <1> DEFINE L == {load[d] : d \in 1 .. GPUs}
  <1>1. GPUs \in Nat \ {0}
    BY PlanAssumption
  <1>2. PICK d \in 1 .. GPUs : \A e \in 1 .. GPUs : load[d] <= load[e]
    <2>1. L \in SUBSET Nat /\ load[1] \in L
      BY <1>1
    <2> HIDE DEF L
    <2>2. PICK m \in L : \A x \in L : m <= x
      BY <2>1, NatMin
    <2>3. QED
      BY <2>2 DEF L
  <1> DEFINE S == {e \in 1 .. GPUs : load[e] = load[d]}
  <1>3. PICK c \in S : \A e \in S : c <= e
    <2>1. S \in SUBSET Nat /\ d \in S
      OBVIOUS
    <2> HIDE DEF S
    <2>2. QED
      BY <2>1, NatMin
  <1>4. c \in 1 .. GPUs /\ \A e \in 1 .. GPUs : load[c] < load[e] \/ (load[c] = load[e] /\ c <= e)
    <2>1. ASSUME NEW e \in 1 .. GPUs PROVE load[c] < load[e] \/ (load[c] = load[e] /\ c <= e)
      <3>1. load[c] <= load[e] /\ load[c] \in Nat /\ load[e] \in Nat /\ load[c] = load[d]
        BY <1>2, <1>3
      <3>2. QED
        BY <1>3, <3>1
    <2>2. QED
      BY <1>3, <2>1
  <1>5. /\ Lightest(load) \in 1 .. GPUs
        /\ \A e \in 1 .. GPUs : \/ load[Lightest(load)] < load[e]
                                \/ load[Lightest(load)] = load[e] /\ Lightest(load) <= e
    BY <1>4 DEF Lightest
  <1>6. \A e \in 1 .. GPUs : load[e] \in Nat
    OBVIOUS
  <1>7. QED
    BY <1>5, <1>6

\* The batches S given out: each to a GPU, whose load is the work of its batches, and no GPU ahead
\* of another by more than M.
Shared(batches, given, S, M) ==
  /\ given.load \in [1 .. GPUs -> Nat]
  /\ given.owner \in [DOMAIN batches -> 0 .. GPUs]
  /\ \A i \in DOMAIN batches : i \in S <=> given.owner[i] # 0
  /\ \A d \in 1 .. GPUs :
        given.load[d] = SumFunctionOnSet([i \in DOMAIN batches |-> BatchWork(batches[i])],
                                         {i \in DOMAIN batches : given.owner[i] = d})
  /\ \A d, e \in 1 .. GPUs : given.load[d] <= given.load[e] + M

LEMMA GiveStep ==
  ASSUME NEW batches, IsFiniteSet(DOMAIN batches), NEW M \in Nat,
         \A i \in DOMAIN batches : BatchWork(batches[i]) \in Nat /\ BatchWork(batches[i]) <= M,
         NEW S \in SUBSET DOMAIN batches, NEW x \in DOMAIN batches, x \notin S,
         NEW given, Shared(batches, given, S, M)
  PROVE  Shared(batches, Give(given, x, BatchWork(batches[x])), S \cup {x}, M)
  <1> DEFINE D == DOMAIN batches
             f == [i \in D |-> BatchWork(batches[i])]
             w == BatchWork(batches[x])
             load == given.load
             whose == given.owner
             best == Lightest(load)
             next == Give(given, x, w)
             Of(o, d) == {i \in D : o[i] = d}
  <1>1. /\ load \in [1 .. GPUs -> Nat] /\ whose \in [D -> 0 .. GPUs]
        /\ \A i \in D : i \in S <=> whose[i] # 0
        /\ \A d \in 1 .. GPUs : load[d] = SumFunctionOnSet(f, Of(whose, d))
        /\ \A d, e \in 1 .. GPUs : load[d] <= load[e] + M
    BY DEF Shared
  <1>2. GPUs \in Nat \ {0}
    BY PlanAssumption
  <1>3. best \in 1 .. GPUs /\ \A e \in 1 .. GPUs : load[best] <= load[e]
    BY <1>1, LightestIs
  <1>4. next.load = [load EXCEPT ![best] = @ + w] /\ next.owner = [whose EXCEPT ![x] = best]
    BY DEF Give
  <1>5. w \in Nat /\ w <= M /\ x \in D /\ IsFiniteSet(D) /\ f[x] = w /\ \A i \in D : f[i] \in Nat
    OBVIOUS
  <1> HIDE DEF D, f, w, load, whose, best, next
  <1>6. /\ next.load \in [1 .. GPUs -> Nat] /\ next.owner \in [D -> 0 .. GPUs]
        /\ next.load[best] = load[best] + w /\ next.owner[x] = best
        /\ \A d \in 1 .. GPUs : d # best => next.load[d] = load[d]
        /\ \A i \in D : i # x => next.owner[i] = whose[i]
    BY <1>1, <1>2, <1>3, <1>4, <1>5
  <1>7. \A i \in D : i \in S \cup {x} <=> next.owner[i] # 0
    BY <1>1, <1>3, <1>6
  <1>8. whose[x] = 0
    BY <1>1, <1>5
  <1>9. ASSUME NEW d \in 1 .. GPUs PROVE next.load[d] = SumFunctionOnSet(f, Of(next.owner, d))
    <2>1. CASE d = best
      <3>1. Of(next.owner, d) = Of(whose, d) \cup {x} /\ x \notin Of(whose, d) /\ Of(whose, d) \in SUBSET D
        BY <1>2, <1>5, <1>6, <1>8, <2>1
      <3> HIDE DEF Of
      <3>2. IsFiniteSet(Of(whose, d)) /\ \A i \in Of(whose, d) \cup {x} : f[i] \in Nat
        BY <1>5, <3>1, FS_Subset
      <3>3. SumFunctionOnSet(f, Of(whose, d) \cup {x}) = f[x] + SumFunctionOnSet(f, Of(whose, d))
        BY <3>1, <3>2, SumAdd
      <3>4. load[d] \in Nat /\ load[d] = SumFunctionOnSet(f, Of(whose, d))
        BY <1>1
      <3>5. QED
        BY <1>5, <1>6, <2>1, <3>1, <3>3, <3>4
    <2>2. CASE d # best
      <3>1. Of(next.owner, d) = Of(whose, d)
        BY <1>2, <1>6, <1>8, <2>2
      <3>2. QED
        BY <1>1, <1>6, <2>2, <3>1
    <2>3. QED
      BY <2>1, <2>2
  <1>10. ASSUME NEW d \in 1 .. GPUs, NEW e \in 1 .. GPUs PROVE next.load[d] <= next.load[e] + M
    <2>1. load[d] \in Nat /\ load[e] \in Nat /\ load[best] \in Nat
      BY <1>1, <1>3
    <2>2. load[d] <= load[e] + M /\ load[best] <= load[e]
      BY <1>1, <1>3
    <2>3. (next.load[d] = load[d] + w /\ d = best) \/ next.load[d] = load[d]
      BY <1>6
    <2>4. next.load[e] = load[e] + w \/ next.load[e] = load[e]
      BY <1>6
    <2>5. QED
      BY <1>5, <2>1, <2>2, <2>3, <2>4
  <1>11. QED
    BY <1>6, <1>7, <1>9, <1>10 DEF Shared, D, f, w, next

\* make_groupbatch_affinity gives each batch to a GPU; the load it reckons with is the work of the
\* batches a GPU got, and no two GPUs differ by more than the work of one batch can be.
THEOREM AffinityFair ==
  ASSUME NEW groups, Proper(groups), NEW batches \in Seq(Seq(groups)), NEW M \in Nat,
         \A i \in DOMAIN batches : BatchWork(batches[i]) <= M
  PROVE  Shared(batches, MakeAffinity(batches), DOMAIN batches, M)
  <1> DEFINE D == DOMAIN batches
             order == StealOrder(batches)
             N == Len(order)
             start == [load |-> [d \in 1 .. GPUs |-> 0], owner |-> [i \in D |-> 0]]
             Given(given, n) == Give(given, order[n], BatchWork(batches[order[n]]))
             Solves(f) == f = [n \in 0 .. N |-> IF n = 0 THEN start ELSE Given(f[n - 1], n)]
             f == CHOOSE g : Solves(g)
             Passed(n) == {order[i] : i \in 1 .. n}
             Bad == {n \in 0 .. N : ~Shared(batches, f[n], Passed(n), M)}
  <1>1. MakeAffinity(batches) = f[N]
    BY DEF MakeAffinity
  <1>2. /\ \A i \in D : BatchWork(batches[i]) \in Nat /\ BatchWork(batches[i]) <= M
        /\ order \in Seq(D)
        /\ \A x \in D : \E i \in 1 .. N : order[i] = x
        /\ \A i, j \in 1 .. N : order[i] = order[j] => i = j
    <2>1. Enumerates(order, D) /\ \A i \in D : BatchWork(batches[i]) \in Nat
      BY StealSorted
    <2>2. QED
      BY <2>1 DEF Enumerates
  <1>3. IsFiniteSet(D)
    <2>1. Len(batches) \in Int /\ D = 1 .. Len(batches) /\ 1 \in Int
      OBVIOUS
    <2>2. QED
      BY <2>1, FS_Interval
  <1> HIDE DEF order, D
  <1>4. N \in Nat /\ \A i \in 1 .. N : order[i] \in D
    BY <1>2
  <1> HIDE DEF N
  <1>5. GPUs \in Nat \ {0}
    BY PlanAssumption
  <1>6. Shared(batches, start, {}, M)
    <2>1. ASSUME NEW d \in 1 .. GPUs PROVE {i \in D : start.owner[i] = d} = {}
      BY <1>5
    <2>2. \A g : SumFunctionOnSet(g, {}) = 0
      BY SumEmpty
    <2>3. \A d \in 1 .. GPUs : start.load[d] = 0
      OBVIOUS
    <2>4. start.load \in [1 .. GPUs -> Nat] /\ start.owner \in [D -> 0 .. GPUs]
      BY <1>5
    <2>5. \A i \in D : start.owner[i] = 0
      OBVIOUS
    <2> HIDE DEF start
    <2>6. \A d \in 1 .. GPUs : start.load[d] =
             SumFunctionOnSet([i \in D |-> BatchWork(batches[i])], {i \in D : start.owner[i] = d})
      BY <2>1, <2>2, <2>3
    <2>7. \A d, e \in 1 .. GPUs : start.load[d] <= start.load[e] + M
      BY <2>3
    <2>8. QED
      BY <2>4, <2>5, <2>6, <2>7 DEF Shared, D
  <1>7. \E g : Solves(g)
    <2> DEFINE B == [load : [1 .. GPUs -> Nat], owner : [D -> 0 .. GPUs]]
               step == [e \in B \X (1 .. N) |-> Given(e[1], e[2])]
    <2>1. step \in [B \X (1 .. N) -> B]
      <3>1. ASSUME NEW g \in B, NEW n \in 1 .. N PROVE Given(g, n) \in B
        <4>1. order[n] \in D /\ BatchWork(batches[order[n]]) \in Nat
          BY <1>2, <1>4
        <4> DEFINE best == Lightest(g.load)
        <4>2. best \in 1 .. GPUs
          BY LightestIs
        <4>3. Given(g, n) = [load |-> [g.load EXCEPT ![best] = @ + BatchWork(batches[order[n]])],
                            owner |-> [g.owner EXCEPT ![order[n]] = best]]
          BY DEF Give
        <4>4. g.load[best] + BatchWork(batches[order[n]]) \in Nat /\ best \in 0 .. GPUs
          <5> DEFINE w == BatchWork(batches[order[n]])
          <5>1. w \in Nat /\ g.load[best] \in Nat
            BY <4>1, <4>2
          <5> HIDE DEF w, best
          <5>2. g.load[best] + w \in Nat
            BY <5>1
          <5>3. best \in 0 .. GPUs
            BY <1>5, <4>2
          <5>4. QED
            BY <5>2, <5>3 DEF w
        <4> HIDE DEF best, Given
        <4>5. QED
          BY <4>1, <4>2, <4>3, <4>4
      <3> HIDE DEF Given, B
      <3>2. QED
        BY <3>1
    <2>2. start \in B
      BY <1>5
    <2> HIDE DEF B, start, Given
    <2>3. PICK g \in [0 .. N -> B] : Iterates(g, N, start, step)
      <3> HIDE DEF step
      <3>1. QED
        BY <1>4, <2>1, <2>2, IterExists
    <2>4. ASSUME NEW n \in 0 .. N PROVE g[n] = IF n = 0 THEN start ELSE Given(g[n - 1], n)
      <3>1. CASE n = 0
        BY <2>3, <3>1 DEF Iterates
      <3>2. CASE n # 0
        <4>1. n \in 1 .. N /\ n - 1 \in 0 .. N
          BY <1>4, <3>2
        <4>2. g[n - 1] \in B
          BY <2>3, <4>1
        <4>3. g[n] = step[<<g[n - 1], n>>]
          BY <2>3, <4>1 DEF Iterates
        <4>4. QED
          BY <3>2, <4>1, <4>2, <4>3
      <3>3. QED
        BY <3>1, <3>2
    <2>5. Solves(g)
      BY <2>3, <2>4
    <2>6. QED
      BY <2>5
  <1> HIDE DEF start, Given
  <1>8. Solves(f)
    BY <1>7
  <1> HIDE DEF f
  <1>9. \A n \in 0 .. N : f[n] = IF n = 0 THEN start ELSE Given(f[n - 1], n)
    BY <1>8
  <1>10. Bad = {}
    <2>1. SUFFICES ASSUME Bad # {} PROVE FALSE
      OBVIOUS
    <2>2. PICK n \in Bad : \A m \in Bad : n <= m
      <3>1. Bad \in SUBSET Nat
        BY <1>4
      <3> HIDE DEF Bad
      <3>2. QED
        BY <2>1, <3>1, NatMin
    <2>3. CASE n = 0
      <3>1. f[0] = start /\ Passed(0) = {}
        BY <1>4, <1>9
      <3>2. QED
        BY <1>6, <2>2, <2>3, <3>1
    <2>4. CASE n # 0
      <3>1. n \in 1 .. N /\ n - 1 \in 0 .. N /\ ~(n <= n - 1)
        BY <1>4, <2>2, <2>4
      <3>2. Shared(batches, f[n - 1], Passed(n - 1), M)
        BY <2>2, <3>1
      <3>3. f[n] = Give(f[n - 1], order[n], BatchWork(batches[order[n]]))
        BY <1>9, <3>1 DEF Given
      <3>4. Passed(n - 1) \in SUBSET D /\ order[n] \in D
        BY <1>4, <3>1
      <3>5. order[n] \notin Passed(n - 1)
        <4>1. ASSUME NEW i \in 1 .. n - 1 PROVE order[i] # order[n]
          <5>1. i \in 1 .. N /\ n \in 1 .. N /\ i # n
            BY <1>4, <3>1
          <5>2. \A x, y \in 1 .. N : order[x] = order[y] => x = y
            BY <1>2
          <5>3. QED
            BY <5>1, <5>2
        <4>2. QED
          BY <4>1
      <3>6. Passed(n) = Passed(n - 1) \cup {order[n]}
        <4>1. \A i : i \in 1 .. n <=> i \in 1 .. n - 1 \/ i = n
          BY <3>1
        <4>2. QED
          BY <4>1
      <3> HIDE DEF Passed
      <3>7. Shared(batches, f[n], Passed(n - 1) \cup {order[n]}, M)
        <4>1. /\ IsFiniteSet(DOMAIN batches) /\ Passed(n - 1) \in SUBSET DOMAIN batches
              /\ order[n] \in DOMAIN batches
              /\ \A i \in DOMAIN batches : BatchWork(batches[i]) \in Nat /\ BatchWork(batches[i]) <= M
          BY <1>2, <1>3, <3>4 DEF D
        <4>2. QED
          BY <3>2, <3>3, <3>5, <4>1, GiveStep
      <3>8. QED
        BY <2>2, <3>6, <3>7
    <2>5. QED
      BY <2>3, <2>4
  <1>11. Shared(batches, f[N], Passed(N), M)
    <2>1. N \in 0 .. N
      BY <1>4
    <2>2. QED
      BY <1>10, <2>1
  <1>12. Passed(N) = D
    <2>1. \A x \in D : \E i \in 1 .. N : order[i] = x
      BY <1>2
    <2>2. QED
      BY <1>4, <2>1
  <1>13. QED
    BY <1>1, <1>11, <1>12 DEF D

-----------------------------------------------------------------------------
(***************************************************************************)
(* The schedule of a row.                                                  *)
(***************************************************************************)
\* The plan of a window: batches of its groups, none empty, each within the target.
LEMMA PlanOf ==
  ASSUME NEW w \in 1 .. 2, Fits(Groups(w))
  PROVE  /\ Schedule[w] \in Seq(Seq(Groups(w))) /\ IsFiniteSet(DOMAIN Schedule[w])
         /\ Len(Schedule[w]) \in Nat /\ DOMAIN Schedule[w] = 1 .. Len(Schedule[w])
         /\ \A i \in DOMAIN Schedule[w] :
               /\ Schedule[w][i] \in Seq(Groups(w))
               /\ BatchSize(Schedule[w][i]) \in Nat /\ BatchSize(Schedule[w][i]) <= ScratchLimit
  <1> DEFINE G == Groups(w)
             target == BatchTarget(G)
             P == PrepareBatches(G, target)
  <1>1. Proper(G) /\ Fits(G)
    BY GroupsProper
  <1>2. Schedule[w] = P
    BY DEF Schedule
  <1> HIDE DEF G
  <1>3. target \in Nat /\ target <= ScratchLimit /\ \A g \in G : GroupSize(g) <= target
    BY <1>1, TargetFits
  <1> HIDE DEF target
  <1>4. Packing(G, target, P, G)
    BY <1>1, <1>3, PackedOnce
  <1> HIDE DEF P
  <1>5. P \in Seq(Seq(G) \ {<<>>}) /\ \A i \in DOMAIN P : BatchSize(P[i]) <= target
    BY <1>4 DEF Packing
  <1>6. P \in Seq(Seq(G)) /\ Len(P) \in Nat /\ DOMAIN P = 1 .. Len(P) /\ \A i \in DOMAIN P : P[i] \in Seq(G)
    BY <1>5
  <1>7. IsFiniteSet(DOMAIN P)
    <2>1. 1 \in Int /\ Len(P) \in Int
      BY <1>6
    <2>2. QED
      BY <1>6, <2>1, FS_Interval
  <1>8. ASSUME NEW i \in DOMAIN P PROVE BatchSize(P[i]) \in Nat /\ BatchSize(P[i]) <= ScratchLimit
    <2>1. BatchSize(P[i]) \in Nat
      BY <1>1, <1>6, BatchTypes
    <2>2. BatchSize(P[i]) <= target /\ ScratchLimit \in Nat
      BY <1>5, PlanAssumption
    <2>3. QED
      BY <1>3, <2>1, <2>2
  <1>9. QED
    BY <1>1, <1>2, <1>6, <1>7, <1>8 DEF G

\* A batch of the schedule is a window with a place in its plan.
LEMMA BatchIs ==
  /\ \A b \in ScheduleBatches : b[1] \in 1 .. 2 /\ b[2] \in DOMAIN Schedule[b[1]] /\ b = <<b[1], b[2]>>
  /\ \A w \in 1 .. 2 : \A i \in DOMAIN Schedule[w] : <<w, i>> \in ScheduleBatches
  <1>1. ASSUME NEW b \in ScheduleBatches
        PROVE  b[1] \in 1 .. 2 /\ b[2] \in DOMAIN Schedule[b[1]] /\ b = <<b[1], b[2]>>
    <2>1. PICK w \in 1 .. 2 : b \in {w} \X DOMAIN Schedule[w]
      BY DEF ScheduleBatches
    <2>2. QED
      BY <2>1
  <1>2. ASSUME NEW w \in 1 .. 2, NEW i \in DOMAIN Schedule[w] PROVE <<w, i>> \in ScheduleBatches
    BY DEF ScheduleBatches
  <1>3. QED
    BY <1>1, <1>2

\* Each order of a window's batches names its batches and no others.
LEMMA ScheduleOrders ==
  ASSUME NEW w \in 1 .. 2, Fits(Groups(w))
  PROVE  LET Mine == {b \in ScheduleBatches : ScheduleWin[b] = w}
         IN  /\ ScheduleListed[w] \in Seq(ScheduleBatches)
             /\ Mine = {ScheduleListed[w][i] : i \in DOMAIN ScheduleListed[w]}
             /\ ScheduleOrder[w] \in Seq(ScheduleBatches)
             /\ Mine = {ScheduleOrder[w][i] : i \in DOMAIN ScheduleOrder[w]}
  <1> DEFINE D == DOMAIN Schedule[w]
             s == StealOrder(Schedule[w])
             L == ScheduleListed[w]
             O == ScheduleOrder[w]
             Mine == {b \in ScheduleBatches : ScheduleWin[b] = w}
  <1>1. Schedule[w] \in Seq(Seq(Groups(w))) /\ Len(Schedule[w]) \in Nat /\ D = 1 .. Len(Schedule[w])
    BY PlanOf
  <1>2. L = [i \in D |-> <<w, i>>] /\ O = [i \in DOMAIN s |-> <<w, s[i]>>]
    BY DEF ScheduleListed, ScheduleOrder
  <1>3. \A b : b \in Mine <=> \E i \in D : b = <<w, i>>
    BY BatchIs DEF ScheduleWin
  <1>4. s \in Seq(D) /\ \A x \in D : \E i \in 1 .. Len(s) : s[i] = x
    <2>1. Proper(Groups(w)) /\ Schedule[w] \in Seq(Seq(Groups(w)))
      BY <1>1, GroupsProper
    <2>2. Enumerates(s, D)
      BY <2>1, StealSorted
    <2>3. QED
      BY <2>2 DEF Enumerates
  <1>5. \A i \in D : <<w, i>> \in ScheduleBatches
    BY BatchIs
  <1> HIDE DEF s, D, L, O, Mine
  <1>6. Len(s) \in Nat /\ DOMAIN s = 1 .. Len(s) /\ \A i \in 1 .. Len(s) : s[i] \in D
    BY <1>4
  <1>7. L \in [1 .. Len(Schedule[w]) -> ScheduleBatches] /\ O \in [1 .. Len(s) -> ScheduleBatches]
    BY <1>1, <1>2, <1>5, <1>6
  <1>8. L \in Seq(ScheduleBatches) /\ O \in Seq(ScheduleBatches)
    BY <1>1, <1>6, <1>7, IsSeq
  <1>9. Mine = {L[i] : i \in DOMAIN L}
    BY <1>2, <1>3
  <1>10. Mine = {O[i] : i \in DOMAIN O}
    <2>1. ASSUME NEW b \in Mine PROVE \E i \in DOMAIN O : b = O[i]
      <3>1. PICK x \in D : b = <<w, x>>
        BY <1>3, <2>1
      <3>2. PICK i \in 1 .. Len(s) : s[i] = x
        BY <1>4, <3>1
      <3>3. QED
        BY <1>2, <1>6, <3>1, <3>2
    <2>2. ASSUME NEW i \in DOMAIN O PROVE O[i] \in Mine
      BY <1>2, <1>3, <1>6
    <2>3. QED
      BY <2>1, <2>2
  <1>11. QED
    BY <1>8, <1>9, <1>10 DEF L, O, Mine

\* Each batch gets a GPU.
LEMMA ScheduleOwned ==
  ASSUME NEW w \in 1 .. 2, Fits(Groups(w)), NEW i \in DOMAIN Schedule[w]
  PROVE  MakeAffinity(Schedule[w]).owner[i] \in 1 .. GPUs
  <1> DEFINE P == Schedule[w]
             D == DOMAIN P
             f == [j \in D |-> BatchWork(P[j])]
             given == MakeAffinity(P)
  <1>1. P \in Seq(Seq(Groups(w))) /\ IsFiniteSet(D) /\ Proper(Groups(w))
    BY PlanOf, GroupsProper
  <1>2. \A j \in D : f[j] \in Nat
    <2>1. \A j \in D : BatchWork(P[j]) \in Nat
      BY <1>1, StealSorted
    <2>2. QED
      BY <2>1
  <1>3. SumFunctionOnSet(f, D) \in Nat /\ \A j \in D : f[j] <= SumFunctionOnSet(f, D)
    <2> HIDE DEF f, D
    <2>1. SumFunctionOnSet(f, D) \in Nat
      BY <1>1, <1>2, SumType
    <2>2. ASSUME NEW j \in D PROVE f[j] <= SumFunctionOnSet(f, D)
      <3>1. IsFiniteSet(D \ {j}) /\ D = (D \ {j}) \cup {j} /\ j \notin D \ {j}
        BY <1>1, FS_RemoveElement
      <3>2. SumFunctionOnSet(f, D) = f[j] + SumFunctionOnSet(f, D \ {j})
        BY <1>2, <3>1, SumAdd
      <3>3. SumFunctionOnSet(f, D \ {j}) \in Nat
        BY <1>2, <3>1, SumType
      <3>4. f[j] \in Nat
        BY <1>2
      <3>5. QED
        BY <3>2, <3>3, <3>4
    <2>3. QED
      BY <2>1, <2>2
  <1>4. Shared(P, given, D, SumFunctionOnSet(f, D))
    <2>1. \A j \in D : BatchWork(P[j]) <= SumFunctionOnSet(f, D)
      BY <1>3
    <2> HIDE DEF f, given
    <2>2. QED
      BY <1>1, <1>3, <2>1, AffinityFair DEF given
  <1> HIDE DEF given, f
  <1>5. given.owner \in [D -> 0 .. GPUs] /\ given.owner[i] # 0
    BY <1>4 DEF Shared
  <1>6. given.owner[i] \in 0 .. GPUs
    BY <1>5
  <1>7. GPUs \in Nat
    BY PlanAssumption
  <1>8. QED
    BY <1>5, <1>6, <1>7 DEF given

\* The cells of a batch are those of a set of masks.
LEMMA CellsOfMasks ==
  ASSUME NEW w \in 1 .. 2, NEW batch \in Seq(Groups(w))
  PROVE  BatchCells(batch)
         = UNION {GroupCells(Hi(w), Lo(w), occ) : occ \in {batch[i].occ : i \in DOMAIN batch}}
  <1> DEFINE Of(occ) == GroupCells(Hi(w), Lo(w), occ)
             Masks == {batch[i].occ : i \in DOMAIN batch}
  <1>1. \A i \in DOMAIN batch : batch[i] \in Groups(w)
    OBVIOUS
  <1>2. \A g \in Groups(w) : g.cells = Of(g.occ)
    BY GroupsProper, GroupFacts
  <1>3. \A i \in DOMAIN batch : batch[i].cells = Of(batch[i].occ)
    BY <1>1, <1>2
  <1> HIDE DEF Of
  <1>4. UNION {batch[i].cells : i \in DOMAIN batch} = UNION {Of(occ) : occ \in Masks}
    BY <1>3
  <1>5. QED
    BY <1>4 DEF BatchCells, Of

\* What the scheduler is told: when no group exceeds the target, the batches of a row are finitely
\* many, each of one window, of cells that no other batch of the window has; together they have all
\* cells; none needs more than the target; both orders name each batch of a window, and each batch
\* has a GPU.
THEOREM ScheduleFits ==
  ASSUME \A w \in 1 .. 2 : Fits(Groups(w))
  PROVE  /\ IsFiniteSet(ScheduleBatches) /\ ScheduleWin \in [ScheduleBatches -> 1 .. 2]
         /\ ScheduleCells \in [ScheduleBatches -> SUBSET Ranks]
         /\ \A b, c \in ScheduleBatches :
               b # c /\ ScheduleWin[b] = ScheduleWin[c] => ScheduleCells[b] \cap ScheduleCells[c] = {}
         /\ \A w \in 1 .. 2 :
               LET Mine == {b \in ScheduleBatches : ScheduleWin[b] = w}
               IN  /\ Ranks = UNION {ScheduleCells[b] : b \in Mine}
                   /\ Mine = {ScheduleListed[w][i] : i \in DOMAIN ScheduleListed[w]}
                   /\ Mine = {ScheduleOrder[w][i] : i \in DOMAIN ScheduleOrder[w]}
         /\ ScheduleSize \in [ScheduleBatches -> Nat]
         /\ \A b \in ScheduleBatches : ScheduleSize[b] <= ScratchLimit
         /\ ScheduleListed \in [1 .. 2 -> Seq(ScheduleBatches)]
         /\ ScheduleOrder \in [1 .. 2 -> Seq(ScheduleBatches)]
         /\ ScheduleOwner \in [ScheduleBatches -> 1 .. GPUs]
  <1> DEFINE Piece(w, i) == BatchCells(Schedule[w][i])
             Mine(w) == {b \in ScheduleBatches : ScheduleWin[b] = w}
  <1>1. \A b \in ScheduleBatches : b[1] \in 1 .. 2 /\ b[2] \in DOMAIN Schedule[b[1]] /\ b = <<b[1], b[2]>>
    BY BatchIs
  <1>2. \A w \in 1 .. 2 : \A i \in DOMAIN Schedule[w] : <<w, i>> \in ScheduleBatches
    BY BatchIs
  <1>3. ASSUME NEW w \in 1 .. 2
        PROVE  /\ \A i, j \in DOMAIN Schedule[w] : i # j => Piece(w, i) \cap Piece(w, j) = {}
               /\ Ranks = UNION {Piece(w, i) : i \in DOMAIN Schedule[w]}
    BY BatchesPartition DEF Piece
  <1> HIDE DEF Piece
  <1>4. IsFiniteSet(ScheduleBatches)
    <2>1. ScheduleBatches = ({1} \X DOMAIN Schedule[1]) \cup ({2} \X DOMAIN Schedule[2])
      BY DEF ScheduleBatches
    <2>2. IsFiniteSet(DOMAIN Schedule[1]) /\ IsFiniteSet(DOMAIN Schedule[2])
      BY PlanOf
    <2>3. IsFiniteSet({1}) /\ IsFiniteSet({2})
      BY FS_Singleton
    <2>4. QED
      BY <2>1, <2>2, <2>3, FS_Product, FS_Union
  <1>5. /\ ScheduleWin \in [ScheduleBatches -> 1 .. 2] /\ \A b \in ScheduleBatches : ScheduleWin[b] = b[1]
    BY <1>1 DEF ScheduleWin
  <1>6. \A b \in ScheduleBatches : ScheduleCells[b] = Piece(b[1], b[2])
    BY DEF ScheduleCells, Piece
  <1>7. ScheduleCells \in [ScheduleBatches -> SUBSET Ranks]
    <2>1. \A b \in ScheduleBatches : ScheduleCells[b] \in SUBSET Ranks
      BY <1>1, <1>3, <1>6
    <2>2. QED
      BY <2>1 DEF ScheduleCells
  <1>8. ASSUME NEW b \in ScheduleBatches, NEW c \in ScheduleBatches, b # c, ScheduleWin[b] = ScheduleWin[c]
        PROVE  ScheduleCells[b] \cap ScheduleCells[c] = {}
    <2>1. b[1] = c[1] /\ b[2] # c[2]
      BY <1>1, <1>5, <1>8
    <2>2. QED
      BY <1>1, <1>3, <1>6, <2>1
  <1>9. ASSUME NEW w \in 1 .. 2 PROVE Ranks = UNION {ScheduleCells[b] : b \in Mine(w)}
    <2>1. ASSUME NEW x \in Ranks PROVE \E b \in Mine(w) : x \in ScheduleCells[b]
      <3>1. PICK i \in DOMAIN Schedule[w] : x \in Piece(w, i)
        BY <1>3
      <3>2. <<w, i>> \in ScheduleBatches /\ <<w, i>>[1] = w /\ <<w, i>>[2] = i
        BY <1>2
      <3>3. QED
        BY <1>5, <1>6, <3>1, <3>2
    <2>2. \A b \in Mine(w) : ScheduleCells[b] \in SUBSET Ranks
      BY <1>7
    <2>3. QED
      BY <2>1, <2>2
  <1>10. ASSUME NEW b \in ScheduleBatches
         PROVE  ScheduleSize[b] \in Nat /\ ScheduleSize[b] <= ScratchLimit
    <2> DEFINE batch == Schedule[b[1]][b[2]]
    <2>1. /\ batch \in Seq(Groups(b[1])) /\ BatchSize(batch) \in Nat /\ BatchSize(batch) <= ScratchLimit
          /\ Proper(Groups(b[1]))
      BY <1>1, PlanOf, GroupsProper
    <2>2. ScheduleSize[b] = LayoutSize(batch)
      BY DEF ScheduleSize
    <2> HIDE DEF batch
    <2>3. LayoutSize(batch) \in Nat /\ LayoutSize(batch) <= BatchSize(batch)
      BY <2>1, LayoutFits
    <2>4. ScratchLimit \in Nat
      BY PlanAssumption
    <2>5. QED
      BY <2>1, <2>2, <2>3, <2>4
  <1>11. ScheduleSize \in [ScheduleBatches -> Nat]
    BY <1>10 DEF ScheduleSize
  <1>12. ASSUME NEW w \in 1 .. 2
         PROVE  /\ ScheduleListed[w] \in Seq(ScheduleBatches) /\ ScheduleOrder[w] \in Seq(ScheduleBatches)
                /\ Mine(w) = {ScheduleListed[w][i] : i \in DOMAIN ScheduleListed[w]}
                /\ Mine(w) = {ScheduleOrder[w][i] : i \in DOMAIN ScheduleOrder[w]}
    BY ScheduleOrders
  <1>13. ScheduleListed \in [1 .. 2 -> Seq(ScheduleBatches)]
    BY <1>12 DEF ScheduleListed
  <1>14. ScheduleOrder \in [1 .. 2 -> Seq(ScheduleBatches)]
    BY <1>12 DEF ScheduleOrder
  <1>15. ScheduleOwner \in [ScheduleBatches -> 1 .. GPUs]
    <2>1. \A b \in ScheduleBatches : MakeAffinity(Schedule[b[1]]).owner[b[2]] \in 1 .. GPUs
      BY <1>1, ScheduleOwned
    <2>2. QED
      BY <2>1 DEF ScheduleOwner
  <1> HIDE DEF Mine
  <1>16. QED
    BY <1>4, <1>5, <1>7, <1>8, <1>9, <1>10, <1>11, <1>12, <1>13, <1>14, <1>15 DEF Mine

\* Each batch of the schedule can be worked on alone: what its window makes of its cells is what the
\* window makes of the whole vector, there.
THEOREM ScheduleLocal ==
  ASSUME \A w \in 1 .. 2 : Fits(Groups(w)), NEW b \in ScheduleBatches,
         NEW mod, NEW v, DOMAIN v = Ranks
  PROVE  LET flow == Flow(Hi(b[1]), Lo(b[1]))
         IN  WindowSteps(mod, flow, [c \in ScheduleCells[b] |-> v[c]])
             = [c \in ScheduleCells[b] |-> WindowSteps(mod, flow, v)[c]]
  <1> DEFINE batch == Schedule[b[1]][b[2]]
             O == {batch[i].occ : i \in DOMAIN batch}
  <1>1. b[1] \in 1 .. 2 /\ b[2] \in DOMAIN Schedule[b[1]]
    BY BatchIs
  <1>2. batch \in Seq(Groups(b[1]))
    BY <1>1, PlanOf
  <1>3. ScheduleCells[b] = BatchCells(batch)
    BY DEF ScheduleCells
  <1> HIDE DEF batch
  <1>4. ScheduleCells[b] = UNION {GroupCells(Hi(b[1]), Lo(b[1]), occ) : occ \in O}
    BY <1>1, <1>2, <1>3, CellsOfMasks
  <1> HIDE DEF O
  <1>5. Hi(b[1]) \in 1 .. W - 1 /\ Lo(b[1]) \in 1 .. Hi(b[1])
    BY <1>1, WindowRange
  <1>6. QED
    BY <1>4, <1>5, WindowLocal

-----------------------------------------------------------------------------
(***************************************************************************)
(* The solver: after each window the ideal vector is that of the vertex    *)
(* the edges of the window lead to.                                        *)
(***************************************************************************)
\* The vertex whose turn it is after j windows.
Stage(j) == W * (j \div 2 + 1) + (IF j % 2 = 1 THEN W - 1 - LOW_LUT_K ELSE 0)

\* What the assumptions say of the numbers.
LEMMA SolverNumbers ==
  /\ W \in Nat /\ W > 1 /\ LOW_LUT_K \in 1 .. W - 2 /\ Wins = 2 /\ Rows * Wins = 2 * (W - 2) /\ W - 2 \in Nat
  /\ \A w \in 1 .. 2 : Fits(Groups(w))
  /\ \A r \in 1 .. Residues : Mods[r] \in Nat \ {0, 1}
  /\ Batches = ScheduleBatches /\ WinOf = ScheduleWin /\ CellsOf = ScheduleCells /\ Cells = Ranks
  <1>1. W \in Nat /\ W > 1 /\ LOW_LUT_K \in 1 .. W - 2
    BY WAssumption, PlanAssumption
  <1>2. Rows = W - 2 /\ Wins = 2
    BY SolverAssumption
  <1>3. Rows * Wins = 2 * (W - 2) /\ W - 2 \in Nat
    BY <1>1, <1>2
  <1>4. QED
    BY <1>1, <1>2, <1>3, SolverAssumption

\* A window of the solver and the edges it has.
LEMMA WindowOf ==
  /\ Hi(1) = W - 1 /\ Lo(1) = LOW_LUT_K + 1 /\ Hi(2) = LOW_LUT_K /\ Lo(2) = 1
  /\ \A w \in 1 .. 2 : RowFlow[w] = Flow(Hi(w), Lo(w))
  BY DEF Hi, Lo, RowFlow

\* What a window does to the vector of the vertex it begins at.
LEMMA WindowVec ==
  ASSUME NEW mod \in Nat \ {0}, NEW a \in 0 .. W - 3
  PROVE  /\ WindowSteps(mod, RowFlow[1], Vec(mod, W * (a + 1))) = Vec(mod, W * (a + 1) + (W - 1 - LOW_LUT_K))
         /\ WindowSteps(mod, RowFlow[2], Vec(mod, W * (a + 1) + (W - 1 - LOW_LUT_K))) = Vec(mod, W * (a + 2))
  <1> DEFINE r == a + 1
             K == LOW_LUT_K
  <1>1. W \in Nat /\ W > 1 /\ K \in 1 .. W - 2
    BY SolverNumbers
  <1>2. r \in 0 .. W - 2 /\ r \in Nat /\ a + 2 = r + 1
    BY <1>1
  <1> HIDE DEF r, K
  <1>3. W * r \in Nat /\ W * (r + 1) = W * r + W
    BY <1>1, <1>2
  <1>4. WindowSteps(mod, Flow(W - 1, K + 1), Vec(mod, W * r)) = Vec(mod, W * r + (W - 1 - K))
    <2>1. W - 1 \in 1 .. W - 1 /\ K + 1 \in 1 .. W - 1
      BY <1>1
    <2>2. WindowSteps(mod, Flow(W - 1, K + 1), Vec(mod, W * r + (W - 1 - (W - 1)))) = Vec(mod, W * r + (W - (K + 1)))
      BY <1>2, <2>1, RowVec
    <2>3. W * r + (W - 1 - (W - 1)) = W * r /\ W * r + (W - (K + 1)) = W * r + (W - 1 - K)
      BY <1>1, <1>3
    <2>4. QED
      BY <2>2, <2>3
  <1>5. WindowSteps(mod, Flow(K, 1), Vec(mod, W * r + (W - 1 - K))) = Vec(mod, W * (r + 1))
    <2>1. K \in 1 .. W - 1 /\ 1 \in 1 .. K
      BY <1>1
    <2>2. WindowSteps(mod, Flow(K, 1), Vec(mod, W * r + (W - 1 - K))) = Vec(mod, W * r + (W - 1))
      BY <1>2, <2>1, RowVec
    <2>3. Vec(mod, W * r + W) = Vec(mod, W * r + (W - 1))
      BY <1>2, RowEnd
    <2>4. QED
      BY <1>3, <2>2, <2>3
  <1>6. RowFlow[1] = Flow(W - 1, K + 1) /\ RowFlow[2] = Flow(K, 1)
    BY WindowOf DEF K
  <1>7. QED
    BY <1>2, <1>4, <1>5, <1>6 DEF r, K

\* Where the windows begin.
LEMMA StageAt ==
  /\ Stage(0) = W /\ Stage(2 * (W - 2)) = LastRow
  /\ \A a \in 0 .. W - 3 :
        /\ 2 * a + 1 \in 1 .. 2 * (W - 2) /\ 2 * a + 2 \in 1 .. 2 * (W - 2)
        /\ Stage(2 * a) = W * (a + 1) /\ Stage(2 * a + 1) = W * (a + 1) + (W - 1 - LOW_LUT_K)
        /\ Stage(2 * a + 2) = W * (a + 2)
        /\ ((2 * a + 1 - 1) % 2) + 1 = 1 /\ ((2 * a + 2 - 1) % 2) + 1 = 2
  /\ \A j \in 1 .. 2 * (W - 2) : \E a \in 0 .. W - 3 : j = 2 * a + 1 \/ j = 2 * a + 2
  <1>1. W \in Nat /\ W > 1 /\ LOW_LUT_K \in 1 .. W - 2 /\ W - 2 \in Nat
    BY SolverNumbers
  <1>2. \A a \in Nat : /\ (2 * a) \div 2 = a /\ (2 * a) % 2 = 0
                       /\ (2 * a + 1) \div 2 = a /\ (2 * a + 1) % 2 = 1
                       /\ (2 * a + 2) \div 2 = a + 1 /\ (2 * a + 2) % 2 = 0
    OBVIOUS
  <1>3. \A a \in Nat : /\ Stage(2 * a) = W * (a + 1) + 0
                       /\ Stage(2 * a + 1) = W * (a + 1) + (W - 1 - LOW_LUT_K)
                       /\ Stage(2 * a + 2) = W * ((a + 1) + 1) + 0
    BY <1>2 DEF Stage
  <1>4. \A a \in Nat : W * (a + 1) \in Nat /\ W * ((a + 1) + 1) \in Nat /\ (a + 1) + 1 = a + 2
    BY <1>1
  <1>5. Stage(0) = W
    <2>1. Stage(2 * 0) = W * (0 + 1) + 0
      BY <1>3
    <2>2. QED
      BY <1>1, <2>1
  <1>6. Stage(2 * (W - 2)) = LastRow
    <2>1. Stage(2 * (W - 2)) = W * ((W - 2) + 1) + 0
      BY <1>1, <1>3
    <2>2. (W - 2) + 1 = W - 1 /\ W * (W - 1) \in Nat
      BY <1>1
    <2>3. QED
      BY <2>1, <2>2 DEF LastRow
  <1>7. \A a \in 0 .. W - 3 : 2 * a + 1 \in 1 .. 2 * (W - 2) /\ 2 * a + 2 \in 1 .. 2 * (W - 2)
    BY <1>1
  <1>8. \A a \in 0 .. W - 3 : ((2 * a + 1 - 1) % 2) + 1 = 1 /\ ((2 * a + 2 - 1) % 2) + 1 = 2
    OBVIOUS
  <1>9. \A a \in 0 .. W - 3 : /\ Stage(2 * a) = W * (a + 1) /\ Stage(2 * a + 1) = W * (a + 1) + (W - 1 - LOW_LUT_K)
                              /\ Stage(2 * a + 2) = W * (a + 2)
    BY <1>3, <1>4
  <1>10. ASSUME NEW j \in 1 .. 2 * (W - 2) PROVE \E a \in 0 .. W - 3 : j = 2 * a + 1 \/ j = 2 * a + 2
    <2> DEFINE a == (j - 1) \div 2
    <2>1. a \in 0 .. W - 3 /\ (j = 2 * a + 1 \/ j = 2 * a + 2)
      BY <1>1
    <2>2. QED
      BY <2>1
  <1>11. QED
    BY <1>5, <1>6, <1>7, <1>8, <1>9, <1>10

\* What the assumption says of one window of one residue.
LEMMA SolverWindow ==
  ASSUME NEW r \in 1 .. Residues, NEW j \in 1 .. 2 * (W - 2), NEW w, w = ((j - 1) % 2) + 1
  PROVE  /\ Ideal(r, j) = WindowSteps(Mods[r], RowFlow[w], Ideal(r, j - 1))
         /\ \A b \in BatchesOf(w) : Kernel(r, b, Slice(Ideal(r, j - 1), b))
                                    = WindowSteps(Mods[r], RowFlow[w], Slice(Ideal(r, j - 1), b))
  <1>1. j \in 1 .. Rows * Wins /\ Wins = 2
    BY SolverNumbers
  <1>2. QED
    BY <1>1, SolverAssumption DEF RowWindow

\* After each window the vector is the one of the vertex the window leads to.
LEMMA IdealVec ==
  ASSUME NEW r \in 1 .. Residues
  PROVE  \A j \in 0 .. 2 * (W - 2) : Ideal(r, j) = Vec(Mods[r], Stage(j))
  <1> DEFINE M == Mods[r]
             N == 2 * (W - 2)
             bad == {j \in 0 .. N : Ideal(r, j) # Vec(M, Stage(j))}
  <1>1. M \in Nat \ {0, 1} /\ N \in Nat
    BY SolverNumbers
  <1>2. Ideal(r, 0) = Vec(M, Stage(0))
    <2>1. Ideal(r, 0) = FirstCounts
      BY SolverAssumption
    <2>2. 1 % M = 1
      BY <1>1
    <2>3. Vec(M, W) = [c \in Ranks |-> IF c \in FirstRowCells THEN 1 % M ELSE 0]
      BY <1>1, FirstVec
    <2>4. QED
      BY <2>1, <2>2, <2>3, StageAt DEF FirstCounts
  <1>3. SUFFICES ASSUME bad # {} PROVE FALSE
    OBVIOUS
  <1>4. PICK j \in bad : \A i \in bad : j <= i
    <2>1. bad \in SUBSET Nat
      BY <1>1
    <2> HIDE DEF bad
    <2>2. QED
      BY <1>3, <2>1, NatMin
  <1>5. j \in 1 .. N /\ j - 1 \in 0 .. N /\ j - 1 \notin bad
    BY <1>1, <1>2, <1>4
  <1>6. Ideal(r, j - 1) = Vec(M, Stage(j - 1))
    BY <1>5
  <1>7. PICK a \in 0 .. W - 3 : j = 2 * a + 1 \/ j = 2 * a + 2
    BY <1>5, StageAt
  <1> HIDE DEF M
  <1>8. CASE j = 2 * a + 1
    <2>1. j - 1 = 2 * a /\ ((j - 1) % 2) + 1 = 1
      BY <1>7, <1>8, StageAt
    <2>2. Ideal(r, j) = WindowSteps(M, RowFlow[1], Ideal(r, j - 1))
      BY <1>5, <2>1, SolverWindow DEF M
    <2>3. Ideal(r, j - 1) = Vec(M, W * (a + 1))
      BY <1>6, <2>1, StageAt
    <2>4. Ideal(r, j) = Vec(M, W * (a + 1) + (W - 1 - LOW_LUT_K))
      BY <1>1, <2>2, <2>3, WindowVec
    <2>5. QED
      BY <1>4, <1>8, <2>4, StageAt
  <1>9. CASE j = 2 * a + 2
    <2>1. j - 1 = 2 * a + 1 /\ ((j - 1) % 2) + 1 = 2
      <3>1. ((2 * a + 2 - 1) % 2) + 1 = 2
        BY StageAt
      <3>2. QED
        BY <1>7, <1>9, <3>1
    <2>2. Ideal(r, j) = WindowSteps(M, RowFlow[2], Ideal(r, j - 1))
      BY <1>5, <2>1, SolverWindow DEF M
    <2>3. Ideal(r, j - 1) = Vec(M, W * (a + 1) + (W - 1 - LOW_LUT_K))
      BY <1>6, <2>1, StageAt
    <2>4. Ideal(r, j) = Vec(M, W * (a + 2))
      BY <1>1, <2>2, <2>3, WindowVec
    <2>5. QED
      BY <1>4, <1>9, <2>4, StageAt
  <1>10. QED
    BY <1>7, <1>8, <1>9

\* The vertex after a window is one of the grid.
LEMMA StageVertex == \A j \in 0 .. 2 * (W - 2) : Stage(j) \in V
  <1>1. W \in Nat /\ W > 1 /\ LOW_LUT_K \in 1 .. W - 2 /\ W - 2 \in Nat
    BY SolverNumbers
  <1>2. ASSUME NEW a \in 1 .. W - 1, NEW e \in 0 .. W - 1 PROVE W * a + e \in V
    <2>1. W * a <= W * (W - 1) /\ W * a \in Nat
      <3>1. W \in Nat \ {0} /\ a \in Int /\ W - 1 \in Int /\ (a < W - 1 \/ a = W - 1)
        BY <1>1
      <3>2. a < W - 1 => W * a + W <= W * (W - 1)
        BY <3>1, MulMono
      <3>3. W * a \in Nat /\ W * (W - 1) \in Nat
        BY <1>1
      <3>4. QED
        BY <1>1, <3>1, <3>2, <3>3
    <2>2. W * (W - 1) = W * W - W /\ W * W \in Nat
      BY <1>1
    <2>3. QED
      BY <1>1, <2>1, <2>2 DEF V
  <1>3. ASSUME NEW j \in 1 .. 2 * (W - 2) PROVE Stage(j) \in V
    <2>1. PICK a \in 0 .. W - 3 : j = 2 * a + 1 \/ j = 2 * a + 2
      BY StageAt
    <2>2. CASE j = 2 * a + 1
      <3>1. a + 1 \in 1 .. W - 1 /\ W - 1 - LOW_LUT_K \in 0 .. W - 1
        BY <1>1
      <3>2. Stage(j) = W * (a + 1) + (W - 1 - LOW_LUT_K)
        BY <2>2, StageAt
      <3>3. QED
        BY <1>2, <3>1, <3>2
    <2>3. CASE j = 2 * a + 2
      <3>1. a + 2 \in 1 .. W - 1 /\ 0 \in 0 .. W - 1 /\ W * (a + 2) + 0 = W * (a + 2)
        BY <1>1
      <3>2. Stage(j) = W * (a + 2)
        BY <2>3, StageAt
      <3>3. QED
        BY <1>2, <3>1, <3>2
    <2>4. QED
      BY <2>1, <2>2, <2>3
  <1>4. Stage(0) \in V
    <2>1. 1 \in 1 .. W - 1 /\ 0 \in 0 .. W - 1 /\ W * 1 + 0 = W
      BY <1>1
    <2>2. QED
      BY <1>2, <2>1, StageAt
  <1>5. QED
    BY <1>1, <1>3, <1>4

\* The kernels are right: worked on alone, a batch becomes what the whole window makes of it.
LEMMA KernelsCorrect ==
  ASSUME NEW r \in 1 .. Residues
  PROVE  KernelCorrect(r)
  <1> DEFINE M == Mods[r]
  <1>1. M \in Nat \ {0, 1} /\ Wins = 2 /\ Rows * Wins = 2 * (W - 2) /\ Cells = Ranks
    BY SolverNumbers
  <1>2. FirstRow(r) = Ideal(r, 0)
    BY SolverAssumption
  <1>3. \A j \in 0 .. 2 * (W - 2) : Ideal(r, j) \in [Ranks -> Nat]
    <2>1. ASSUME NEW j \in 0 .. 2 * (W - 2) PROVE Ideal(r, j) \in [Ranks -> Nat]
      <3> DEFINE x == Stage(j)
      <3>1. x \in V /\ Ideal(r, j) = Vec(M, x)
        BY IdealVec, StageVertex
      <3> HIDE DEF x, M
      <3>2. M \in Nat \ {0}
        BY <1>1
      <3>3. Vec(M, x) \in [Ranks -> Nat]
        BY <3>1, <3>2, VecType
      <3>4. QED
        BY <3>1, <3>3
    <2>2. QED
      BY <2>1
  <1>4. ASSUME NEW j \in 1 .. 2 * (W - 2), NEW b \in BatchesOf(((j - 1) % 2) + 1)
        PROVE  Kernel(r, b, Slice(Ideal(r, j - 1), b)) = Slice(Ideal(r, j), b)
    <2> DEFINE w == ((j - 1) % 2) + 1
               v == Ideal(r, j - 1)
    <2>1. w \in 1 .. 2 /\ j - 1 \in 0 .. 2 * (W - 2)
      BY SolverNumbers
    <2>2. DOMAIN v = Ranks
      BY <1>3, <2>1
    <2>3. Ideal(r, j) = WindowSteps(M, RowFlow[w], v)
          /\ Kernel(r, b, Slice(v, b)) = WindowSteps(M, RowFlow[w], Slice(v, b))
      BY <1>4, SolverWindow
    <2>4. b \in ScheduleBatches /\ b[1] = w /\ CellsOf[b] = ScheduleCells[b]
      BY <1>4, SolverNumbers DEF BatchesOf, ScheduleWin
    <2>5. RowFlow[w] = Flow(Hi(b[1]), Lo(b[1]))
      BY <2>1, <2>4, WindowOf
    <2>6. Slice(v, b) = [c \in ScheduleCells[b] |-> v[c]]
      BY <2>4 DEF Slice
    <2>7. Slice(Ideal(r, j), b) = [c \in ScheduleCells[b] |-> WindowSteps(M, RowFlow[w], v)[c]]
      BY <2>3, <2>4 DEF Slice
    <2> HIDE DEF v, w, M
    <2>8. WindowSteps(M, Flow(Hi(b[1]), Lo(b[1])), [c \in ScheduleCells[b] |-> v[c]])
          = [c \in ScheduleCells[b] |-> WindowSteps(M, Flow(Hi(b[1]), Lo(b[1])), v)[c]]
      <3>1. \A x \in 1 .. 2 : Fits(Groups(x))
        BY SolverNumbers
      <3>2. b \in ScheduleBatches
        BY <2>4
      <3> DEFINE flow == Flow(Hi(b[1]), Lo(b[1]))
                 Own(u) == [c \in ScheduleCells[b] |-> u[c]]
      <3>3. \A m, u : DOMAIN u = Ranks => WindowSteps(m, flow, Own(u)) = Own(WindowSteps(m, flow, u))
        BY <3>1, <3>2, ScheduleLocal, Zenon
      <3>4. WindowSteps(M, flow, Own(v)) = Own(WindowSteps(M, flow, v))
        <4> HIDE DEF flow, Own
        <4>1. QED
          BY <2>2, <3>3
      <3>5. QED
        BY <3>4
    <2>9. Kernel(r, b, Slice(v, b)) = Slice(Ideal(r, j), b)
      BY <2>3, <2>5, <2>6, <2>7, <2>8
    <2>10. QED
      BY <2>9 DEF v
  <1>5. QED
    BY <1>1, <1>2, <1>3, <1>4 DEF KernelCorrect

\* What is read off the last vector is the number of paths.
LEMMA AnswersCorrect ==
  ASSUME NEW r \in 1 .. Residues
  PROVE  AnswerCorrect(r)
  <1> DEFINE M == Mods[r]
  <1>1. M \in Nat \ {0, 1} /\ Rows * Wins = 2 * (W - 2) /\ 2 * (W - 2) \in 0 .. 2 * (W - 2)
    BY SolverNumbers
  <1>2. Ideal(r, Rows * Wins) = Vec(M, LastRow)
    BY <1>1, IdealVec, StageAt
  <1>3. Final(r, Ideal(r, Rows * Wins)) = SumFunctionOnSet(Vec(M, LastRow), FirstRowCells) % M
    BY <1>2, SolverAssumption DEF LastRowSum
  <1>4. SumFunctionOnSet(Vec(M, LastRow), FirstRowCells) % M = PathTotal % M
    BY <1>1, LastSum
  <1>5. PathTotal = PathCount(W, W) /\ PathTotal \in Nat
    BY TotalIsPaths, PathCountRight, WAssumption, FS_CardinalityType
  <1>6. Answer(r) = PathCount(W, W) % M
    BY SolverAssumption
  <1>7. PathTotal % M \in Nat
    BY <1>1, <1>5
  <1>8. QED
    BY <1>3, <1>4, <1>5, <1>6, <1>7 DEF AnswerCorrect

(***************************************************************************)
(* What the scheduler asks of the kernels holds for those of Grid-FP: a    *)
(* batch worked on alone becomes what the windows make of the whole        *)
(* vector, and the last vector adds up to the number of paths.             *)
(***************************************************************************)
THEOREM SolverCorrect == Correct
  BY KernelsCorrect, AnswersCorrect DEF Correct

\* What always holds of the solver.
LEMMA SolverInvariant == Spec => []PInv
  BY SchedulerRight, SolverCorrect

(***************************************************************************)
(* Every variable of the group-batch solver keeps its type in every mode,  *)
(* and a GPU that has gathered a batch has a value for each of its slots.  *)
(***************************************************************************)
THEOREM SchedulerTypes == Spec => []TypeOK
  <1>1. PInv => TypeOK
    BY DEF PInv, IInv
  <1>2. QED
    BY <1>1, SolverInvariant, PTL

(***************************************************************************)
(* In any mode, with any number of GPUs and any interleaving, every slot   *)
(* of the vector is one window further once its batch is executed and not  *)
(* before, and the vector is the right one when a window is over.          *)
(***************************************************************************)
THEOREM SlotsAlwaysRight == Spec => [](TypeOK /\ SlotsRight)
  <1>1. PInv => TypeOK /\ SlotsRight
    BY DEF PInv, IInv
  <1>2. QED
    BY <1>1, SolverInvariant, PTL

(***************************************************************************)
(* No graph is ever launched that is bound to an arena its GPU has         *)
(* released, to kernels the modulus does not allow or to metadata that was *)
(* freed.                                                                  *)
(***************************************************************************)
THEOREM GraphsAlwaysCurrent == Spec => []GraphsCurrent
  <1>1. PInv => GraphsCurrent
    BY DEF PInv, IInv
  <1>2. QED
    BY <1>1, SolverInvariant, PTL

\* A reclaiming run keeps what a batch needs on one GPU, its owner.
THEOREM OneHolderAlways == Spec => []OneHolder
  <1>1. PInv => OneHolder
    BY DEF PInv, IInv
  <1>2. QED
    BY <1>1, SolverInvariant, PTL

(***************************************************************************)
(* The throw of the sticky branch is never reached: no window ends with a  *)
(* batch of it not executed.                                               *)
(***************************************************************************)
THEOREM NothingUnexecuted == Spec => [](stage # "failed")
  <1>1. PInv => stage # "failed"
    BY DEF PInv, IInv, Claims
  <1>2. QED
    BY <1>1, SolverInvariant, PTL

(***************************************************************************)
(* Groups are closed in every window, the kernels are right on each batch, *)
(* and the last vector adds up to the answer: on every grid.               *)
(***************************************************************************)
THEOREM GroupsAlwaysClosed == Spec => []GroupsClosed
  <1>1. \A p_hi \in 1 .. W - 1 : \A p_lo \in 1 .. p_hi :
           \A occ \in SUBSET window_candidates(p_hi, p_lo) : Closed(p_hi, p_lo, occ)
    BY GroupsAreClosed
  <1>2. GroupsClosed
    BY <1>1, SolverCorrect DEF GroupsClosed, Correct
  <1>3. QED
    BY <1>2, PTL

(***************************************************************************)
(* The residues come out in order, each the number of paths, as the        *)
(* recursion gives it, modulo its modulus.                                 *)
(***************************************************************************)
THEOREM ResiduesRight == Spec => []PrintedRight
  <1>1. PInv => PrintedRight
    BY DEF PInv
  <1>2. QED
    BY <1>1, SolverInvariant, PTL

(***************************************************************************)
(* What the group-batch solver prints for a modulus is the number of paths *)
(* of the grid from corner to corner that visit no vertex twice, modulo    *)
(* that modulus: for every grid, plan, mode and interleaving.              *)
(***************************************************************************)
THEOREM ResiduesArePaths ==
  Spec => [](\A r \in DOMAIN printed : printed[r] = Cardinality(CornerPaths(W, W)) % Mods[r])
  <1> DEFINE Paths == \A r \in DOMAIN printed : printed[r] = Cardinality(CornerPaths(W, W)) % Mods[r]
  <1>1. PInv => Paths
    <2>1. SUFFICES ASSUME PInv, NEW r \in DOMAIN printed
                   PROVE  printed[r] = Cardinality(CornerPaths(W, W)) % Mods[r]
      OBVIOUS
    <2>2. printed \in Seq(Nat) /\ Len(printed) = ri - 1 /\ ri \in 1 .. Residues + 1 /\ Residues \in Nat
      BY <2>1, BatchAssumption DEF PInv, IInv, TypeOK, Printing
    <2>3. r \in 1 .. Residues
      BY <2>2
    <2>4. printed[r] = Answer(r)
      BY <2>1 DEF PInv, PrintedRight
    <2>5. Answer(r) = PathCount(W, W) % Mods[r]
      BY <2>3, SolverAssumption
    <2>6. PathCount(W, W) = Cardinality(CornerPaths(W, W))
      BY PathCountRight, WAssumption
    <2>7. QED
      BY <2>4, <2>5, <2>6
  <1>2. QED
    BY <1>1, SolverInvariant, PTL
=============================================================================
