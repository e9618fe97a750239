--------------------------- MODULE WorkerPoolProofs ---------------------------
(***************************************************************************)
(* Proofs about the worker pools and the row loop of the hybrid solver,    *)
(* for any number of pools, workers, jobs and rows and any schedule that   *)
(* gives out each job once.                                                *)
(***************************************************************************)
EXTENDS HybridRows, FiniteSetTheorems, TLAPS

\* The workers that are still to take part in the run, or to finish it.
Busy(p) == {w \in WorkersOf(p) : \/ wpc[w] \in {"loop", "work", "finish"}
                                 \/ wpc[w] = "idle" /\ seen[w] # generation[p]}

(***************************************************************************)
(* While the pool is not being stopped, pending counts exactly the workers *)
(* that are still to finish the run, and the run is in flight as long as   *)
(* there are any. No generation begins before all workers are created.     *)
(***************************************************************************)
Counted(p) ==
    /\ ~stopping[p] =>
          /\ pending[p] = Cardinality(Busy(p))
          /\ inFlight[p] <=> Busy(p) # {}
          /\ \A w \in WorkersOf(p) : wpc[w] # "gone"
          /\ \A w \in WorkersOf(p) : wpc[w] \in {"loop", "work", "finish"} => seen[w] = generation[p]
    /\ ~stopping[p] /\ ~Started(p) =>
          /\ generation[p] = 0
          /\ \A w \in WorkersOf(p) : wpc[w] \in {"none", "idle"} /\ (wpc[w] = "idle" => seen[w] = 0)
    /\ stopping[p] =>
          /\ ~inFlight[p]
          /\ \A w \in WorkersOf(p) : wpc[w] \in {"none", "idle", "gone"}

\* Where the main thread can be while a pool is in which state.
Phase ==
    /\ \A p \in Pools : \/ mpc = "begin" /\ mpool = p /\ Contents[mlist] # {}
                        \/ Started(p)
                        \/ \A w \in WorkersOf(p) : wpc[w] = "none"
    /\ \A p \in Pools : stopping[p] =>
          \/ mpc \in {"rouse", "join"} /\ mpool = p
          \/ \A w \in WorkersOf(p) : wpc[w] = "none"
    /\ mpc \in {"drain", "begin", "notify", "shut", "stop"} => ~stopping[mpool]
    /\ mpc \in {"shut", "stop"} => Started(mpool)
    /\ mpc = "stop" => Quiet(mpool)
    /\ mpc = "begin" /\ mode[mpool] # "shared" => source[mpool] = mlist

(***************************************************************************)
(* The jobs of a run: the schedule is that of the vector, what a queue has *)
(* given out is done or at work and nothing else is, no job is with two    *)
(* workers, and a worker that is through leaves its queue empty.           *)
(***************************************************************************)
IsGiven(p, j) == \E q \in QueuesOf(p) : \E i \in 1 .. next[q] : lists[q][i] = j

Scheduled(p) ==
    /\ mode[p] # "shared" /\ source[p] # None =>
          \A q \in QueuesOf(p) : lists[q] = Plan[source[p]][q]
    /\ inFlight[p] =>
          /\ run[p] \in Lists
          /\ \A q \in QueuesOf(p) : lists[q] = Plan[run[p]][q] /\ next[q] <= Len(lists[q])
    /\ \A w \in WorkersOf(p) : wpc[w] = "work" <=> job[w] # None
    /\ inFlight[p] =>
          /\ \A w \in WorkersOf(p) : job[w] # None => IsGiven(p, job[w]) /\ job[w] \notin done[p]
          /\ \A v, w \in WorkersOf(p) : job[v] # None /\ job[v] = job[w] => v = w
          /\ \A j \in done[p] : IsGiven(p, j)
          /\ \A j \in Jobs : IsGiven(p, j) => j \in done[p] \/ \E w \in WorkersOf(p) : job[w] = j
          /\ \A w \in WorkersOf(p) \ Busy(p) : next[QueueOf(w)] = Len(lists[QueueOf(w)])
          /\ \A w \in WorkersOf(p) : wpc[w] = "finish" => next[QueueOf(w)] = Len(lists[QueueOf(w)])
    /\ ~inFlight[p] /\ run[p] # None => done[p] = Contents[run[p]]

PoolInv == TypeOK /\ Phase /\ \A p \in Pools : Counted(p) /\ Scheduled(p)

-----------------------------------------------------------------------------
(***************************************************************************)
(* The row loop: which pool can be at work where, and how far each cell is.*)
(***************************************************************************)
HighLive == /\ \/ hpc = "gpu" /\ Overlapped
               \/ hpc \in {"high_wait", "low", "low_wait", "row"} /\ Selected # {}
            /\ ~(mpool = High /\ mpc \in {"drain", "begin"})
LowLive == hpc \in {"low_wait", "row"} /\ ~(mpool = Low /\ mpc \in {"drain", "begin"})

HighDone == IF hpc \notin {"gpu", "high_wait", "low", "low_wait", "row"} THEN {}
            ELSE gpuDone \cup (IF HighLive THEN done[High] ELSE {})
LowDone == IF LowLive THEN done[Low] ELSE {}

LoopPhase ==
    /\ mpc \in {"drain", "begin", "notify"} =>
          \/ /\ mpool = High /\ mlist = HighList /\ Selected # {}
             /\ (hpc = "gpu" /\ Overlapped) \/ hpc = "high_wait"
          \/ mpool = Low /\ mlist = LowList /\ hpc = "low_wait"
    /\ mpc \in {"drain", "begin"} => ~inFlight[mpool]
    /\ mpc = "wait" => (mpool = High /\ hpc = "low") \/ (mpool = Low /\ hpc = "row")
    /\ mpc \in {"shut", "stop", "rouse", "join"} =>
          (mpool = High /\ hpc = "dtor_low") \/ (mpool = Low /\ hpc = "end")
    /\ mpc # "exited"
    /\ inFlight[High] => /\ HighLive
                         /\ hpc \in {"gpu", "high_wait"} \/ (hpc = "low" /\ mpc = "wait")
    /\ inFlight[Low] => /\ LowLive
                        /\ hpc = "low_wait" \/ (hpc = "row" /\ mpc = "wait")
    /\ HighLive => run[High] = HighList
    /\ LowLive => run[Low] = LowList
    /\ mode[High] = "ranked"
    /\ gpuJob # None => hpc = "gpu" /\ gpuJob \notin gpuDone
    /\ hpc \in {"high_wait", "low", "low_wait", "row"} => gpuDone = GpuGroups
    /\ IF hpc \in {"high", "gpu", "high_wait", "low", "low_wait", "row"} THEN row < Rows
       ELSE row = Rows
    /\ answer # None \/ freed => hpc \in {"free", "dtor_high", "dtor_low", "end"}
    /\ answer # None => answer = 2 * Rows

Levels ==
    \A g \in HighGroups, k \in LowGroups :
        level[<<g, k>>] = 2 * row + (IF g \in HighDone THEN 1 ELSE 0)
                                  + (IF k \in LowDone THEN 1 ELSE 0)

LoopInv == HybridTypeOK /\ PoolInv /\ LoopPhase /\ Levels

-----------------------------------------------------------------------------
LEMMA QueueFacts ==
    ASSUME TypeOK
    PROVE  /\ \A p, r \in Pools : p # r => QueuesOf(p) \cap QueuesOf(r) = {}
           /\ \A p \in Pools : QueuesOf(p) \subseteq Queues
           /\ \A p \in Pools : \A w \in WorkersOf(p) : QueueOf(w) \in QueuesOf(p)
           /\ \A p \in Pools : \A q \in QueuesOf(p) : \E w \in WorkersOf(p) : QueueOf(w) = q
           /\ \A p \in Pools, l \in Lists : GivesOutOnce(l, QueuesOf(p))
<1>1. \A p \in Pools : WorkersOf(p) \subseteq Workers /\ \A w \in WorkersOf(p) : PoolOf[w] = p
  BY DEF WorkersOf
<1>2. \A p, r \in Pools : p # r => QueuesOf(p) \cap QueuesOf(r) = {}
  BY <1>1, PoolAssumption DEF QueuesOf, QueuesIn
<1>3. \A p \in Pools : QueuesOf(p) \subseteq Queues
  BY <1>1 DEF QueuesOf, QueuesIn, Queues
<1>4. \A p \in Pools : \A w \in WorkersOf(p) : QueueOf(w) \in QueuesOf(p)
  BY <1>1 DEF QueuesOf, QueuesIn, QueueOf
<1>5. \A p \in Pools : \A q \in QueuesOf(p) : \E w \in WorkersOf(p) : QueueOf(w) = q
  BY <1>1, PoolAssumption DEF QueuesOf, QueuesIn, QueueOf
<1>6. \A p \in Pools, l \in Lists : GivesOutOnce(l, QueuesOf(p))
  BY PoolAssumption DEF TypeOK, QueuesOf
<1>7. QED
  BY <1>2, <1>3, <1>4, <1>5, <1>6

LEMMA BusyFinite == \A p : IsFiniteSet(Busy(p)) /\ IsFiniteSet(WorkersOf(p))
  BY PoolAssumption, FS_Subset DEF Busy, WorkersOf

\* A step that leaves the counters and the workers of a pool alone.
LEMMA KeepCounted ==
    ASSUME NEW p \in Pools, Counted(p),
           stopping'[p] = stopping[p], pending'[p] = pending[p], inFlight'[p] = inFlight[p],
           generation'[p] = generation[p],
           \A w \in WorkersOf(p) : wpc'[w] = wpc[w] /\ seen'[w] = seen[w]
    PROVE  Counted(p)' /\ Busy(p)' = Busy(p) /\ Started(p)' = Started(p)
<1>1. Busy(p)' = Busy(p)
  BY DEF Busy
<1>2. (\A w \in WorkersOf(p) : wpc'[w] # "none") <=> (\A w \in WorkersOf(p) : wpc[w] # "none")
  OBVIOUS
<1>3. Started(p)' <=> Started(p)
  BY <1>2 DEF Started
<1>4. Counted(p)'
  BY <1>1, <1>3 DEF Counted
<1>5. Started(p)' = Started(p)
  BY <1>2 DEF Started
<1>6. QED
  BY <1>1, <1>4, <1>5

\* A step that leaves the schedule and the jobs of a pool alone.
LEMMA KeepScheduled ==
    ASSUME NEW p \in Pools, Scheduled(p), TypeOK,
           mode' = mode, source'[p] = source[p], run'[p] = run[p], inFlight'[p] = inFlight[p],
           done'[p] = done[p], generation'[p] = generation[p],
           \A q \in QueuesOf(p) : lists'[q] = lists[q] /\ next'[q] = next[q],
           \A w \in WorkersOf(p) : wpc'[w] = wpc[w] /\ seen'[w] = seen[w] /\ job'[w] = job[w]
    PROVE  Scheduled(p)'
<1>1. Busy(p)' = Busy(p) /\ QueuesOf(p)' = QueuesOf(p)
  BY DEF Busy, QueuesOf
<1>2. \A w \in WorkersOf(p) : QueueOf(w)' = QueueOf(w) /\ QueueOf(w) \in QueuesOf(p)
  BY QueueFacts DEF QueueOf
<1>3. \A j : IsGiven(p, j)' <=> IsGiven(p, j)
  BY <1>1 DEF IsGiven
<1>4. /\ mode'[p] # "shared" /\ source'[p] # None =>
            \A q \in QueuesOf(p) : lists'[q] = Plan[source'[p]][q]
      /\ inFlight'[p] =>
            /\ run'[p] \in Lists
            /\ \A q \in QueuesOf(p) : lists'[q] = Plan[run'[p]][q] /\ next'[q] <= Len(lists'[q])
      /\ \A w \in WorkersOf(p) : wpc'[w] = "work" <=> job'[w] # None
      /\ ~inFlight'[p] /\ run'[p] # None => done'[p] = Contents[run'[p]]
  BY DEF Scheduled
<1>5. ASSUME inFlight'[p]
      PROVE  /\ \A w \in WorkersOf(p) : job'[w] # None => IsGiven(p, job[w]) /\ job'[w] \notin done'[p]
             /\ \A v, w \in WorkersOf(p) : job'[v] # None /\ job'[v] = job'[w] => v = w
             /\ \A j \in done'[p] : IsGiven(p, j)
             /\ \A j \in Jobs : IsGiven(p, j) => j \in done'[p] \/ \E w \in WorkersOf(p) : job'[w] = j
             /\ \A w \in WorkersOf(p) \ Busy(p) : next'[QueueOf(w)] = Len(lists'[QueueOf(w)])
             /\ \A w \in WorkersOf(p) : wpc'[w] = "finish" => next'[QueueOf(w)] = Len(lists'[QueueOf(w)])
  BY <1>2, <1>5 DEF Scheduled
<1>6. QED
  BY <1>1, <1>2, <1>3, <1>4, <1>5 DEF Scheduled

LEMMA InitPool == PoolInit => PoolInv
<1> SUFFICES ASSUME PoolInit PROVE PoolInv
  OBVIOUS
<1>1. TypeOK
  BY DEF PoolInit, TypeOK
<1>2. Phase
  BY DEF PoolInit, Phase, WorkersOf
<1>3. ASSUME NEW p \in Pools PROVE Counted(p) /\ Scheduled(p)
  <2>1. Busy(p) = {} /\ WorkersOf(p) \subseteq Workers
    BY DEF Busy, PoolInit, WorkersOf
  <2>2. Counted(p)
    BY <2>1, FS_EmptySet DEF Counted, PoolInit
  <2>3. Scheduled(p)
    BY <2>1 DEF Scheduled, PoolInit
  <2>4. QED
    BY <2>2, <2>3
<1>4. QED
  BY <1>1, <1>2, <1>3 DEF PoolInv

-----------------------------------------------------------------------------
LEMMA MainKeeps ==
    ASSUME PoolInv, UNCHANGED <<schedule, control, workers>>
    PROVE  \A p \in Pools : Counted(p)' /\ Scheduled(p)' /\ Started(p)' = Started(p)
  BY KeepCounted, KeepScheduled DEF PoolInv, schedule, control, workers

LEMMA StartRunPool ==
    ASSUME PoolInv, NEW p \in Pools, NEW l \in Lists, StartRun(p, l)
    PROVE  PoolInv'
<1>1. UNCHANGED <<schedule, control, workers>>
  BY DEF StartRun
<1>2. TypeOK'
  BY DEF StartRun, PoolInv, TypeOK, schedule, control, workers
<1>3. Phase'
  BY DEF StartRun, PoolInv, Phase, schedule, control, workers, Started, Quiet
<1>4. QED
  BY <1>1, <1>2, <1>3, MainKeeps DEF PoolInv

LEMMA NotifyPool ==
    ASSUME PoolInv, Notify
    PROVE  PoolInv'
<1>1. UNCHANGED <<schedule, control, workers>>
  BY DEF Notify
<1>2. TypeOK'
  BY DEF Notify, PoolInv, TypeOK, schedule, control, workers
<1>3. Phase'
  BY DEF Notify, PoolInv, Phase, schedule, control, workers, Started, Quiet
<1>4. QED
  BY <1>1, <1>2, <1>3, MainKeeps DEF PoolInv

LEMMA WaitRunPool ==
    ASSUME PoolInv, NEW p \in Pools, WaitRun(p)
    PROVE  PoolInv'
<1>1. UNCHANGED <<schedule, control, workers>>
  BY DEF WaitRun
<1>2. TypeOK'
  BY DEF WaitRun, PoolInv, TypeOK, schedule, control, workers
<1>3. Phase'
  BY DEF WaitRun, PoolInv, Phase, schedule, control, workers, Started, Quiet
<1>4. QED
  BY <1>1, <1>2, <1>3, MainKeeps DEF PoolInv

LEMMA ShutdownPool ==
    ASSUME PoolInv, NEW p \in Pools, Shutdown(p)
    PROVE  PoolInv'
<1>1. UNCHANGED <<schedule, control, workers>>
  BY DEF Shutdown
<1>2. TypeOK'
  BY DEF Shutdown, PoolInv, TypeOK, schedule, control, workers
<1>3. Phase'
  <2>1. mpc = "out" /\ mpool' = p /\ mpc' \in {"out", "shut"}
    BY DEF Shutdown
  <2>2. mpc' = "shut" => Started(p) /\ ~stopping[p]
    BY <2>1 DEF Shutdown, PoolInv, Phase
  <2>3. QED
    BY <2>1, <2>2 DEF Shutdown, PoolInv, Phase, schedule, control, workers, Started
<1>4. QED
  BY <1>1, <1>2, <1>3, MainKeeps DEF PoolInv

LEMMA AwaitPool ==
    ASSUME PoolInv, Await
    PROVE  PoolInv'
<1>1. UNCHANGED <<schedule, control, workers>>
  BY DEF Await
<1>2. TypeOK'
  BY DEF Await, PoolInv, TypeOK, schedule, control, workers
<1>3. Phase'
  BY DEF Await, PoolInv, Phase, schedule, control, workers, Started, Quiet
<1>4. QED
  BY <1>1, <1>2, <1>3, MainKeeps DEF PoolInv

LEMMA SpuriousPool ==
    ASSUME PoolInv, NEW t \in Workers \cup {Main}, Spurious(t)
    PROVE  PoolInv'
<1>1. UNCHANGED <<schedule, control, workers>>
  BY DEF Spurious
<1>2. TypeOK'
  BY DEF Spurious, PoolInv, TypeOK, schedule, control, workers, main
<1>3. Phase'
  BY DEF Spurious, PoolInv, Phase, schedule, control, workers, main, Started, Quiet
<1>4. QED
  BY <1>1, <1>2, <1>3, MainKeeps DEF PoolInv

\* A pool's lists filled from a vector; the other pools keep theirs.
LEMMA Filled ==
    ASSUME TypeOK, NEW p \in Pools, NEW l \in Lists
    PROVE  /\ Fill(p, l) \in [Queues -> Seq(Jobs)]
           /\ \A q \in QueuesOf(p) : Fill(p, l)[q] = Plan[l][q]
           /\ \A r \in Pools : r # p => \A q \in QueuesOf(r) : Fill(p, l)[q] = lists[q]
<1>1. Plan[l] \in [Queues -> Seq(Jobs)] /\ lists \in [Queues -> Seq(Jobs)]
  BY PoolAssumption DEF TypeOK
<1>2. \A r \in Pools : QueuesOf(r) \subseteq Queues
  BY QueueFacts
<1>3. \A r \in Pools : r # p => \A q \in QueuesOf(r) : q \notin QueuesOf(p)
  BY QueueFacts
<1>4. QED
  BY <1>1, <1>2, <1>3 DEF Fill

LEMMA RebuildPool ==
    ASSUME PoolInv, Rebuild
    PROVE  PoolInv'
<1>1. TypeOK /\ mpool \in Pools /\ mlist \in Lists
  BY DEF PoolInv, TypeOK
<1>2. CASE ~Quiet(mpool)
  <2>1. UNCHANGED <<schedule, control, workers, mpc, mpool, mlist>>
    BY <1>2 DEF Rebuild, schedule
  <2>2. TypeOK'
    BY <1>2, <2>1 DEF Rebuild, PoolInv, TypeOK, schedule, control, workers
  <2>3. Phase'
    BY <2>1 DEF PoolInv, Phase, schedule, control, workers, Started, Quiet
  <2>4. QED
    BY <2>1, <2>2, <2>3, MainKeeps DEF PoolInv
<1>3. CASE Quiet(mpool)
  <2>1. /\ source' = [source EXCEPT ![mpool] = mlist] /\ lists' = Fill(mpool, mlist)
        /\ mpc = "drain" /\ mpc' = "begin"
        /\ UNCHANGED <<asleep, mode, next, control, workers, mpool, mlist>>
    BY <1>3 DEF Rebuild
  <2>2. TypeOK'
    <3>1. lists' \in [Queues -> Seq(Jobs)]
      BY <1>1, <2>1, Filled
    <3>2. source' \in [Pools -> Lists \cup {None}]
      BY <1>1, <2>1 DEF TypeOK
    <3>3. QED
      BY <1>1, <2>1, <3>1, <3>2 DEF TypeOK, control, workers
  <2>3. Phase'
    BY <1>1, <2>1 DEF PoolInv, TypeOK, Phase, control, workers, Started
  <2>4. ASSUME NEW p \in Pools PROVE Counted(p)' /\ Scheduled(p)'
    <3>1. Counted(p)'
      BY <2>1, KeepCounted DEF PoolInv, control, workers
    <3>2. CASE p # mpool
      <4>1. source'[p] = source[p] /\ \A q \in QueuesOf(p) : lists'[q] = lists[q]
        BY <1>1, <2>1, <3>2, Filled DEF TypeOK
      <4>2. Scheduled(p)'
        BY <1>1, <2>1, <4>1, KeepScheduled DEF PoolInv, control, workers
      <4>3. QED
        BY <3>1, <4>2
    <3>3. CASE p = mpool
      <4>1. ~inFlight'[p] /\ source'[p] = mlist
        BY <1>1, <1>3, <2>1, <3>3 DEF Quiet, control, TypeOK
      <4>2. \A q \in QueuesOf(p)' : lists'[q] = Plan[mlist][q]
        BY <1>1, <2>1, <3>3, Filled DEF QueuesOf
      <4>3. QED
        BY <2>1, <3>1, <4>1, <4>2 DEF PoolInv, Scheduled, control, workers
    <3>4. QED
      BY <3>2, <3>3
  <2>5. QED
    BY <2>2, <2>3, <2>4 DEF PoolInv
<1>4. QED
  BY <1>2, <1>3

LEMMA CreateWorkerPool ==
    ASSUME PoolInv, NEW w \in Workers, CreateWorker(w)
    PROVE  PoolInv'
<1> DEFINE p == PoolOf[w]
<1>1. p \in Pools /\ w \in WorkersOf(p) /\ p = mpool /\ wpc[w] = "none"
  BY PoolAssumption DEF CreateWorker, WorkersOf
<1>2. /\ mpc = "begin" /\ Contents[mlist] # {}
      /\ \A v \in Workers : wpc'[v] = (IF v = w THEN "idle" ELSE wpc[v])
      /\ \A v \in Workers : seen'[v] = (IF v = w THEN 0 ELSE seen[v])
      /\ UNCHANGED <<schedule, control, job, done, asleep, main>>
  BY DEF CreateWorker, PoolInv, TypeOK
<1>3. TypeOK'
  <2>1. wpc' \in [Workers -> {"none", "idle", "loop", "work", "finish", "gone"}]
        /\ seen' \in [Workers -> Nat]
    BY DEF CreateWorker, PoolInv, TypeOK
  <2>2. QED
    BY <1>2, <2>1 DEF PoolInv, TypeOK, schedule, control, main
<1>4. ~stopping[p]
  BY <1>1, <1>2 DEF PoolInv, Phase
<1>5. /\ generation[p] = 0
      /\ \A v \in WorkersOf(p) : wpc[v] \in {"none", "idle"} /\ (wpc[v] = "idle" => seen[v] = 0)
  BY <1>1, <1>4 DEF PoolInv, Counted, Started
<1>6. Busy(p) = {} /\ Busy(p)' = {}
  BY <1>2, <1>5 DEF Busy, WorkersOf, control
<1>7. ~inFlight[p] /\ pending[p] = 0
  BY <1>1, <1>4, <1>6, FS_EmptySet DEF PoolInv, Counted
<1>8. ASSUME NEW r \in Pools PROVE Counted(r)' /\ Scheduled(r)'
  <2>1. CASE r # p
    <3>1. \A v \in WorkersOf(r) : v # w /\ v \in Workers
      BY <2>1 DEF WorkersOf
    <3>2. \A v \in WorkersOf(r) : wpc'[v] = wpc[v] /\ seen'[v] = seen[v] /\ job'[v] = job[v]
      BY <1>2, <3>1
    <3>3. Counted(r)'
      BY <1>2, <3>2, KeepCounted DEF PoolInv, control
    <3>4. Scheduled(r)'
      BY <1>2, <3>2, KeepScheduled DEF PoolInv, schedule, control
    <3>5. QED
      BY <3>3, <3>4
  <2>2. CASE r = p
    <3>1. \A v \in WorkersOf(p) : /\ v \in Workers /\ wpc'[v] \in {"none", "idle"}
                                  /\ wpc'[v] = "idle" => seen'[v] = 0
      BY <1>2, <1>5 DEF WorkersOf
    <3>2. Counted(p)'
      BY <1>2, <1>4, <1>5, <1>6, <1>7, <3>1, FS_EmptySet DEF Counted, control
    <3>3. \A v \in WorkersOf(p) : job[v] = None
      BY <1>1, <1>5 DEF PoolInv, Scheduled
    <3>4. Scheduled(p)'
      <4>1. QueuesOf(p)' = QueuesOf(p)
        BY <1>2 DEF QueuesOf, schedule
      <4>2. QED
        BY <1>1, <1>2, <1>7, <3>1, <3>3, <4>1 DEF PoolInv, Scheduled, schedule, control
    <3>5. QED
      BY <2>2, <3>2, <3>4
  <2>3. QED
    BY <2>1, <2>2
<1>9. Phase'
  <2>1. \A r \in Pools : r # p => \A v \in WorkersOf(r) : wpc'[v] = wpc[v]
    BY <1>2 DEF WorkersOf
  <2>2. QED
    BY <1>1, <1>2, <1>4, <2>1 DEF PoolInv, Phase, Started, control, main, schedule
<1>10. QED
  BY <1>3, <1>8, <1>9 DEF PoolInv

\* A pool that is started, not stopping and quiet has all its workers at their wait.
LEMMA AllIdle ==
    ASSUME PoolInv, NEW p \in Pools, Started(p), ~stopping[p], Quiet(p)
    PROVE  Busy(p) = {} /\ \A w \in WorkersOf(p) : wpc[w] = "idle" /\ seen[w] = generation[p]
<1>1. Busy(p) = {}
  BY DEF PoolInv, Counted, Quiet
<1>2. \A w \in WorkersOf(p) : w \in Workers /\ wpc[w] \notin {"none", "gone"}
  BY DEF PoolInv, Counted, Started, WorkersOf
<1>3. \A w \in WorkersOf(p) : wpc[w] \in {"none", "idle", "loop", "work", "finish", "gone"}
  BY <1>2 DEF PoolInv, TypeOK
<1>4. QED
  BY <1>1, <1>2, <1>3 DEF Busy

LEMMA LaunchPool ==
    ASSUME PoolInv, Launch
    PROVE  PoolInv'
<1> SUFFICES ASSUME NEW p \in Pools, p = mpool PROVE PoolInv'
  BY DEF PoolInv, TypeOK
<1>1. TypeOK /\ p \in Pools /\ mlist \in Lists /\ mpc = "begin" /\ ~stopping[p]
  BY DEF PoolInv, TypeOK, Launch, Phase
<1>2. CASE Contents[mlist] = {} \/ (Started(p) /\ ~Quiet(p))
  <2>1. /\ mpc' = IF Contents[mlist] = {} THEN "out" ELSE "exited"
        /\ UNCHANGED <<schedule, control, workers, asleep, mpool, mlist>>
    BY <1>2 DEF Launch, workers
  <2>2. TypeOK'
    BY <2>1 DEF PoolInv, TypeOK, schedule, control, workers
  <2>3. Phase'
    BY <1>1, <1>2, <2>1 DEF PoolInv, Phase, schedule, control, workers, Started
  <2>4. QED
    BY <2>1, <2>2, <2>3, MainKeeps DEF PoolInv
<1>3. CASE ~(Contents[mlist] = {} \/ (Started(p) /\ ~Quiet(p)))
  <2>1. /\ Started(p) /\ Quiet(p) /\ Contents[mlist] # {}
        /\ run' = [run EXCEPT ![p] = mlist]
        /\ lists' = IF mode[p] = "shared" THEN Fill(p, mlist) ELSE lists
        /\ next' = [q \in Queues |-> IF q \in QueuesOf(p) THEN 0 ELSE next[q]]
        /\ pending' = [pending EXCEPT ![p] = Cardinality(WorkersOf(p))]
        /\ inFlight' = [inFlight EXCEPT ![p] = TRUE]
        /\ generation' = [generation EXCEPT ![p] = @ + 1]
        /\ done' = [done EXCEPT ![p] = {}]
        /\ mpc' = "notify"
        /\ UNCHANGED <<mode, source, stopping, wpc, seen, job, asleep, mpool, mlist>>
    BY <1>3 DEF Launch
  <2>2. Cardinality(WorkersOf(p)) \in Nat
    BY BusyFinite, FS_CardinalityType
  <2>3. lists' \in [Queues -> Seq(Jobs)]
    BY <1>1, <2>1, Filled DEF TypeOK
  <2>4. TypeOK'
    <3>1. run' \in [Pools -> Lists \cup {None}] /\ inFlight' \in [Pools -> BOOLEAN]
      BY <1>1, <2>1 DEF TypeOK
    <3>2. pending' \in [Pools -> Nat] /\ generation' \in [Pools -> Nat]
      BY <1>1, <2>1, <2>2 DEF TypeOK
    <3>3. next' \in [Queues -> Nat] /\ done' \in [Pools -> SUBSET Jobs]
      BY <1>1, <2>1 DEF TypeOK
    <3>4. QED
      BY <1>1, <2>1, <2>3, <3>1, <3>2, <3>3 DEF TypeOK
  <2>5. Phase'
    BY <1>1, <2>1 DEF PoolInv, Phase, Started
  <2>6. /\ Busy(p) = {}
        /\ \A w \in WorkersOf(p) : wpc[w] = "idle" /\ seen[w] = generation[p]
    BY <1>1, <2>1, AllIdle
  <2>7. /\ run'[p] = mlist /\ inFlight'[p] /\ done'[p] = {}
        /\ pending'[p] = Cardinality(WorkersOf(p))
        /\ generation'[p] = generation[p] + 1 /\ generation[p] \in Nat
    BY <1>1, <2>1 DEF TypeOK
  <2>8. Busy(p)' = WorkersOf(p)
    BY <2>1, <2>6, <2>7 DEF Busy
  <2>9. WorkersOf(p) # {}
    BY <1>1, PoolAssumption
  <2>10. Counted(p)'
    BY <1>1, <2>1, <2>6, <2>7, <2>8, <2>9 DEF Counted, Started
  <2>11. \A q \in QueuesOf(p) : lists'[q] = Plan[mlist][q] /\ next'[q] = 0 /\ Len(lists'[q]) \in Nat
    <3>1. \A q \in QueuesOf(p) : q \in Queues
      BY <1>1, QueueFacts
    <3>2. CASE mode[p] = "shared"
      <4>1. lists' = Fill(p, mlist)
        BY <2>1, <3>2
      <4>2. QED
        BY <1>1, <2>1, <2>3, <3>1, <4>1, Filled
    <3>3. CASE mode[p] # "shared"
      <4>1. source[p] = mlist /\ mlist # None
        BY <1>1, <3>3, PoolAssumption DEF PoolInv, Phase
      <4>2. \A q \in QueuesOf(p) : lists[q] = Plan[mlist][q]
        BY <1>1, <3>3, <4>1 DEF PoolInv, Scheduled
      <4>3. QED
        BY <2>1, <2>3, <3>1, <3>3, <4>2
    <3>4. QED
      BY <3>2, <3>3
  <2>12. Scheduled(p)'
    <3>1. QueuesOf(p)' = QueuesOf(p)
      BY <2>1 DEF QueuesOf
    <3>2. \A j : ~IsGiven(p, j)'
      BY <2>11, <3>1 DEF IsGiven
    <3>3. \A w \in WorkersOf(p) : job'[w] = None /\ wpc'[w] = "idle"
      BY <1>1, <2>1, <2>6 DEF PoolInv, Scheduled
    <3>4. mode'[p] # "shared" /\ source'[p] # None =>
             \A q \in QueuesOf(p) : lists'[q] = Plan[source'[p]][q]
      BY <1>1, <2>1, <2>11 DEF PoolInv, Phase
    <3>5. \A q \in QueuesOf(p) : lists'[q] = Plan[run'[p]][q] /\ next'[q] <= Len(lists'[q])
      BY <2>7, <2>11
    <3>6. QED
      BY <1>1, <2>1, <2>7, <2>8, <3>1, <3>2, <3>3, <3>4, <3>5 DEF Scheduled
  <2>13. ASSUME NEW r \in Pools, r # p PROVE Counted(r)' /\ Scheduled(r)'
    <3>1. /\ run'[r] = run[r] /\ inFlight'[r] = inFlight[r] /\ done'[r] = done[r]
          /\ pending'[r] = pending[r] /\ generation'[r] = generation[r]
      BY <1>1, <2>1, <2>13 DEF TypeOK
    <3>2. \A q \in QueuesOf(r) : lists'[q] = lists[q] /\ next'[q] = next[q]
      <4>1. \A q \in QueuesOf(r) : q \in Queues /\ q \notin QueuesOf(p)
        BY <1>1, <2>13, QueueFacts
      <4>2. \A q \in QueuesOf(r) : Fill(p, mlist)[q] = lists[q]
        BY <1>1, <2>13, Filled
      <4>3. QED
        BY <2>1, <4>1, <4>2
    <3>3. Counted(r)'
      BY <2>1, <3>1, KeepCounted DEF PoolInv
    <3>4. Scheduled(r)'
      BY <1>1, <2>1, <3>1, <3>2, KeepScheduled DEF PoolInv
    <3>5. QED
      BY <3>3, <3>4
  <2>14. QED
    BY <2>4, <2>5, <2>10, <2>12, <2>13 DEF PoolInv
<1>4. QED
  BY <1>2, <1>3

LEMMA StopPool ==
    ASSUME PoolInv, Stop
    PROVE  PoolInv'
<1> SUFFICES ASSUME NEW p \in Pools, p = mpool PROVE PoolInv'
  BY DEF PoolInv, TypeOK
<1>1. TypeOK /\ p \in Pools /\ mpc = "stop" /\ ~stopping[p] /\ Started(p) /\ Quiet(p)
  BY DEF PoolInv, TypeOK, Stop, Phase
<1>2. /\ stopping' = [stopping EXCEPT ![p] = TRUE]
      /\ generation' = [generation EXCEPT ![p] = @ + 1]
      /\ mpc' = "rouse"
      /\ UNCHANGED <<schedule, run, inFlight, pending, workers, asleep, mpool, mlist>>
  BY DEF Stop
<1>3. TypeOK'
  <2>1. stopping' \in [Pools -> BOOLEAN] /\ generation' \in [Pools -> Nat]
    BY <1>1, <1>2 DEF TypeOK
  <2>2. QED
    BY <1>1, <1>2, <2>1 DEF TypeOK, schedule, workers
<1>4. /\ stopping'[p] /\ \A r \in Pools : r # p => /\ stopping'[r] = stopping[r]
                                                           /\ generation'[r] = generation[r]
  BY <1>1, <1>2 DEF TypeOK
<1>5. Phase'
  BY <1>1, <1>2, <1>4 DEF PoolInv, Phase, Started, schedule, workers
<1>6. /\ Busy(p) = {}
      /\ \A w \in WorkersOf(p) : wpc[w] = "idle" /\ seen[w] = generation[p]
  BY <1>1, AllIdle
<1>7. Counted(p)'
  BY <1>1, <1>2, <1>4, <1>6 DEF Counted, Started, Quiet, workers
<1>8. Scheduled(p)'
  <2>1. ~inFlight[p] /\ QueuesOf(p)' = QueuesOf(p)
    BY <1>1, <1>2 DEF Quiet, QueuesOf, schedule
  <2>2. QED
    BY <1>1, <1>2, <2>1 DEF PoolInv, Scheduled, schedule, workers
<1>9. ASSUME NEW r \in Pools, r # p PROVE Counted(r)' /\ Scheduled(r)'
  BY <1>1, <1>2, <1>4, <1>9, KeepCounted, KeepScheduled DEF PoolInv, schedule, workers
<1>10. QED
  BY <1>3, <1>5, <1>7, <1>8, <1>9 DEF PoolInv

LEMMA JoinWorkersPool ==
    ASSUME PoolInv, JoinWorkers
    PROVE  PoolInv'
<1> SUFFICES ASSUME NEW p \in Pools, p = mpool PROVE PoolInv'
  BY DEF PoolInv, TypeOK
<1>1. TypeOK /\ p \in Pools /\ mpc = "join"
  BY DEF PoolInv, TypeOK, JoinWorkers
<1>2. /\ \A w \in WorkersOf(p) : wpc[w] = "gone"
      /\ wpc' = [w \in Workers |-> IF PoolOf[w] = p THEN "none" ELSE wpc[w]]
      /\ mpc' = "out"
      /\ UNCHANGED <<schedule, control, seen, job, done, asleep, mpool, mlist>>
  BY DEF JoinWorkers
<1>3. /\ \A w \in WorkersOf(p) : wpc'[w] = "none"
      /\ \A r \in Pools : r # p => \A w \in WorkersOf(r) : wpc'[w] = wpc[w]
  BY <1>2 DEF WorkersOf
<1>4. stopping[p]
  <2>1. PICK w \in WorkersOf(p) : TRUE
    BY <1>1, PoolAssumption
  <2>2. wpc[w] = "gone"
    BY <1>2
  <2>3. QED
    BY <1>1, <2>2 DEF PoolInv, Counted
<1>5. TypeOK'
  BY <1>1, <1>2 DEF TypeOK, schedule, control
<1>6. Phase'
  BY <1>1, <1>2, <1>3 DEF PoolInv, Phase, Started, schedule, control
<1>7. Counted(p)'
  BY <1>1, <1>2, <1>3, <1>4 DEF PoolInv, Counted, control
<1>8. Scheduled(p)'
  <2>1. ~inFlight[p] /\ QueuesOf(p)' = QueuesOf(p)
    BY <1>1, <1>2, <1>4 DEF PoolInv, Counted, QueuesOf, schedule
  <2>2. \A w \in WorkersOf(p) : job[w] = None
    BY <1>1, <1>2 DEF PoolInv, Scheduled
  <2>3. QED
    BY <1>1, <1>2, <1>3, <2>1, <2>2 DEF PoolInv, Scheduled, schedule, control
<1>9. ASSUME NEW r \in Pools, r # p PROVE Counted(r)' /\ Scheduled(r)'
  BY <1>1, <1>2, <1>3, <1>9, KeepCounted, KeepScheduled DEF PoolInv, schedule, control
<1>10. QED
  BY <1>5, <1>6, <1>7, <1>8, <1>9 DEF PoolInv

-----------------------------------------------------------------------------
\* What only concerns the worker w leaves the other pools alone.
LEMMA OtherPools ==
    ASSUME PoolInv, NEW p \in Pools, NEW w \in WorkersOf(p),
           UNCHANGED <<mode, source, lists, run, generation, stopping>>,
           \A r \in Pools : r # p => /\ inFlight'[r] = inFlight[r] /\ pending'[r] = pending[r]
                                     /\ done'[r] = done[r],
           \A q \in Queues : q \notin QueuesOf(p) => next'[q] = next[q],
           \A v \in Workers : v # w => /\ wpc'[v] = wpc[v] /\ seen'[v] = seen[v]
                                       /\ job'[v] = job[v]
    PROVE  \A r \in Pools : r # p => Counted(r)' /\ Scheduled(r)'
<1> SUFFICES ASSUME NEW r \in Pools, r # p PROVE Counted(r)' /\ Scheduled(r)'
  OBVIOUS
<1>1. TypeOK
  BY DEF PoolInv
<1>2. \A v \in WorkersOf(r) : v \in Workers /\ v # w
  BY DEF WorkersOf
<1>3. \A q \in QueuesOf(r) : q \in Queues /\ q \notin QueuesOf(p)
  BY <1>1, QueueFacts
<1>4. Counted(r)'
  BY <1>2, KeepCounted DEF PoolInv
<1>5. Scheduled(r)'
  BY <1>1, <1>2, <1>3, KeepScheduled DEF PoolInv
<1>6. QED
  BY <1>4, <1>5

\* A worker that is at it belongs to a run in flight.
LEMMA BusyInFlight ==
    ASSUME PoolInv, NEW p \in Pools, NEW w \in WorkersOf(p), w \in Busy(p), ~stopping[p]
    PROVE  /\ inFlight[p] /\ Started(p) /\ pending[p] = Cardinality(Busy(p))
           /\ run[p] \in Lists
<1>1. inFlight[p] /\ pending[p] = Cardinality(Busy(p))
  BY DEF PoolInv, Counted
<1>2. Started(p)
  BY DEF PoolInv, Counted, Busy
<1>3. QED
  BY <1>1, <1>2 DEF PoolInv, Scheduled

LEMMA Working ==
    ASSUME PoolInv, NEW w \in Workers, wpc[w] \in {"loop", "work", "finish"}
    PROVE  /\ PoolOf[w] \in Pools /\ w \in WorkersOf(PoolOf[w])
           /\ ~stopping[PoolOf[w]] /\ w \in Busy(PoolOf[w])
           /\ inFlight[PoolOf[w]] /\ Started(PoolOf[w]) /\ run[PoolOf[w]] \in Lists
           /\ pending[PoolOf[w]] = Cardinality(Busy(PoolOf[w]))
           /\ seen[w] = generation[PoolOf[w]]
<1>1. PoolOf[w] \in Pools /\ w \in WorkersOf(PoolOf[w])
  BY PoolAssumption DEF WorkersOf
<1>2. ~stopping[PoolOf[w]] /\ w \in Busy(PoolOf[w])
  BY <1>1 DEF PoolInv, Counted, Busy
<1>3. QED
  BY <1>1, <1>2, BusyInFlight DEF PoolInv, Counted

\* The phase does not depend on the workers as long as none appears or leaves.
LEMMA PhaseKept ==
    ASSUME PoolInv, UNCHANGED <<mode, source, stopping, mpc, mpool, mlist>>,
           \A v \in Workers : wpc'[v] = "none" <=> wpc[v] = "none",
           mpc = "stop" => Quiet(mpool)'
    PROVE  Phase'
<1>1. \A p \in Pools : \A v \in WorkersOf(p) : wpc'[v] = "none" <=> wpc[v] = "none"
  BY DEF WorkersOf
<1>2. \A p \in Pools : Started(p)' <=> Started(p)
  BY <1>1 DEF Started
<1>3. mpool \in Pools
  BY DEF PoolInv, TypeOK
<1>4. QED
  BY <1>1, <1>2, <1>3 DEF PoolInv, Phase

LEMMA WakePool ==
    ASSUME PoolInv, NEW w \in Workers, Wake(w)
    PROVE  PoolInv'
<1> SUFFICES ASSUME NEW p \in Pools, p = PoolOf[w], w \in WorkersOf(p) PROVE PoolInv'
  BY PoolAssumption DEF WorkersOf
<1>1. wpc[w] = "idle" /\ UNCHANGED <<schedule, control, job, done, main>> /\ TypeOK
  BY DEF Wake, PoolInv
<1>2. /\ wpc' \in [Workers -> {"none", "idle", "loop", "work", "finish", "gone"}]
      /\ seen' \in [Workers -> Nat] /\ asleep' \subseteq Workers \cup {Main}
      /\ \A v \in Workers : v # w => wpc'[v] = wpc[v] /\ seen'[v] = seen[v]
  <2>1. /\ wpc \in [Workers -> {"none", "idle", "loop", "work", "finish", "gone"}]
        /\ seen \in [Workers -> Nat] /\ asleep \subseteq Workers \cup {Main}
        /\ generation[p] \in Nat
    BY <1>1 DEF TypeOK
  <2>2. CASE stopping[p] \/ generation[p] # seen[w]
    <3>1. /\ wpc' = [wpc EXCEPT ![w] = IF stopping[p] THEN "gone" ELSE "loop"]
          /\ seen' = [seen EXCEPT ![w] = IF stopping[p] THEN @ ELSE generation[p]]
          /\ asleep' = asleep
      BY <2>2 DEF Wake
    <3>2. QED
      BY <2>1, <3>1
  <2>3. CASE ~(stopping[p] \/ generation[p] # seen[w])
    <3>1. asleep' = asleep \cup {w} /\ wpc' = wpc /\ seen' = seen
      BY <2>3 DEF Wake
    <3>2. QED
      BY <2>1, <3>1
  <2>4. QED
    BY <2>2, <2>3
<1>3. TypeOK'
  BY <1>1, <1>2 DEF TypeOK, schedule, control, main
<1>4. wpc'[w] \in {"idle", "loop", "gone"}
  BY <1>1 DEF Wake, TypeOK
<1>5. Phase'
  BY <1>1, <1>2, <1>4, PhaseKept DEF PoolInv, Phase, Quiet, schedule, control, main
<1>6. \A r \in Pools : r # p => Counted(r)' /\ Scheduled(r)'
  BY <1>1, <1>2, OtherPools DEF schedule, control
<1>7. \A v \in WorkersOf(p) : v \in Workers
  BY DEF WorkersOf
<1>8. Counted(p)' /\ Scheduled(p)'
  <2>1. CASE stopping[p]
    <3>1. wpc'[w] = "gone"
      BY <1>1, <2>1 DEF Wake, TypeOK
    <3>2. ~inFlight[p]
      BY <2>1 DEF PoolInv, Counted
    <3>3. Counted(p)'
      BY <1>1, <1>2, <1>7, <2>1, <3>1 DEF PoolInv, Counted, control
    <3>4. QueuesOf(p)' = QueuesOf(p)
      BY <1>1 DEF QueuesOf, schedule
    <3>5. Scheduled(p)'
      BY <1>1, <1>2, <1>7, <3>1, <3>2, <3>4 DEF PoolInv, Scheduled, schedule, control
    <3>6. QED
      BY <3>3, <3>5
  <2>2. CASE ~stopping[p] /\ generation[p] # seen[w]
    <3>1. wpc'[w] = "loop" /\ seen'[w] = generation[p]
      BY <1>1, <2>2 DEF Wake, TypeOK
    <3>2. w \in Busy(p)
      BY <1>1, <2>2 DEF Busy
    <3>3. inFlight[p] /\ Started(p)
      BY <2>2, <3>2, BusyInFlight
    <3>4. Busy(p)' = Busy(p)
      BY <1>1, <1>2, <1>7, <3>1, <3>2 DEF Busy, control
    <3>5. Started(p)'
      BY <1>2, <1>7, <3>1, <3>3 DEF Started
    <3>6. Counted(p)'
      BY <1>1, <1>2, <1>7, <2>2, <3>1, <3>4, <3>5 DEF PoolInv, Counted, control
    <3>7. QueuesOf(p)' = QueuesOf(p) /\ (\A v : QueueOf(v)' = QueueOf(v))
          /\ \A j : IsGiven(p, j)' <=> IsGiven(p, j)
      BY <1>1 DEF QueuesOf, QueueOf, IsGiven, schedule
    <3>8. Scheduled(p)'
      BY <1>1, <1>2, <1>7, <3>1, <3>3, <3>4, <3>7 DEF PoolInv, Scheduled, schedule, control
    <3>9. QED
      BY <3>6, <3>8
  <2>3. CASE ~stopping[p] /\ generation[p] = seen[w]
    <3>1. UNCHANGED <<wpc, seen>>
      BY <2>3 DEF Wake
    <3>2. QED
      BY <1>1, <3>1, KeepCounted, KeepScheduled DEF PoolInv, schedule, control
  <2>4. QED
    BY <2>1, <2>2, <2>3
<1>9. QED
  BY <1>3, <1>5, <1>6, <1>8 DEF PoolInv

\* The job a queue gives out next has not been given out yet.
LEMMA NextJob ==
    ASSUME PoolInv, NEW p \in Pools, inFlight[p], NEW q \in QueuesOf(p), next[q] < Len(lists[q])
    PROVE  /\ lists[q][next[q] + 1] \in Contents[run[p]] /\ lists[q][next[q] + 1] \in Jobs
           /\ ~IsGiven(p, lists[q][next[q] + 1])
<1>1. TypeOK /\ run[p] \in Lists /\ GivesOutOnce(run[p], QueuesOf(p)) /\ QueuesOf(p) \subseteq Queues
  BY QueueFacts DEF PoolInv, Scheduled
<1>2. \A r \in QueuesOf(p) : /\ lists[r] = Plan[run[p]][r] /\ next[r] <= Len(lists[r])
                             /\ lists[r] \in Seq(Jobs) /\ next[r] \in Nat
  BY <1>1 DEF PoolInv, Scheduled, TypeOK
<1>3. next[q] + 1 \in DOMAIN lists[q] /\ lists[q][next[q] + 1] \in Jobs
  BY <1>2
<1>4. lists[q][next[q] + 1] \in Contents[run[p]]
  BY <1>1, <1>2, <1>3 DEF GivesOutOnce
<1>5. ASSUME NEW r \in QueuesOf(p), NEW i \in 1 .. next[r], lists[r][i] = lists[q][next[q] + 1]
      PROVE  FALSE
  <2>1. i \in DOMAIN lists[r]
    BY <1>2
  <2>2. r = q /\ i = next[q] + 1
    BY <1>1, <1>2, <1>3, <1>5, <2>1 DEF GivesOutOnce
  <2>3. QED
    BY <1>2, <2>2
<1>6. QED
  BY <1>3, <1>4, <1>5 DEF IsGiven

LEMMA TakePool ==
    ASSUME PoolInv, NEW w \in Workers, Take(w)
    PROVE  PoolInv'
<1> SUFFICES ASSUME NEW p \in Pools, p = PoolOf[w], w \in WorkersOf(p) PROVE PoolInv'
  BY PoolAssumption DEF WorkersOf
<1> DEFINE q == QueueOf(w)
           j == lists[q][next[q] + 1]
<1>1. wpc[w] = "loop" /\ UNCHANGED <<mode, source, lists, control, seen, done, asleep, main>> /\ TypeOK
  BY DEF Take, PoolInv
<1>2. q \in QueuesOf(p) /\ q \in Queues /\ next[q] \in Nat
  BY <1>1, QueueFacts DEF TypeOK
<1>3. ~stopping[p] /\ w \in Busy(p) /\ inFlight[p] /\ Started(p) /\ run[p] \in Lists
  BY <1>1, Working
<1>4. \A v \in WorkersOf(p) : v \in Workers
  BY DEF WorkersOf
<1>5. QueuesOf(p)' = QueuesOf(p) /\ \A v \in WorkersOf(p) : QueueOf(v)' = QueueOf(v)
  BY <1>1 DEF QueuesOf, QueueOf
<1>6. ASSUME NEW to \in {"work", "finish"},
             \A v \in Workers : wpc'[v] = IF v = w THEN to ELSE wpc[v]
      PROVE  Busy(p)' = Busy(p) /\ Counted(p)' /\ Phase'
  <2>1. Busy(p)' = Busy(p)
    BY <1>1, <1>3, <1>4, <1>6 DEF Busy, control
  <2>2. Started(p)'
    BY <1>3, <1>4, <1>6 DEF Started
  <2>3. Counted(p)'
    BY <1>1, <1>3, <1>4, <1>6, <2>1, <2>2 DEF PoolInv, Counted, control
  <2>4. Phase'
    BY <1>1, <1>6, PhaseKept DEF PoolInv, Phase, Quiet, control, main
  <2>5. QED
    BY <2>1, <2>3, <2>4
<1>7. CASE next[q] < Len(lists[q])
  <2>1. /\ job' = [job EXCEPT ![w] = j] /\ next' = [next EXCEPT ![q] = @ + 1]
        /\ wpc' = [wpc EXCEPT ![w] = "work"]
    BY <1>7 DEF Take
  <2>2. j \in Jobs /\ ~IsGiven(p, j) /\ j # None /\ j \in Contents[run[p]]
    BY <1>2, <1>3, <1>7, NextJob, PoolAssumption
  <2>3. /\ \A v \in Workers : wpc'[v] = IF v = w THEN "work" ELSE wpc[v]
        /\ \A v \in Workers : job'[v] = IF v = w THEN j ELSE job[v]
        /\ \A r \in Queues : next'[r] = IF r = q THEN next[q] + 1 ELSE next[r]
    BY <1>1, <2>1 DEF TypeOK
  <2>4. TypeOK'
    <3>1. job' \in [Workers -> Jobs \cup {None}] /\ next' \in [Queues -> Nat]
          /\ wpc' \in [Workers -> {"none", "idle", "loop", "work", "finish", "gone"}]
      BY <1>1, <1>2, <2>1, <2>2 DEF TypeOK
    <3>2. QED
      BY <1>1, <3>1 DEF TypeOK, control, main
  <2>5. Busy(p)' = Busy(p) /\ Counted(p)' /\ Phase'
    BY <1>6, <2>3
  <2>6. \A r \in Pools : r # p => Counted(r)' /\ Scheduled(r)'
    BY <1>1, <1>2, <2>3, OtherPools DEF control
  <2>7. \A x : IsGiven(p, x)' <=> IsGiven(p, x) \/ x = j
    <3>1. \A r \in QueuesOf(p) : r \in Queues /\ next[r] \in Nat
      BY <1>1, QueueFacts DEF TypeOK
    <3>2. \A r \in QueuesOf(p) : \A i \in 1 .. next'[r] : i \in 1 .. next[r] \/ (r = q /\ i = next[q] + 1)
      BY <1>2, <2>3, <3>1
    <3>3. \A r \in QueuesOf(p) : \A i \in 1 .. next[r] : i \in 1 .. next'[r]
      BY <1>2, <2>3, <3>1
    <3>4. next[q] + 1 \in 1 .. next'[q]
      BY <1>2, <2>3
    <3>5. ASSUME NEW x PROVE IsGiven(p, x)' <=> IsGiven(p, x) \/ x = j
      <4>1. IsGiven(p, x)' => IsGiven(p, x) \/ x = j
        BY <1>1, <1>5, <3>2 DEF IsGiven
      <4>2. IsGiven(p, x) => IsGiven(p, x)'
        BY <1>1, <1>5, <3>3 DEF IsGiven
      <4>3. x = j => IsGiven(p, x)'
        BY <1>1, <1>2, <1>5, <3>4 DEF IsGiven
      <4>4. QED
        BY <4>1, <4>2, <4>3
    <3>6. QED
      BY <3>5
  <2>8. Scheduled(p)'
    <3>1. \A r \in QueuesOf(p) : lists'[r] = Plan[run'[p]][r] /\ next'[r] <= Len(lists'[r])
      <4>1. \A r \in QueuesOf(p) : /\ r \in Queues /\ lists[r] = Plan[run[p]][r]
                                   /\ next[r] <= Len(lists[r]) /\ lists[r] \in Seq(Jobs)
        BY <1>1, <1>3, QueueFacts DEF PoolInv, Scheduled, TypeOK
      <4>2. QED
        BY <1>1, <1>2, <1>7, <2>3, <4>1 DEF control
    <3>2. \A v \in WorkersOf(p) : wpc'[v] = "work" <=> job'[v] # None
      BY <1>4, <2>2, <2>3 DEF PoolInv, Scheduled
    <3>3. \A v \in WorkersOf(p) : job'[v] # None => IsGiven(p, job[v])' /\ job'[v] \notin done'[p]
      BY <1>1, <1>3, <1>4, <2>2, <2>3, <2>7 DEF PoolInv, Scheduled
    <3>4. \A v \in WorkersOf(p) : v # w => job[v] # j
      BY <1>3, <2>2 DEF PoolInv, Scheduled
    <3>5. \A u, v \in WorkersOf(p) : job'[u] # None /\ job'[u] = job'[v] => u = v
      BY <1>3, <1>4, <2>3, <3>4 DEF PoolInv, Scheduled
    <3>6. ASSUME NEW x \in Jobs, IsGiven(p, x)'
          PROVE  x \in done[p] \/ \E v \in WorkersOf(p) : job'[v] = x
      <4>1. CASE x = j
        BY <2>3, <4>1
      <4>2. CASE x # j
        <5>1. x \in done[p] \/ \E v \in WorkersOf(p) : job[v] = x
          BY <1>3, <2>7, <3>6, <4>2 DEF PoolInv, Scheduled
        <5>2. job[w] = None
          BY <1>1 DEF PoolInv, Scheduled
        <5>3. \A v \in WorkersOf(p) : job[v] = x => job'[v] = x
          BY <1>4, <2>3, <3>6, <5>2, PoolAssumption
        <5>4. QED
          BY <5>1, <5>3
      <4>3. QED
        BY <4>1, <4>2
    <3>7. \A v \in WorkersOf(p) : v \notin Busy(p) \/ wpc[v] = "finish" => QueueOf(v) # q
      <4>1. \A v \in WorkersOf(p) : v \notin Busy(p) \/ wpc[v] = "finish" =>
                next[QueueOf(v)] = Len(lists[QueueOf(v)])
        BY <1>3 DEF PoolInv, Scheduled
      <4>2. QED
        BY <1>7, <4>1
    <3>8. \A v \in WorkersOf(p) : QueueOf(v) \in Queues
      BY <1>1, QueueFacts
    <3>9. /\ \A v \in WorkersOf(p) \ Busy(p) : next'[QueueOf(v)] = Len(lists'[QueueOf(v)])
          /\ \A v \in WorkersOf(p) : wpc'[v] = "finish" => next'[QueueOf(v)] = Len(lists'[QueueOf(v)])
      <4>1. \A v \in WorkersOf(p) : v \notin Busy(p) \/ wpc[v] = "finish" =>
                next'[QueueOf(v)] = Len(lists'[QueueOf(v)])
        BY <1>1, <1>3, <2>3, <3>7, <3>8 DEF PoolInv, Scheduled
      <4>2. QED
        BY <1>4, <2>3, <4>1
    <3>10. \A x \in done'[p] : IsGiven(p, x)'
      BY <1>1, <1>3, <2>7 DEF PoolInv, Scheduled
    <3>11. mode'[p] # "shared" /\ source'[p] # None =>
              \A r \in QueuesOf(p) : lists'[r] = Plan[source'[p]][r]
      BY <1>1 DEF PoolInv, Scheduled
    <3>12. inFlight'[p] /\ run'[p] \in Lists /\ done'[p] = done[p]
      BY <1>1, <1>3 DEF control
    <3>13. QED
      BY <1>5, <2>5, <3>1, <3>2, <3>3, <3>5, <3>6, <3>9, <3>10, <3>11, <3>12 DEF Scheduled
  <2>9. QED
    BY <2>4, <2>5, <2>6, <2>8 DEF PoolInv
<1>8. CASE ~(next[q] < Len(lists[q]))
  <2>1. wpc' = [wpc EXCEPT ![w] = "finish"] /\ UNCHANGED <<job, next>>
    BY <1>8 DEF Take
  <2>2. \A v \in Workers : wpc'[v] = IF v = w THEN "finish" ELSE wpc[v]
    BY <1>1, <2>1 DEF TypeOK
  <2>3. TypeOK'
    BY <1>1, <2>1 DEF TypeOK, control, main
  <2>4. Busy(p)' = Busy(p) /\ Counted(p)' /\ Phase'
    BY <1>6, <2>2
  <2>5. \A r \in Pools : r # p => Counted(r)' /\ Scheduled(r)'
    BY <1>1, <2>1, <2>2, OtherPools DEF control
  <2>6. next[q] = Len(lists[q])
    <3>1. next[q] <= Len(lists[q]) /\ lists[q] \in Seq(Jobs)
      BY <1>1, <1>2, <1>3 DEF PoolInv, Scheduled, TypeOK
    <3>2. QED
      BY <1>2, <1>8, <3>1
  <2>7. \A x : IsGiven(p, x)' <=> IsGiven(p, x)
    BY <1>1, <1>5, <2>1 DEF IsGiven
  <2>8. Scheduled(p)'
    BY <1>1, <1>3, <1>4, <1>5, <2>1, <2>2, <2>4, <2>6, <2>7 DEF PoolInv, Scheduled, control
  <2>9. QED
    BY <2>3, <2>4, <2>5, <2>8 DEF PoolInv
<1>9. QED
  BY <1>7, <1>8

LEMMA JobDonePool ==
    ASSUME PoolInv, NEW w \in Workers, JobDone(w)
    PROVE  PoolInv'
<1> SUFFICES ASSUME NEW p \in Pools, p = PoolOf[w], w \in WorkersOf(p) PROVE PoolInv'
  BY PoolAssumption DEF WorkersOf
<1>1. /\ wpc[w] = "work" /\ TypeOK
      /\ done' = [done EXCEPT ![p] = @ \cup {job[w]}]
      /\ job' = [job EXCEPT ![w] = None] /\ wpc' = [wpc EXCEPT ![w] = "loop"]
      /\ UNCHANGED <<schedule, control, seen, asleep, main>>
  BY DEF JobDone, PoolInv
<1>2. /\ ~stopping[p] /\ w \in Busy(p) /\ inFlight[p] /\ Started(p) /\ run[p] \in Lists
      /\ seen[w] = generation[p]
  BY <1>1, Working
<1>3. job[w] \in Jobs /\ IsGiven(p, job[w]) /\ job[w] # None
  BY <1>1, <1>2 DEF PoolInv, Scheduled, TypeOK
<1>4. /\ \A v \in Workers : wpc'[v] = IF v = w THEN "loop" ELSE wpc[v]
      /\ \A v \in Workers : job'[v] = IF v = w THEN None ELSE job[v]
      /\ done'[p] = done[p] \cup {job[w]}
      /\ \A r \in Pools : r # p => done'[r] = done[r]
  BY <1>1 DEF TypeOK
<1>5. \A v \in WorkersOf(p) : v \in Workers
  BY DEF WorkersOf
<1>6. TypeOK'
  <2>1. done' \in [Pools -> SUBSET Jobs] /\ job' \in [Workers -> Jobs \cup {None}]
        /\ wpc' \in [Workers -> {"none", "idle", "loop", "work", "finish", "gone"}]
    BY <1>1, <1>3 DEF TypeOK
  <2>2. QED
    BY <1>1, <2>1 DEF TypeOK, schedule, control, main
<1>7. Phase'
  BY <1>1, <1>4, PhaseKept DEF PoolInv, Phase, Quiet, schedule, control, main
<1>8. \A r \in Pools : r # p => Counted(r)' /\ Scheduled(r)'
  BY <1>1, <1>4, OtherPools DEF schedule, control
<1>9. Busy(p)' = Busy(p)
  BY <1>1, <1>2, <1>4, <1>5 DEF Busy, control
<1>10. Counted(p)'
  <2>1. Started(p)'
    BY <1>2, <1>4, <1>5 DEF Started
  <2>2. QED
    BY <1>1, <1>2, <1>4, <1>5, <1>9, <2>1 DEF PoolInv, Counted, control
<1>11. QueuesOf(p)' = QueuesOf(p) /\ (\A v : QueueOf(v)' = QueueOf(v))
       /\ \A x : IsGiven(p, x)' <=> IsGiven(p, x)
  BY <1>1 DEF QueuesOf, QueueOf, IsGiven, schedule
<1>12. Scheduled(p)'
  <2>1. \A v \in WorkersOf(p) : wpc'[v] = "work" <=> job'[v] # None
    BY <1>4, <1>5 DEF PoolInv, Scheduled
  <2>2. ASSUME NEW v \in WorkersOf(p), job'[v] # None
        PROVE  IsGiven(p, job'[v]) /\ job'[v] \notin done'[p]
    <3>1. v # w /\ job'[v] = job[v] /\ job[v] # job[w]
      BY <1>2, <1>3, <1>4, <1>5, <2>2 DEF PoolInv, Scheduled
    <3>2. QED
      BY <1>2, <1>4, <2>2, <3>1 DEF PoolInv, Scheduled
  <2>3. \A u, v \in WorkersOf(p) : job'[u] # None /\ job'[u] = job'[v] => u = v
    BY <1>2, <1>4, <1>5 DEF PoolInv, Scheduled
  <2>4. \A x \in done'[p] : IsGiven(p, x)
    BY <1>2, <1>3, <1>4 DEF PoolInv, Scheduled
  <2>5. ASSUME NEW x \in Jobs, IsGiven(p, x)
        PROVE  x \in done'[p] \/ \E v \in WorkersOf(p) : job'[v] = x
    <3>1. x \in done[p] \/ \E v \in WorkersOf(p) : job[v] = x
      BY <1>2, <2>5 DEF PoolInv, Scheduled
    <3>2. \A v \in WorkersOf(p) : job[v] = x => v = w \/ job'[v] = x
      BY <1>4, <1>5
    <3>3. QED
      BY <1>4, <3>1, <3>2
  <2>6. \A v \in WorkersOf(p) : wpc'[v] = "finish" => wpc[v] = "finish"
    BY <1>4, <1>5
  <2>7. /\ \A v \in WorkersOf(p) \ Busy(p) : next[QueueOf(v)] = Len(lists[QueueOf(v)])
        /\ \A v \in WorkersOf(p) : wpc'[v] = "finish" => next[QueueOf(v)] = Len(lists[QueueOf(v)])
    BY <1>2, <2>6 DEF PoolInv, Scheduled
  <2>8. /\ mode[p] # "shared" /\ source[p] # None => \A q \in QueuesOf(p) : lists[q] = Plan[source[p]][q]
        /\ \A q \in QueuesOf(p) : lists[q] = Plan[run[p]][q] /\ next[q] <= Len(lists[q])
    BY <1>2 DEF PoolInv, Scheduled
  <2>9. UNCHANGED <<mode, source, lists, next, run, inFlight>>
    BY <1>1 DEF schedule, control
  <2>10. QED
    BY <1>2, <1>9, <1>11, <2>1, <2>2, <2>3, <2>4, <2>5, <2>7, <2>8, <2>9 DEF Scheduled
<1>13. QED
  BY <1>6, <1>7, <1>8, <1>10, <1>12 DEF PoolInv

\* When the last worker is through, every job of the run is done.
LEMMA AllDone ==
    ASSUME PoolInv, NEW p \in Pools, inFlight[p], ~stopping[p],
           NEW w \in WorkersOf(p), wpc[w] = "finish", Busy(p) \subseteq {w}
    PROVE  done[p] = Contents[run[p]] /\ \A v \in WorkersOf(p) : job[v] = None
<1>1. TypeOK /\ run[p] \in Lists /\ GivesOutOnce(run[p], QueuesOf(p)) /\ QueuesOf(p) \subseteq Queues
  BY QueueFacts DEF PoolInv, Scheduled
<1>2. \A v \in WorkersOf(p) : job[v] = None
  BY DEF PoolInv, Scheduled, Busy
<1>3. \A q \in QueuesOf(p) : next[q] = Len(lists[q])
  <2>1. \A v \in WorkersOf(p) : next[QueueOf(v)] = Len(lists[QueueOf(v)])
    BY DEF PoolInv, Scheduled
  <2>2. QED
    BY <1>1, <2>1, QueueFacts
<1>4. \A q \in QueuesOf(p) : /\ lists[q] = Plan[run[p]][q] /\ lists[q] \in Seq(Jobs)
                             /\ DOMAIN lists[q] = 1 .. next[q]
  <2>1. \A q \in QueuesOf(p) : lists[q] = Plan[run[p]][q] /\ lists[q] \in Seq(Jobs)
    BY <1>1 DEF PoolInv, Scheduled, TypeOK
  <2>2. QED
    BY <1>3, <2>1
<1>5. ASSUME NEW j PROVE IsGiven(p, j) <=> j \in Contents[run[p]]
  <2>1. ASSUME IsGiven(p, j) PROVE j \in Contents[run[p]]
    <3>1. PICK q \in QueuesOf(p) : \E i \in 1 .. next[q] : lists[q][i] = j
      BY <2>1 DEF IsGiven
    <3>2. PICK i \in DOMAIN Plan[run[p]][q] : Plan[run[p]][q][i] = j
      BY <1>4, <3>1
    <3>3. QED
      BY <1>1, <3>2 DEF GivesOutOnce
  <2>2. ASSUME j \in Contents[run[p]] PROVE IsGiven(p, j)
    <3>1. PICK q \in QueuesOf(p) : \E i \in DOMAIN Plan[run[p]][q] : Plan[run[p]][q][i] = j
      BY <1>1, <2>2 DEF GivesOutOnce
    <3>2. \E i \in 1 .. next[q] : lists[q][i] = j
      BY <1>4, <3>1
    <3>3. QED
      BY <3>2 DEF IsGiven
  <2>3. QED
    BY <2>1, <2>2
<1>6. done[p] \subseteq Contents[run[p]]
  BY <1>5 DEF PoolInv, Scheduled
<1>7. Contents[run[p]] \subseteq done[p]
  <2>1. Contents[run[p]] \subseteq Jobs
    BY <1>1, PoolAssumption
  <2>2. \A j \in Jobs : IsGiven(p, j) => j \in done[p]
    BY <1>2, PoolAssumption DEF PoolInv, Scheduled
  <2>3. QED
    BY <1>5, <2>1, <2>2
<1>8. QED
  BY <1>2, <1>6, <1>7

LEMMA FinishPool ==
    ASSUME PoolInv, NEW w \in Workers, Finish(w)
    PROVE  PoolInv'
<1> SUFFICES ASSUME NEW p \in Pools, p = PoolOf[w], w \in WorkersOf(p) PROVE PoolInv'
  BY PoolAssumption DEF WorkersOf
<1>1. /\ wpc[w] = "finish" /\ TypeOK
      /\ pending' = [pending EXCEPT ![p] = @ - 1]
      /\ inFlight' = [inFlight EXCEPT ![p] = @ /\ pending[p] # 1]
      /\ asleep' = IF pending[p] = 1 /\ mpool = p THEN asleep \ {Main} ELSE asleep
      /\ wpc' = [wpc EXCEPT ![w] = "idle"]
      /\ UNCHANGED <<schedule, run, generation, stopping, seen, job, done, main>>
  BY DEF Finish, PoolInv
<1>2. /\ ~stopping[p] /\ w \in Busy(p) /\ inFlight[p] /\ Started(p) /\ run[p] \in Lists
      /\ pending[p] = Cardinality(Busy(p)) /\ seen[w] = generation[p]
  BY <1>1, Working
<1>3. \A v \in WorkersOf(p) : v \in Workers
  BY DEF WorkersOf
<1>4. \A v \in Workers : wpc'[v] = IF v = w THEN "idle" ELSE wpc[v]
  BY <1>1 DEF TypeOK
<1>5. Busy(p)' = Busy(p) \ {w}
  BY <1>1, <1>2, <1>3, <1>4 DEF Busy
<1>6. /\ Cardinality(Busy(p)) \in Nat /\ Cardinality(Busy(p)) > 0
      /\ Cardinality(Busy(p) \ {w}) = Cardinality(Busy(p)) - 1
      /\ Cardinality(Busy(p)) = 1 <=> Busy(p) \ {w} = {}
  <2>1. IsFiniteSet(Busy(p)) /\ IsFiniteSet(Busy(p) \ {w})
    BY BusyFinite, FS_RemoveElement
  <2>2. /\ Cardinality(Busy(p)) \in Nat /\ Cardinality(Busy(p) \ {w}) \in Nat
        /\ Cardinality(Busy(p) \ {w}) = Cardinality(Busy(p)) - 1
    BY <1>2, <2>1, FS_RemoveElement, FS_CardinalityType
  <2>3. Cardinality(Busy(p) \ {w}) = 0 <=> Busy(p) \ {w} = {}
    BY <2>1, FS_EmptySet
  <2>4. QED
    BY <2>2, <2>3
<1>7. /\ pending'[p] = pending[p] - 1 /\ inFlight'[p] = (pending[p] # 1)
      /\ \A r \in Pools : r # p => pending'[r] = pending[r] /\ inFlight'[r] = inFlight[r]
  BY <1>1, <1>2 DEF TypeOK
<1>8. TypeOK'
  <2>1. pending' \in [Pools -> Nat]
    <3>1. pending[p] - 1 \in Nat
      BY <1>2, <1>6
    <3>2. QED
      BY <1>1, <3>1 DEF TypeOK
  <2>2. inFlight' \in [Pools -> BOOLEAN] /\ asleep' \subseteq Workers \cup {Main}
        /\ wpc' \in [Workers -> {"none", "idle", "loop", "work", "finish", "gone"}]
    BY <1>1 DEF TypeOK
  <2>3. QED
    BY <1>1, <2>1, <2>2 DEF TypeOK, schedule, main
<1>9. Phase'
  <2>1. mpc = "stop" => Quiet(mpool)'
    <3>1. mpc = "stop" => mpool # p /\ mpool \in Pools /\ Quiet(mpool)
      BY <1>2 DEF PoolInv, Phase, Quiet, TypeOK
    <3>2. QED
      BY <1>1, <1>7, <3>1 DEF Quiet, main
  <2>2. QED
    BY <1>1, <1>4, <2>1, PhaseKept DEF schedule, main
<1>10. \A r \in Pools : r # p => Counted(r)' /\ Scheduled(r)'
  BY <1>1, <1>4, <1>7, OtherPools DEF schedule
<1>11. Started(p)'
  BY <1>2, <1>3, <1>4 DEF Started
<1>12. Counted(p)'
  <2>1. pending'[p] = Cardinality(Busy(p)') /\ (inFlight'[p] <=> Busy(p)' # {})
    BY <1>2, <1>5, <1>6, <1>7
  <2>2. QED
    BY <1>1, <1>2, <1>3, <1>4, <1>11, <2>1 DEF PoolInv, Counted
<1>13. QueuesOf(p)' = QueuesOf(p) /\ (\A v : QueueOf(v)' = QueueOf(v))
       /\ \A x : IsGiven(p, x)' <=> IsGiven(p, x)
  BY <1>1 DEF QueuesOf, QueueOf, IsGiven, schedule
<1>14. UNCHANGED <<mode, source, lists, next, run, job, done>>
  BY <1>1 DEF schedule
<1>15. \A v \in WorkersOf(p) : wpc'[v] = "work" <=> job[v] # None
  BY <1>1, <1>3, <1>4 DEF PoolInv, Scheduled
<1>16. /\ mode[p] # "shared" /\ source[p] # None => \A q \in QueuesOf(p) : lists[q] = Plan[source[p]][q]
       /\ \A q \in QueuesOf(p) : lists[q] = Plan[run[p]][q] /\ next[q] <= Len(lists[q])
  BY <1>2 DEF PoolInv, Scheduled
<1>17. Scheduled(p)'
  <2>1. CASE pending[p] = 1
    <3>1. ~inFlight'[p] /\ Busy(p) \subseteq {w}
      BY <1>2, <1>6, <1>7, <2>1
    <3>2. done[p] = Contents[run[p]]
      BY <1>1, <1>2, <3>1, AllDone
    <3>3. QED
      BY <1>13, <1>14, <1>15, <1>16, <3>1, <3>2 DEF Scheduled
  <2>2. CASE pending[p] # 1
    <3>1. /\ \A v \in WorkersOf(p) \ (Busy(p) \ {w}) : next[QueueOf(v)] = Len(lists[QueueOf(v)])
          /\ \A v \in WorkersOf(p) : wpc'[v] = "finish" => next[QueueOf(v)] = Len(lists[QueueOf(v)])
      BY <1>1, <1>2, <1>3, <1>4 DEF PoolInv, Scheduled
    <3>2. /\ \A v \in WorkersOf(p) : job[v] # None => IsGiven(p, job[v]) /\ job[v] \notin done[p]
          /\ \A u, v \in WorkersOf(p) : job[u] # None /\ job[u] = job[v] => u = v
          /\ \A j \in done[p] : IsGiven(p, j)
          /\ \A j \in Jobs : IsGiven(p, j) => j \in done[p] \/ \E v \in WorkersOf(p) : job[v] = j
      BY <1>2 DEF PoolInv, Scheduled
    <3>3. inFlight'[p] = TRUE
      BY <1>7, <2>2
    <3>4. \A v \in WorkersOf(p) \ Busy(p)' : next[QueueOf(v)] = Len(lists[QueueOf(v)])
      BY <1>5, <3>1
    <3>5. QED
      BY <1>2, <1>13, <1>14, <1>15, <1>16, <3>1, <3>2, <3>3, <3>4 DEF Scheduled
  <2>3. QED
    BY <2>1, <2>2
<1>18. QED
  BY <1>8, <1>9, <1>10, <1>12, <1>17 DEF PoolInv

LEMMA NextPool == PoolInv /\ [PoolNext]_poolVars => PoolInv'
<1> SUFFICES ASSUME PoolInv, [PoolNext]_poolVars PROVE PoolInv'
  OBVIOUS
<1>1. CASE UNCHANGED poolVars
  <2>1. UNCHANGED <<schedule, control, workers>>
    BY <1>1 DEF poolVars
  <2>2. TypeOK' /\ Phase'
    BY <1>1 DEF poolVars, PoolInv, TypeOK, Phase, Started, Quiet, schedule, control, workers, main
  <2>3. QED
    BY <2>1, <2>2, MainKeeps DEF PoolInv
<1>2. CASE \E p \in Pools : (\E l \in Lists : StartRun(p, l)) \/ WaitRun(p) \/ Shutdown(p)
  BY <1>2, StartRunPool, WaitRunPool, ShutdownPool
<1>3. CASE InPool
  BY <1>3, RebuildPool, CreateWorkerPool, LaunchPool, NotifyPool, AwaitPool, StopPool,
     JoinWorkersPool DEF InPool
<1>4. CASE \E w \in Workers : Work(w) \/ JobDone(w)
  BY <1>4, WakePool, TakePool, FinishPool, JobDonePool DEF Work
<1>5. CASE \E t \in Workers \cup {Main} : Spurious(t)
  BY <1>5, SpuriousPool
<1>6. QED
  BY <1>1, <1>2, <1>3, <1>4, <1>5 DEF PoolNext

-----------------------------------------------------------------------------
(***************************************************************************)
(* The steps of ForkJoin as a pool takes them.                             *)
(***************************************************************************)
Resting(p) == \A w \in WorkersOf(p) : Doing(p)[w] = None
Still(p) == inFlight'[p] = inFlight[p] /\ Todo(p)' = Todo(p) /\ Doing(p)' = Doing(p)

ForkJoinStep(p) ==
    \/ /\ ~inFlight[p] /\ Resting(p) /\ inFlight'[p] = TRUE
       /\ \E l \in Lists : Todo(p)' = Contents[l]
       /\ Doing(p)' = Doing(p)
    \/ \E w \in WorkersOf(p) : \E j \in Todo(p) :
          /\ inFlight[p] /\ Doing(p)[w] = None
          /\ Todo(p)' = Todo(p) \ {j} /\ Doing(p)' = [Doing(p) EXCEPT ![w] = j]
          /\ inFlight'[p] = inFlight[p]
    \/ \E w \in WorkersOf(p) :
          /\ Doing(p)[w] # None /\ Doing(p)' = [Doing(p) EXCEPT ![w] = None]
          /\ inFlight'[p] = inFlight[p] /\ Todo(p)' = Todo(p)
    \/ /\ inFlight[p] /\ Todo(p) = {} /\ Resting(p) /\ inFlight'[p] = FALSE
       /\ Todo(p)' = Todo(p) /\ Doing(p)' = Doing(p)
    \/ Still(p)

LEMMA StillWhen ==
    ASSUME NEW p \in Pools, inFlight'[p] = inFlight[p], run'[p] = run[p], done'[p] = done[p],
           \A w \in WorkersOf(p) : job'[w] = job[w]
    PROVE  Still(p)
<1>1. Doing(p)' = Doing(p)
  BY DEF Doing
<1>2. Todo(p)' = Todo(p)
  BY DEF Todo
<1>3. QED
  BY <1>1, <1>2 DEF Still

LEMMA LaunchForks ==
    ASSUME PoolInv, Launch, NEW p \in Pools
    PROVE  ForkJoinStep(p)
<1>1. TypeOK /\ mpc = "begin" /\ ~stopping[mpool] /\ mpool \in Pools /\ mlist \in Lists
  BY DEF PoolInv, TypeOK, Phase, Launch
<1>2. CASE Contents[mlist] = {} \/ (Started(mpool) /\ ~Quiet(mpool))
  BY <1>2, StillWhen DEF Launch, control, ForkJoinStep
<1>3. CASE ~(Contents[mlist] = {} \/ (Started(mpool) /\ ~Quiet(mpool)))
  <2>1. /\ Started(mpool) /\ Quiet(mpool)
        /\ run' = [run EXCEPT ![mpool] = mlist]
        /\ inFlight' = [inFlight EXCEPT ![mpool] = TRUE]
        /\ done' = [done EXCEPT ![mpool] = {}]
        /\ UNCHANGED job
    BY <1>3 DEF Launch
  <2>2. CASE p = mpool
    <3>1. \A w \in WorkersOf(p) : wpc[w] = "idle"
      BY <1>1, <2>1, <2>2, AllIdle
    <3>2. \A w \in WorkersOf(p) : job[w] = None
      BY <3>1 DEF PoolInv, Scheduled
    <3>3. run'[p] = mlist /\ inFlight'[p] = TRUE /\ done'[p] = {}
      BY <1>1, <2>1, <2>2 DEF TypeOK
    <3>4. None \notin Contents[mlist]
      BY <1>1, PoolAssumption
    <3>5. Todo(p)' = Contents[mlist]
      BY <2>1, <3>2, <3>3, <3>4 DEF Todo
    <3>6. Doing(p)' = Doing(p) /\ Resting(p)
      BY <2>1, <3>2 DEF Doing, Resting
    <3>7. QED
      BY <1>1, <2>1, <2>2, <3>3, <3>5, <3>6 DEF Quiet, ForkJoinStep
  <2>3. CASE p # mpool
    <3>1. run'[p] = run[p] /\ inFlight'[p] = inFlight[p] /\ done'[p] = done[p]
      BY <1>1, <2>1, <2>3 DEF TypeOK
    <3>2. QED
      BY <2>1, <3>1, StillWhen DEF ForkJoinStep
  <2>4. QED
    BY <2>2, <2>3
<1>4. QED
  BY <1>2, <1>3

LEMMA TakeBegins ==
    ASSUME PoolInv, NEW w \in Workers, Take(w), NEW p \in Pools
    PROVE  ForkJoinStep(p)
<1> DEFINE q == QueueOf(w)
           j == lists[q][next[q] + 1]
<1>1. wpc[w] = "loop" /\ TypeOK /\ UNCHANGED <<inFlight, run, done>>
  BY DEF Take, PoolInv, control
<1>2. CASE p = PoolOf[w] /\ next[q] < Len(lists[q])
  <2>1. job' = [job EXCEPT ![w] = j]
    BY <1>2 DEF Take
  <2>2. w \in WorkersOf(p) /\ inFlight[p] /\ q \in QueuesOf(p)
    BY <1>1, <1>2, Working, QueueFacts
  <2>3. j \in Contents[run[p]] /\ ~IsGiven(p, j) /\ j # None
    BY <1>2, <2>2, NextJob, PoolAssumption
  <2>4. j \notin done[p] /\ \A v \in WorkersOf(p) : job[v] # j
    BY <2>2, <2>3 DEF PoolInv, Scheduled
  <2>5. j \in Todo(p)
    BY <2>2, <2>3, <2>4 DEF Todo
  <2>6. job[w] = None
    BY <1>1, <2>2 DEF PoolInv, Scheduled
  <2>7. \A v \in WorkersOf(p) : v \in Workers
    BY DEF WorkersOf
  <2>8. \A v \in Workers : job'[v] = IF v = w THEN j ELSE job[v]
    BY <1>1, <2>1 DEF TypeOK
  <2>9. Doing(p)' = [Doing(p) EXCEPT ![w] = j] /\ Doing(p)[w] = None
    BY <2>2, <2>6, <2>7, <2>8 DEF Doing
  <2>10. Todo(p)' = Todo(p) \ {j}
    <3>1. None \notin Contents[run[p]]
      BY <1>1, <2>2, PoolAssumption DEF PoolInv, Scheduled
    <3>2. ASSUME NEW x \in Contents[run[p]]
          PROVE  (\A v \in WorkersOf(p) : job'[v] # x) <=> (\A v \in WorkersOf(p) : job[v] # x) /\ x # j
      BY <2>2, <2>6, <2>7, <2>8, <3>1, <3>2
    <3>3. QED
      BY <1>1, <2>2, <3>2 DEF Todo
  <2>11. QED
    BY <1>1, <2>2, <2>5, <2>9, <2>10 DEF ForkJoinStep
<1>3. CASE ~(p = PoolOf[w] /\ next[q] < Len(lists[q]))
  <2>1. \A v \in WorkersOf(p) : job'[v] = job[v]
    BY <1>1, <1>3 DEF Take, WorkersOf, TypeOK
  <2>2. QED
    BY <1>1, <2>1, StillWhen DEF ForkJoinStep
<1>4. QED
  BY <1>2, <1>3

LEMMA JobDoneEnds ==
    ASSUME PoolInv, NEW w \in Workers, JobDone(w), NEW p \in Pools
    PROVE  ForkJoinStep(p)
<1>1. /\ wpc[w] = "work" /\ TypeOK /\ UNCHANGED <<inFlight, run>>
      /\ done' = [done EXCEPT ![PoolOf[w]] = @ \cup {job[w]}]
      /\ job' = [job EXCEPT ![w] = None]
  BY DEF JobDone, PoolInv, control
<1>2. \A v \in Workers : job'[v] = IF v = w THEN None ELSE job[v]
  BY <1>1 DEF TypeOK
<1>3. \A v \in WorkersOf(p) : v \in Workers /\ PoolOf[v] = p
  BY DEF WorkersOf
<1>4. CASE p = PoolOf[w]
  <2>1. w \in WorkersOf(p) /\ inFlight[p] /\ run[p] \in Lists
    BY <1>1, <1>4, Working
  <2>2. job[w] # None
    BY <1>1, <2>1 DEF PoolInv, Scheduled
  <2>3. done'[p] = done[p] \cup {job[w]}
    BY <1>1, <1>4 DEF TypeOK
  <2>4. Doing(p)' = [Doing(p) EXCEPT ![w] = None] /\ Doing(p)[w] # None
    BY <1>2, <1>3, <2>1, <2>2 DEF Doing
  <2>5. Todo(p)' = Todo(p)
    <3>1. None \notin Contents[run[p]]
      BY <2>1, PoolAssumption
    <3>2. ASSUME NEW x \in Contents[run[p]]
          PROVE  (x \notin done'[p] /\ \A v \in WorkersOf(p) : job'[v] # x)
                   <=> (x \notin done[p] /\ \A v \in WorkersOf(p) : job[v] # x)
      BY <1>2, <1>3, <2>1, <2>3, <3>1, <3>2
    <3>3. QED
      BY <1>1, <2>1, <3>2 DEF Todo
  <2>6. QED
    BY <1>1, <2>1, <2>4, <2>5 DEF ForkJoinStep
<1>5. CASE p # PoolOf[w]
  <2>1. done'[p] = done[p] /\ \A v \in WorkersOf(p) : job'[v] = job[v]
    BY <1>1, <1>2, <1>3, <1>5 DEF TypeOK
  <2>2. QED
    BY <1>1, <2>1, StillWhen DEF ForkJoinStep
<1>6. QED
  BY <1>4, <1>5

LEMMA FinishJoins ==
    ASSUME PoolInv, NEW w \in Workers, Finish(w), NEW p \in Pools
    PROVE  ForkJoinStep(p)
<1>1. /\ wpc[w] = "finish" /\ TypeOK /\ UNCHANGED <<run, job, done>>
      /\ inFlight' = [inFlight EXCEPT ![PoolOf[w]] = @ /\ pending[PoolOf[w]] # 1]
  BY DEF Finish, PoolInv
<1>2. CASE p = PoolOf[w] /\ pending[p] = 1
  <2>1. /\ w \in WorkersOf(p) /\ inFlight[p] /\ ~stopping[p] /\ w \in Busy(p)
        /\ pending[p] = Cardinality(Busy(p))
    BY <1>1, <1>2, Working
  <2>2. Busy(p) \subseteq {w}
    <3>1. IsFiniteSet(Busy(p) \ {w}) /\ Cardinality(Busy(p) \ {w}) = Cardinality(Busy(p)) - 1
      BY <2>1, BusyFinite, FS_RemoveElement
    <3>2. Cardinality(Busy(p) \ {w}) = 0
      BY <1>2, <2>1, <3>1
    <3>3. QED
      BY <3>1, <3>2, FS_EmptySet
  <2>3. done[p] = Contents[run[p]] /\ \A v \in WorkersOf(p) : job[v] = None
    BY <1>1, <2>1, <2>2, AllDone
  <2>4. inFlight'[p] = FALSE
    BY <1>1, <1>2 DEF TypeOK
  <2>5. Todo(p) = {} /\ Todo(p)' = {}
    BY <2>3, <2>4 DEF Todo
  <2>6. Resting(p) /\ Doing(p)' = Doing(p)
    BY <1>1, <2>3 DEF Resting, Doing
  <2>7. QED
    BY <2>1, <2>4, <2>5, <2>6 DEF ForkJoinStep
<1>3. CASE ~(p = PoolOf[w] /\ pending[p] = 1)
  <2>1. inFlight'[p] = inFlight[p]
    BY <1>1, <1>3 DEF TypeOK
  <2>2. QED
    BY <1>1, <2>1, StillWhen DEF ForkJoinStep
<1>4. QED
  BY <1>2, <1>3

LEMMA PoolForkJoin ==
    ASSUME PoolInv, [PoolNext]_poolVars, NEW p \in Pools
    PROVE  ForkJoinStep(p)
<1>1. CASE UNCHANGED <<inFlight, run, done, job>>
  BY <1>1, StillWhen DEF ForkJoinStep
<1>2. CASE UNCHANGED poolVars
  BY <1>1, <1>2 DEF poolVars, control, workers
<1>3. CASE \E r \in Pools : (\E l \in Lists : StartRun(r, l)) \/ WaitRun(r) \/ Shutdown(r)
  BY <1>1, <1>3 DEF StartRun, WaitRun, Shutdown, control, workers
<1>4. CASE InPool
  <2>1. CASE Launch
    BY <2>1, LaunchForks
  <2>2. CASE ~Launch
    BY <1>1, <1>4, <2>2 DEF InPool, Rebuild, CreateWorker, Notify, Await, Stop, JoinWorkers, control,
       workers
  <2>3. QED
    BY <2>1, <2>2
<1>5. CASE \E w \in Workers : Work(w) \/ JobDone(w)
  <2>1. CASE \E w \in Workers : Wake(w)
    BY <1>1, <2>1 DEF Wake, control
  <2>2. QED
    BY <1>5, <2>1, TakeBegins, FinishJoins, JobDoneEnds DEF Work
<1>6. CASE \E t \in Workers \cup {Main} : Spurious(t)
  BY <1>1, <1>6 DEF Spurious, control, workers
<1>7. QED
  BY <1>2, <1>3, <1>4, <1>5, <1>6 DEF PoolNext

\* A generation begins only when every worker of the pool is at its wait.
LEMMA PoolGenerations ==
    ASSUME PoolInv, [PoolNext]_poolVars, NEW p \in Pools, generation'[p] # generation[p]
    PROVE  \A w \in WorkersOf(p) : wpc[w] = "idle" /\ seen[w] = generation[p]
<1>1. CASE UNCHANGED generation
  BY <1>1
<1>2. CASE Launch
  <2>1. TypeOK /\ mpc = "begin" /\ ~stopping[mpool] /\ mpool \in Pools
    BY <1>2 DEF PoolInv, TypeOK, Phase, Launch
  <2>2. Started(mpool) /\ Quiet(mpool) /\ generation' = [generation EXCEPT ![mpool] = @ + 1]
    BY <1>1, <1>2 DEF Launch, control
  <2>3. p = mpool
    BY <2>1, <2>2 DEF TypeOK
  <2>4. QED
    BY <2>1, <2>2, <2>3, AllIdle
<1>3. CASE Stop
  <2>1. TypeOK /\ mpool \in Pools /\ ~stopping[mpool] /\ Started(mpool) /\ Quiet(mpool)
    BY <1>3 DEF PoolInv, TypeOK, Phase, Stop
  <2>2. p = mpool
    BY <1>3, <2>1 DEF Stop, TypeOK
  <2>3. QED
    BY <2>1, <2>2, AllIdle
<1>4. CASE UNCHANGED poolVars
  BY <1>1, <1>4 DEF poolVars, control
<1>5. CASE PoolNext
  <2>1. CASE InPool
    BY <1>1, <1>2, <1>3, <2>1 DEF InPool, Rebuild, CreateWorker, Notify, Await, JoinWorkers, control
  <2>2. CASE ~InPool
    BY <1>1, <1>5, <2>2 DEF PoolNext, StartRun, WaitRun, Shutdown, Work, Wake, Take, Finish, JobDone,
       Spurious, control
  <2>3. QED
    BY <2>1, <2>2
<1>6. QED
  BY <1>4, <1>5

-----------------------------------------------------------------------------
\* Every step of the hybrid solver is a step of its pools, or leaves them alone.
LEMMA HybridPoolStep == [Next]_vars => [PoolNext]_poolVars
<1> SUFFICES ASSUME Next \/ UNCHANGED vars PROVE PoolNext \/ UNCHANGED poolVars
  OBVIOUS
<1>1. High \in Pools /\ Low \in Pools /\ HighList \in Lists /\ LowList \in Lists
  BY HybridAssumption
<1>2. CASE UNCHANGED vars
  BY <1>2 DEF vars
<1>3. CASE MainStep
  <2>1. CASE InPool
    BY <2>1 DEF PoolNext
  <2>2. CASE ~InPool
    BY <1>1, <1>3, <2>2 DEF MainStep, BeginRow, GpuBegin, GpuEnd, GpuOver, HighWait, LowStart, LowWait,
       RowOver, ReadAnswer, Release, Destroy, PoolNext
  <2>3. QED
    BY <2>1, <2>2
<1>4. CASE \E w \in Workers : WorkerStep(w)
  BY <1>4 DEF WorkerStep, WorkerJobDone, PoolNext
<1>5. CASE WakeSpuriously
  BY <1>5 DEF WakeSpuriously, PoolNext
<1>6. CASE Over
  BY <1>6 DEF Over, vars
<1>7. QED
  BY <1>2, <1>3, <1>4, <1>5, <1>6 DEF Next

LEMMA PoolInvariant == Spec => []PoolInv
<1>1. Init => PoolInv
  BY InitPool DEF Init
<1>2. PoolInv /\ [Next]_vars => PoolInv'
  BY HybridPoolStep, NextPool
<1>3. QED
  BY <1>1, <1>2, PTL DEF Spec

(***************************************************************************)
(* However many workers there are and however the operating system runs    *)
(* them: a pool begins a generation, or is stopped, only when all of its   *)
(* workers have seen the one before and are back at their wait.            *)
(***************************************************************************)
THEOREM PoolsKeepGenerations == Spec => GenerationsInOrder
<1>1. PoolInv /\ [Next]_vars =>
         \A p \in Pools : generation'[p] # generation[p] =>
            \A w \in WorkersOf(p) : wpc[w] = "idle" /\ seen[w] = generation[p]
  BY HybridPoolStep, PoolGenerations
<1>2. PoolInv /\ [Next]_vars =>
         [\A p \in Pools : generation'[p] # generation[p] =>
            \A w \in WorkersOf(p) : wpc[w] = "idle" /\ seen[w] = generation[p]]_vars
  BY <1>1
<1>3. QED
  BY <1>2, PoolInvariant, PTL DEF Spec, GenerationsInOrder

(***************************************************************************)
(* The HIGH pool implements ForkJoin: each job of a run is taken by one    *)
(* worker, once, and the run is over when every job is done.               *)
(***************************************************************************)
THEOREM HighPoolForkJoin == Spec => HighForkJoin
<1>1. High \in Pools
  BY HybridAssumption
<1>2. Init => HighFJ!Init
  BY <1>1 DEF Init, PoolInit, HighFJ!Init, Todo, Doing, WorkersOf
<1>3. PoolInv /\ [Next]_vars => [HighFJ!Next]_(HighFJ!vars)
  <2> SUFFICES ASSUME PoolInv, [Next]_vars PROVE HighFJ!Next \/ UNCHANGED HighFJ!vars
    OBVIOUS
  <2>1. ForkJoinStep(High)
    BY <1>1, HybridPoolStep, PoolForkJoin
  <2>2. QED
    BY <2>1 DEF ForkJoinStep, Still, Resting, HighFJ!Next, HighFJ!vars, HighFJ!Fork, HighFJ!Begin,
       HighFJ!End, HighFJ!Join
<1>4. QED
  BY <1>2, <1>3, PoolInvariant, PTL DEF Spec, HighForkJoin, HighFJ!Spec

(***************************************************************************)
(* The LOW pool implements ForkJoin in each of its schedules, the shared   *)
(* list of the caller and the lists of its own for every worker.           *)
(***************************************************************************)
THEOREM LowPoolForkJoin == Spec => LowForkJoin
<1>1. Low \in Pools
  BY HybridAssumption
<1>2. Init => LowFJ!Init
  BY <1>1 DEF Init, PoolInit, LowFJ!Init, Todo, Doing, WorkersOf
<1>3. PoolInv /\ [Next]_vars => [LowFJ!Next]_(LowFJ!vars)
  <2> SUFFICES ASSUME PoolInv, [Next]_vars PROVE LowFJ!Next \/ UNCHANGED LowFJ!vars
    OBVIOUS
  <2>1. ForkJoinStep(Low)
    BY <1>1, HybridPoolStep, PoolForkJoin
  <2>2. QED
    BY <2>1 DEF ForkJoinStep, Still, Resting, LowFJ!Next, LowFJ!vars, LowFJ!Fork, LowFJ!Begin,
       LowFJ!End, LowFJ!Join
<1>4. QED
  BY <1>2, <1>3, PoolInvariant, PTL DEF Spec, LowForkJoin, LowFJ!Spec

-----------------------------------------------------------------------------
\* What the constants say of the two pools and their lists.
LEMMA Setting ==
    /\ High \in Pools /\ Low \in Pools /\ High # Low /\ (\A p \in Pools : p = High \/ p = Low)
    /\ HighList \in Lists /\ LowList \in Lists /\ HighList # None /\ LowList # None
    /\ Contents[HighList] = Selected /\ Contents[LowList] = LowGroups /\ LowGroups # {}
    /\ Selected \subseteq HighGroups /\ GpuGroups \subseteq HighGroups
    /\ Selected \cap GpuGroups = {} /\ Selected \cup GpuGroups = HighGroups
    /\ HighGroups \cap LowGroups = {} /\ None \notin HighGroups /\ None \notin LowGroups
    /\ Answer \in Cells /\ Rows \in Nat /\ Rows > 0
  BY HybridAssumption, PoolAssumption DEF GpuGroups

\* The jobs at work and the jobs done are jobs of the run.
LEMMA JobsOfRun ==
    ASSUME PoolInv, NEW p \in Pools
    PROVE  /\ inFlight[p] => \A w \in WorkersOf(p) : job[w] # None => job[w] \in Contents[run[p]]
           /\ inFlight[p] \/ run[p] # None => done[p] \subseteq Contents[run[p]]
<1>1. ASSUME inFlight[p], NEW j, IsGiven(p, j) PROVE j \in Contents[run[p]]
  <2>1. TypeOK /\ run[p] \in Lists /\ GivesOutOnce(run[p], QueuesOf(p)) /\ QueuesOf(p) \subseteq Queues
    BY <1>1, QueueFacts DEF PoolInv, Scheduled
  <2>2. PICK q \in QueuesOf(p) : \E i \in 1 .. next[q] : lists[q][i] = j
    BY <1>1 DEF IsGiven
  <2>3. /\ lists[q] = Plan[run[p]][q] /\ next[q] <= Len(lists[q])
        /\ lists[q] \in Seq(Jobs) /\ next[q] \in Nat
    BY <1>1, <2>1 DEF PoolInv, Scheduled, TypeOK
  <2>4. PICK i \in DOMAIN Plan[run[p]][q] : Plan[run[p]][q][i] = j
    BY <2>2, <2>3
  <2>5. QED
    BY <2>1, <2>4 DEF GivesOutOnce
<1>2. QED
  BY <1>1 DEF PoolInv, Scheduled

\* Who is at work belongs to a run in flight.
LEMMA WorkInFlight ==
    ASSUME PoolInv, NEW w \in Workers, job[w] # None
    PROVE  /\ PoolOf[w] \in Pools /\ w \in WorkersOf(PoolOf[w]) /\ inFlight[PoolOf[w]]
           /\ job[w] \in Contents[run[PoolOf[w]]] /\ job[w] \notin done[PoolOf[w]]
<1>1. PoolOf[w] \in Pools /\ w \in WorkersOf(PoolOf[w])
  BY PoolAssumption DEF WorkersOf
<1>2. wpc[w] = "work"
  BY <1>1 DEF PoolInv, Scheduled
<1>3. inFlight[PoolOf[w]]
  BY <1>2, Working
<1>4. QED
  BY <1>1, <1>3, JobsOfRun DEF PoolInv, Scheduled

LEMMA LevelsKept ==
    ASSUME Levels, HighDone' = HighDone, LowDone' = LowDone, UNCHANGED <<row, level>>
    PROVE  Levels'
  BY DEF Levels

\* A job takes the cells of its group, and no others, one window further.
LEMMA Applied ==
    ASSUME HybridTypeOK, NEW j, Apply(j)
    PROVE  /\ level' \in [Cells -> Nat]
           /\ \A g \in HighGroups, k \in LowGroups :
                 level'[<<g, k>>] = level[<<g, k>>] + (IF j = g \/ j = k THEN 1 ELSE 0)
<1>1. level \in [Cells -> Nat] /\ level' = [c \in Cells |-> IF j \in {c[1], c[2]} THEN level[c] + 1
                                                             ELSE level[c]]
  BY DEF HybridTypeOK, Apply
<1>2. level' \in [Cells -> Nat]
  BY <1>1
<1>3. ASSUME NEW g \in HighGroups, NEW k \in LowGroups
      PROVE  level'[<<g, k>>] = level[<<g, k>>] + (IF j = g \/ j = k THEN 1 ELSE 0)
  <2>1. <<g, k>> \in Cells /\ <<g, k>>[1] = g /\ <<g, k>>[2] = k
    BY DEF Cells
  <2>2. level[<<g, k>>] \in Nat
    BY <1>1, <2>1
  <2>3. level'[<<g, k>>] = IF j \in {g, k} THEN level[<<g, k>>] + 1 ELSE level[<<g, k>>]
    BY <1>1, <2>1
  <2>4. QED
    BY <2>2, <2>3
<1>4. QED
  BY <1>2, <1>3

\* A job of the HIGH window that was not done yet now is.
LEMMA HighAdvances ==
    ASSUME LoopInv, NEW j \in HighGroups, j \notin HighDone, Apply(j), UNCHANGED row,
           HighDone' = HighDone \cup {j}, LowDone' = LowDone
    PROVE  Levels'
<1>1. HybridTypeOK /\ Levels /\ row \in Nat
  BY Setting DEF LoopInv, HybridTypeOK
<1>2. ASSUME NEW g \in HighGroups, NEW k \in LowGroups
      PROVE  level'[<<g, k>>] = 2 * row' + (IF g \in HighDone' THEN 1 ELSE 0)
                                         + (IF k \in LowDone' THEN 1 ELSE 0)
  <2>1. level'[<<g, k>>] = level[<<g, k>>] + (IF j = g THEN 1 ELSE 0)
    BY <1>1, Applied, Setting
  <2>2. level[<<g, k>>] = 2 * row + (IF g \in HighDone THEN 1 ELSE 0) + (IF k \in LowDone THEN 1 ELSE 0)
    BY <1>1 DEF Levels
  <2>3. QED
    BY <1>1, <2>1, <2>2
<1>3. QED
  BY <1>2 DEF Levels

\* The same for the LOW window.
LEMMA LowAdvances ==
    ASSUME LoopInv, NEW j \in LowGroups, j \notin LowDone, Apply(j), UNCHANGED row,
           LowDone' = LowDone \cup {j}, HighDone' = HighDone
    PROVE  Levels'
<1>1. HybridTypeOK /\ Levels /\ row \in Nat
  BY Setting DEF LoopInv, HybridTypeOK
<1>2. ASSUME NEW g \in HighGroups, NEW k \in LowGroups
      PROVE  level'[<<g, k>>] = 2 * row' + (IF g \in HighDone' THEN 1 ELSE 0)
                                         + (IF k \in LowDone' THEN 1 ELSE 0)
  <2>1. level'[<<g, k>>] = level[<<g, k>>] + (IF j = k THEN 1 ELSE 0)
    BY <1>1, Applied, Setting
  <2>2. level[<<g, k>>] = 2 * row + (IF g \in HighDone THEN 1 ELSE 0) + (IF k \in LowDone THEN 1 ELSE 0)
    BY <1>1 DEF Levels
  <2>3. QED
    BY <1>1, <2>1, <2>2
<1>3. QED
  BY <1>2 DEF Levels

-----------------------------------------------------------------------------
\* A worker is done with a job of the HIGH or the LOW list.
LEMMA JobDoneLoop ==
    ASSUME LoopInv, PoolInv', NEW w \in Workers, WorkerJobDone(w)
    PROVE  LoopInv'
<1> DEFINE p == PoolOf[w]
           j == job[w]
<1>1. /\ PoolInv /\ HybridTypeOK /\ LoopPhase /\ Levels /\ TypeOK /\ wpc[w] = "work"
      /\ done' = [done EXCEPT ![p] = @ \cup {j}] /\ Apply(j)
      /\ UNCHANGED <<schedule, control, asleep, main, overlap, hpc, row, gpuDone, gpuJob, answer, freed>>
  BY DEF LoopInv, PoolInv, WorkerJobDone, JobDone
<1>2. j # None
  BY <1>1, Working DEF PoolInv, Scheduled
<1>3. /\ p \in Pools /\ inFlight[p] /\ j \in Contents[run[p]] /\ j \notin done[p]
  BY <1>1, <1>2, WorkInFlight
<1>4. \A r \in Pools : done'[r] = IF r = p THEN done[p] \cup {j} ELSE done[r]
  BY <1>1 DEF TypeOK
<1>5. HybridTypeOK'
  BY <1>1, Applied DEF HybridTypeOK, PoolInv
<1>6. HighLive' = HighLive /\ LowLive' = LowLive
  BY <1>1 DEF HighLive, LowLive, Overlapped, main
<1>7. LoopPhase'
  BY <1>1, <1>6 DEF LoopPhase, Overlapped, main, control, schedule
<1>8. Levels'
  <2>1. CASE p = High
    <3>1. HighLive /\ j \in Selected /\ hpc \in {"gpu", "high_wait", "low"}
      BY <1>1, <1>3, <2>1, Setting DEF LoopPhase
    <3>2. j \in HighGroups /\ j \notin HighDone
      BY <1>1, <1>3, <2>1, <3>1, Setting DEF HighDone, HybridTypeOK
    <3>3. HighDone' = HighDone \cup {j}
      BY <1>1, <1>4, <1>6, <2>1, <3>1, Setting DEF HighDone
    <3>4. LowDone' = LowDone
      BY <1>4, <1>6, <2>1, Setting DEF LowDone
    <3>5. QED
      BY <1>1, <3>2, <3>3, <3>4, HighAdvances
  <2>2. CASE p = Low
    <3>1. LowLive /\ j \in LowGroups
      BY <1>1, <1>3, <2>2, Setting DEF LoopPhase
    <3>2. j \notin LowDone
      BY <1>3, <2>2, <3>1 DEF LowDone
    <3>3. LowDone' = LowDone \cup {j}
      BY <1>4, <1>6, <2>2, <3>1, Setting DEF LowDone
    <3>4. HighDone' = HighDone
      BY <1>1, <1>4, <1>6, <2>2, Setting DEF HighDone
    <3>5. QED
      BY <1>1, <3>1, <3>2, <3>3, <3>4, LowAdvances
  <2>3. QED
    BY <1>3, <2>1, <2>2, Setting
<1>9. QED
  BY <1>5, <1>7, <1>8 DEF LoopInv

\* The other steps of the workers only can end a run.
LEMMA WorkLoop ==
    ASSUME LoopInv, PoolInv', NEW w \in Workers, Work(w), UNCHANGED loopVars
    PROVE  LoopInv'
<1>1. /\ PoolInv /\ HybridTypeOK /\ LoopPhase /\ Levels /\ TypeOK
  BY DEF LoopInv, PoolInv
<1>2. UNCHANGED <<mode, run, done, main, loopVars>>
  BY DEF Work, Wake, Take, Finish, schedule, control
<1>3. \A p \in Pools : inFlight'[p] => inFlight[p]
  BY <1>1 DEF Work, Wake, Take, Finish, control, TypeOK
<1>4. HighLive' = HighLive /\ LowLive' = LowLive
  BY <1>2 DEF HighLive, LowLive, Overlapped, main, loopVars
<1>5. LoopPhase'
  BY <1>1, <1>2, <1>3, <1>4, Setting DEF LoopPhase, Overlapped, main, loopVars, PoolInv, TypeOK
<1>6. Levels'
  BY <1>1, <1>2, <1>4, LevelsKept DEF HighDone, LowDone, loopVars
<1>7. HybridTypeOK'
  BY <1>1, <1>2 DEF HybridTypeOK, PoolInv, loopVars
<1>8. QED
  BY <1>5, <1>6, <1>7 DEF LoopInv

\* The main thread inside a pool: a run is never refused, and begins with nothing done.
LEMMA InPoolLoop ==
    ASSUME LoopInv, PoolInv', InPool, UNCHANGED loopVars
    PROVE  LoopInv'
<1>1. /\ PoolInv /\ HybridTypeOK /\ LoopPhase /\ Levels /\ TypeOK
      /\ mpool \in Pools /\ (mpool = High \/ mpool = Low)
  BY Setting DEF LoopInv, PoolInv, TypeOK
<1>2. HybridTypeOK'
  BY <1>1 DEF HybridTypeOK, PoolInv, loopVars
<1>3. CASE ~Launch
  <2>1. UNCHANGED <<mode, run, inFlight, done, mpool, mlist>>
    BY <1>3 DEF InPool, Rebuild, CreateWorker, Notify, Await, Stop, JoinWorkers, schedule, control,
       workers, main
  <2>2. \/ UNCHANGED mpc
        \/ mpc = "drain" /\ mpc' = "begin"
        \/ mpc = "notify" /\ mpc' = "out"
        \/ mpc = "rouse" /\ mpc' = "join"
        \/ mpc = "wait" /\ mpc' = "out" /\ Quiet(mpool)
        \/ mpc = "shut" /\ mpc' = "stop"
        \/ mpc = "stop" /\ mpc' = "rouse"
        \/ mpc = "join" /\ mpc' = "out"
    BY <1>3 DEF InPool, Rebuild, CreateWorker, Notify, Await, Stop, JoinWorkers, main
  <2>3. HighLive' = HighLive /\ LowLive' = LowLive
    BY <2>1, <2>2 DEF HighLive, LowLive, Overlapped, loopVars
  <2>4. LoopPhase'
    BY <1>1, <2>1, <2>2, <2>3, Setting DEF LoopPhase, Overlapped, Quiet, loopVars
  <2>5. Levels'
    BY <1>1, <2>1, <2>3, LevelsKept DEF HighDone, LowDone, loopVars
  <2>6. QED
    BY <1>2, <2>4, <2>5 DEF LoopInv
<1>4. CASE Launch
  <2>1. mpc = "begin" /\ ~stopping[mpool] /\ ~inFlight[mpool]
    BY <1>1, <1>4 DEF Launch, PoolInv, Phase, LoopPhase
  <2>2. Quiet(mpool) /\ Contents[mlist] # {}
    <3>1. Busy(mpool) = {} /\ pending[mpool] = Cardinality(Busy(mpool))
      BY <1>1, <2>1 DEF PoolInv, Counted
    <3>2. Contents[mlist] # {}
      BY <1>1, <2>1, Setting DEF LoopPhase
    <3>3. QED
      BY <2>1, <3>1, <3>2, FS_EmptySet DEF Quiet
  <2>3. /\ run' = [run EXCEPT ![mpool] = mlist]
        /\ inFlight' = [inFlight EXCEPT ![mpool] = TRUE]
        /\ done' = [done EXCEPT ![mpool] = {}]
        /\ mpc' = "notify"
        /\ UNCHANGED <<mode, mpool, mlist>>
    BY <2>2, <1>4 DEF Launch
  <2>4. \A p \in Pools : /\ run'[p] = IF p = mpool THEN mlist ELSE run[p]
                         /\ inFlight'[p] = IF p = mpool THEN TRUE ELSE inFlight[p]
                         /\ done'[p] = IF p = mpool THEN {} ELSE done[p]
    BY <1>1, <2>3 DEF TypeOK
  <2>5. CASE mpool = High
    <3>1. /\ mlist = HighList /\ Selected # {} /\ ((hpc = "gpu" /\ Overlapped) \/ hpc = "high_wait")
      BY <1>1, <2>1, <2>5, Setting DEF LoopPhase
    <3>2. ~HighLive /\ HighLive' /\ ~LowLive /\ ~LowLive'
      BY <2>1, <2>3, <2>5, <3>1 DEF HighLive, LowLive, Overlapped, loopVars
    <3>3. HighDone' = HighDone /\ LowDone' = LowDone
      BY <2>4, <2>5, <3>2, Setting DEF HighDone, LowDone, loopVars
    <3>4. LoopPhase'
      BY <1>1, <2>1, <2>3, <2>4, <2>5, <3>1, <3>2, Setting DEF LoopPhase, Overlapped, loopVars
    <3>5. QED
      BY <1>1, <1>2, <3>3, <3>4, LevelsKept DEF LoopInv, loopVars
  <2>6. CASE mpool = Low
    <3>1. mlist = LowList /\ hpc = "low_wait"
      BY <1>1, <2>1, <2>6, Setting DEF LoopPhase
    <3>2. HighLive' = HighLive /\ ~LowLive /\ LowLive'
      BY <2>1, <2>3, <2>6, <3>1, Setting DEF HighLive, LowLive, Overlapped, loopVars
    <3>3. HighDone' = HighDone /\ LowDone' = LowDone
      BY <2>4, <2>6, <3>2, Setting DEF HighDone, LowDone, loopVars
    <3>4. LoopPhase'
      BY <1>1, <2>1, <2>3, <2>4, <2>6, <3>1, <3>2, Setting DEF LoopPhase, Overlapped, loopVars
    <3>5. QED
      BY <1>1, <1>2, <3>3, <3>4, LevelsKept DEF LoopInv, loopVars
  <2>7. QED
    BY <1>1, <2>5, <2>6
<1>5. QED
  BY <1>3, <1>4

-----------------------------------------------------------------------------
\* start_run with a list that is not empty enters the pool.
LEMMA StartRunEnters ==
    ASSUME LoopInv, NEW p \in Pools, NEW l \in Lists, StartRun(p, l), Contents[l] # {}
    PROVE  /\ mpc' \in {"drain", "begin"} /\ mpool' = p /\ mlist' = l
           /\ UNCHANGED <<mode, run, inFlight, done, stopping, job>>
  BY DEF StartRun, schedule, control, workers

\* What the row loop knows at the end of a row: both windows are complete.
LEMMA RowComplete ==
    ASSUME LoopInv, mpc \notin {"drain", "begin"}, hpc = "row", ~inFlight[Low]
    PROVE  HighDone = HighGroups /\ LowDone = LowGroups
<1>1. /\ PoolInv /\ LoopPhase /\ ~inFlight[High] /\ gpuDone = GpuGroups
  BY DEF LoopInv, LoopPhase
<1>2. LowLive /\ run[Low] = LowList /\ (Selected # {} => HighLive /\ run[High] = HighList)
  BY <1>1 DEF HighLive, LowLive, LoopPhase
<1>3. done[Low] = LowGroups /\ (Selected # {} => done[High] = Selected)
  BY <1>1, <1>2, Setting DEF PoolInv, Scheduled
<1>4. LowDone = LowGroups
  BY <1>2, <1>3 DEF LowDone
<1>5. HighDone = GpuGroups \cup Selected
  BY <1>1, <1>2, <1>3 DEF HighDone, HighLive
<1>6. QED
  BY <1>4, <1>5, Setting

LEMMA BeginRowLoop ==
    ASSUME LoopInv, PoolInv', BeginRow
    PROVE  LoopInv'
<1>1. /\ PoolInv /\ HybridTypeOK /\ LoopPhase /\ Levels /\ TypeOK
      /\ mpc = "out" /\ hpc = "high" /\ hpc' = "gpu" /\ gpuDone' = {}
      /\ UNCHANGED <<overlap, row, gpuJob, level, answer, freed>>
  BY DEF LoopInv, PoolInv, BeginRow, At, Goto
<1>2. /\ UNCHANGED <<mode, run, inFlight, done>>
      /\ IF Overlapped THEN mpc' \in {"drain", "begin"} /\ mpool' = High /\ mlist' = HighList
         ELSE UNCHANGED <<mpc, mpool, mlist>>
  BY StartRunEnters, Setting DEF BeginRow, Overlapped, poolVars, schedule, control, workers, main
<1>3. ~HighLive /\ ~HighLive' /\ ~LowLive /\ ~LowLive'
  BY <1>1, <1>2 DEF HighLive, LowLive, Overlapped
<1>4. HighDone' = HighDone /\ LowDone' = LowDone
  BY <1>1, <1>3 DEF HighDone, LowDone
<1>5. LoopPhase'
  BY <1>1, <1>2, <1>3, Setting DEF LoopPhase, Overlapped
<1>6. HybridTypeOK'
  BY <1>1 DEF HybridTypeOK, PoolInv
<1>7. QED
  BY <1>1, <1>4, <1>5, <1>6, LevelsKept DEF LoopInv

LEMMA GpuBeginLoop ==
    ASSUME LoopInv, PoolInv', NEW g \in HighGroups, GpuBegin(g)
    PROVE  LoopInv'
<1>1. /\ PoolInv /\ HybridTypeOK /\ LoopPhase /\ Levels
      /\ hpc = "gpu" /\ g \in GpuGroups \ gpuDone /\ gpuJob' = g
      /\ UNCHANGED <<poolVars, overlap, hpc, row, gpuDone, level, answer, freed>>
  BY DEF LoopInv, GpuBegin, At
<1>2. UNCHANGED <<mode, run, inFlight, done, mpc, mpool, mlist>>
  BY <1>1 DEF poolVars, schedule, control, workers, main
<1>3. HighLive' = HighLive /\ LowLive' = LowLive
  BY <1>1, <1>2 DEF HighLive, LowLive, Overlapped
<1>4. LoopPhase'
  BY <1>1, <1>2, <1>3 DEF LoopPhase, Overlapped
<1>5. HighDone' = HighDone /\ LowDone' = LowDone
  BY <1>1, <1>2, <1>3 DEF HighDone, LowDone
<1>6. HybridTypeOK'
  BY <1>1 DEF HybridTypeOK, PoolInv
<1>7. QED
  BY <1>1, <1>4, <1>5, <1>6, LevelsKept DEF LoopInv

LEMMA GpuEndLoop ==
    ASSUME LoopInv, PoolInv', GpuEnd
    PROVE  LoopInv'
<1>1. /\ PoolInv /\ HybridTypeOK /\ LoopPhase /\ Levels
      /\ gpuJob # None /\ Apply(gpuJob) /\ gpuDone' = gpuDone \cup {gpuJob} /\ gpuJob' = None
      /\ UNCHANGED <<poolVars, overlap, hpc, row, answer, freed>>
  BY DEF LoopInv, GpuEnd
<1>2. UNCHANGED <<mode, run, inFlight, done, mpc, mpool, mlist>>
  BY <1>1 DEF poolVars, schedule, control, workers, main
<1>3. hpc = "gpu" /\ gpuJob \in GpuGroups /\ gpuJob \notin gpuDone
  BY <1>1 DEF LoopPhase, HybridTypeOK
<1>4. HighLive' = HighLive /\ LowLive' = LowLive
  BY <1>1, <1>2 DEF HighLive, LowLive, Overlapped
<1>5. LoopPhase'
  BY <1>1, <1>2, <1>3, <1>4 DEF LoopPhase, Overlapped
<1>6. HighLive => done[High] \subseteq Selected
  BY <1>1, JobsOfRun, Setting DEF LoopPhase
<1>7. gpuJob \in HighGroups /\ gpuJob \notin HighDone
  BY <1>3, <1>6, Setting DEF HighDone
<1>8. HighDone' = HighDone \cup {gpuJob} /\ LowDone' = LowDone
  BY <1>1, <1>2, <1>3, <1>4 DEF HighDone, LowDone
<1>9. HybridTypeOK'
  BY <1>1, <1>3, Applied DEF HybridTypeOK, PoolInv
<1>10. Levels'
  BY <1>1, <1>7, <1>8, HighAdvances
<1>11. QED
  BY <1>5, <1>9, <1>10 DEF LoopInv

LEMMA GpuOverLoop ==
    ASSUME LoopInv, PoolInv', GpuOver
    PROVE  LoopInv'
<1>1. /\ PoolInv /\ HybridTypeOK /\ LoopPhase /\ Levels
      /\ mpc = "out" /\ hpc = "gpu" /\ gpuJob = None /\ gpuDone = GpuGroups
      /\ UNCHANGED <<overlap, row, gpuDone, gpuJob, level, answer, freed>>
  BY DEF LoopInv, GpuOver, At
<1>2. /\ UNCHANGED <<mode, run, inFlight, done>>
      /\ \/ Overlapped /\ mpc' = "wait" /\ mpool' = High /\ hpc' = "low"
         \/ /\ ~Overlapped /\ Selected # {} /\ mpc' \in {"drain", "begin"}
            /\ mpool' = High /\ mlist' = HighList /\ hpc' = "high_wait"
         \/ Selected = {} /\ hpc' = "low" /\ UNCHANGED <<mpc, mpool, mlist>>
  <2>1. CASE Overlapped /\ WaitRun(High) /\ Goto("low")
    BY <2>1 DEF WaitRun, Goto, schedule, control, workers
  <2>2. CASE ~Overlapped /\ Selected # {} /\ StartRun(High, HighList) /\ Goto("high_wait")
    BY <2>2, StartRunEnters, Setting DEF Goto
  <2>3. CASE Selected = {} /\ Goto("low") /\ UNCHANGED poolVars
    BY <2>3 DEF Goto, poolVars, schedule, control, workers, main
  <2>4. QED
    BY <2>1, <2>2, <2>3 DEF GpuOver
<1>3. HighLive' = HighLive /\ ~LowLive /\ ~LowLive'
  BY <1>1, <1>2 DEF HighLive, LowLive, Overlapped
<1>4. HighDone' = HighDone /\ LowDone' = LowDone
  BY <1>1, <1>2, <1>3 DEF HighDone, LowDone
<1>5. LoopPhase'
  <2>1. CASE Overlapped /\ mpc' = "wait" /\ mpool' = High /\ hpc' = "low"
    BY <1>1, <1>2, <1>3, <2>1, Setting DEF LoopPhase, Overlapped, LowLive
  <2>2. CASE /\ ~Overlapped /\ Selected # {} /\ mpc' \in {"drain", "begin"}
             /\ mpool' = High /\ mlist' = HighList /\ hpc' = "high_wait"
    <3>1. ~HighLive
      BY <1>1, <2>2 DEF HighLive
    <3>2. QED
      BY <1>1, <1>2, <1>3, <2>2, <3>1, Setting DEF LoopPhase
  <2>3. CASE Selected = {} /\ hpc' = "low" /\ UNCHANGED <<mpc, mpool, mlist>>
    <3>1. ~HighLive
      BY <1>1, <2>3 DEF HighLive, Overlapped
    <3>2. QED
      BY <1>1, <1>2, <1>3, <2>3, <3>1, Setting DEF LoopPhase
  <2>4. QED
    BY <1>2, <2>1, <2>2, <2>3
<1>6. HybridTypeOK'
  BY <1>1, <1>2 DEF HybridTypeOK, PoolInv
<1>7. QED
  BY <1>1, <1>4, <1>5, <1>6, LevelsKept DEF LoopInv

LEMMA HighWaitLoop ==
    ASSUME LoopInv, PoolInv', HighWait
    PROVE  LoopInv'
<1>1. /\ PoolInv /\ HybridTypeOK /\ LoopPhase /\ Levels
      /\ mpc = "out" /\ hpc = "high_wait" /\ hpc' = "low" /\ mpc' = "wait" /\ mpool' = High
      /\ UNCHANGED <<overlap, row, gpuDone, gpuJob, level, answer, freed>>
      /\ UNCHANGED <<mode, run, inFlight, done>>
  BY DEF LoopInv, HighWait, WaitRun, At, Goto, schedule, control, workers
<1>2. HighLive' = HighLive /\ ~LowLive /\ ~LowLive'
  BY <1>1 DEF HighLive, LowLive
<1>3. HighDone' = HighDone /\ LowDone' = LowDone
  BY <1>1, <1>2 DEF HighDone, LowDone
<1>4. LoopPhase'
  BY <1>1, <1>2, Setting DEF LoopPhase
<1>5. HybridTypeOK'
  BY <1>1 DEF HybridTypeOK, PoolInv
<1>6. QED
  BY <1>1, <1>3, <1>4, <1>5, LevelsKept DEF LoopInv

LEMMA LowStartLoop ==
    ASSUME LoopInv, PoolInv', LowStart
    PROVE  LoopInv'
<1>1. /\ PoolInv /\ HybridTypeOK /\ LoopPhase /\ Levels
      /\ mpc = "out" /\ hpc = "low" /\ hpc' = "low_wait"
      /\ UNCHANGED <<overlap, row, gpuDone, gpuJob, level, answer, freed>>
  BY DEF LoopInv, LowStart, At, Goto
<1>2. /\ mpc' \in {"drain", "begin"} /\ mpool' = Low /\ mlist' = LowList
      /\ UNCHANGED <<mode, run, inFlight, done>>
  BY StartRunEnters, Setting DEF LowStart
<1>3. HighLive' = HighLive /\ ~LowLive /\ ~LowLive'
  BY <1>1, <1>2, Setting DEF HighLive, LowLive
<1>4. HighDone' = HighDone /\ LowDone' = LowDone
  BY <1>1, <1>2, <1>3 DEF HighDone, LowDone
<1>5. LoopPhase'
  BY <1>1, <1>2, <1>3, Setting DEF LoopPhase
<1>6. HybridTypeOK'
  BY <1>1 DEF HybridTypeOK, PoolInv
<1>7. QED
  BY <1>1, <1>4, <1>5, <1>6, LevelsKept DEF LoopInv

LEMMA LowWaitLoop ==
    ASSUME LoopInv, PoolInv', LowWait
    PROVE  LoopInv'
<1>1. /\ PoolInv /\ HybridTypeOK /\ LoopPhase /\ Levels
      /\ mpc = "out" /\ hpc = "low_wait" /\ hpc' = "row" /\ mpc' = "wait" /\ mpool' = Low
      /\ UNCHANGED <<overlap, row, gpuDone, gpuJob, level, answer, freed>>
      /\ UNCHANGED <<mode, run, inFlight, done>>
  BY DEF LoopInv, LowWait, WaitRun, At, Goto, schedule, control, workers
<1>2. HighLive' = HighLive /\ LowLive' = LowLive
  BY <1>1 DEF HighLive, LowLive
<1>3. HighDone' = HighDone /\ LowDone' = LowDone
  BY <1>1, <1>2 DEF HighDone, LowDone
<1>4. LoopPhase'
  BY <1>1, <1>2, Setting DEF LoopPhase
<1>5. HybridTypeOK'
  BY <1>1 DEF HybridTypeOK, PoolInv
<1>6. QED
  BY <1>1, <1>3, <1>4, <1>5, LevelsKept DEF LoopInv

LEMMA RowOverLoop ==
    ASSUME LoopInv, PoolInv', RowOver
    PROVE  LoopInv'
<1>1. /\ PoolInv /\ HybridTypeOK /\ LoopPhase /\ Levels
      /\ mpc = "out" /\ hpc = "row" /\ row' = row + 1
      /\ hpc' = IF row + 1 < Rows THEN "high" ELSE "read"
      /\ UNCHANGED <<poolVars, overlap, gpuDone, gpuJob, level, answer, freed>>
  BY DEF LoopInv, RowOver, At, Goto
<1>2. UNCHANGED <<mode, run, inFlight, done, mpc, mpool, mlist>>
  BY <1>1 DEF poolVars, schedule, control, workers, main
<1>3. row < Rows /\ row \in Nat /\ ~inFlight[Low] /\ ~inFlight[High]
  BY <1>1, Setting DEF LoopPhase, HybridTypeOK
<1>4. HighDone = HighGroups /\ LowDone = LowGroups
  BY <1>1, <1>3, RowComplete
<1>5. ~HighLive' /\ ~LowLive' /\ HighDone' = {} /\ LowDone' = {}
  BY <1>1 DEF HighLive, LowLive, HighDone, LowDone
<1>6. LoopPhase'
  <2>1. row' < Rows \/ row' = Rows
    BY <1>1, <1>3, Setting
  <2>2. IF hpc' \in {"high", "gpu", "high_wait", "low", "low_wait", "row"} THEN row' < Rows
        ELSE row' = Rows
    BY <1>1, <2>1
  <2>3. QED
    BY <1>1, <1>2, <1>3, <1>5, <2>2 DEF LoopPhase
<1>7. Levels'
  <2>1. ASSUME NEW g \in HighGroups, NEW k \in LowGroups
        PROVE  level'[<<g, k>>] = 2 * row' + (IF g \in HighDone' THEN 1 ELSE 0)
                                           + (IF k \in LowDone' THEN 1 ELSE 0)
    <3>1. level[<<g, k>>] = 2 * row + 1 + 1
      BY <1>1, <1>4 DEF Levels
    <3>2. 2 * row' = 2 * row + 2
      BY <1>1, <1>3
    <3>3. QED
      BY <1>1, <1>3, <1>5, <3>1, <3>2
  <2>2. QED
    BY <2>1 DEF Levels
<1>8. HybridTypeOK'
  <2>1. row' \in 0 .. Rows
    BY <1>1, <1>3, Setting
  <2>2. QED
    BY <1>1, <2>1 DEF HybridTypeOK, PoolInv
<1>9. QED
  BY <1>6, <1>7, <1>8 DEF LoopInv

LEMMA ReadAnswerLoop ==
    ASSUME LoopInv, PoolInv', ReadAnswer
    PROVE  LoopInv'
<1>1. /\ PoolInv /\ HybridTypeOK /\ LoopPhase /\ Levels
      /\ mpc = "out" /\ hpc = "read" /\ hpc' = "free" /\ answer' = level[Answer]
      /\ UNCHANGED <<poolVars, overlap, row, gpuDone, gpuJob, level, freed>>
  BY DEF LoopInv, ReadAnswer, At, Goto
<1>2. UNCHANGED <<mode, run, inFlight, done, mpc, mpool, mlist>>
  BY <1>1 DEF poolVars, schedule, control, workers, main
<1>3. HighDone = {} /\ LowDone = {} /\ HighDone' = {} /\ LowDone' = {}
      /\ ~HighLive' /\ ~LowLive'
  BY <1>1 DEF HighLive, LowLive, HighDone, LowDone
<1>4. row = Rows /\ row \in Nat
  BY <1>1, Setting DEF LoopPhase
<1>5. level[Answer] = 2 * Rows
  <2>1. PICK g \in HighGroups, k \in LowGroups : Answer = <<g, k>>
    BY Setting DEF Cells
  <2>2. QED
    BY <1>1, <1>3, <1>4, <2>1 DEF Levels
<1>6. LoopPhase'
  BY <1>1, <1>2, <1>3, <1>5 DEF LoopPhase
<1>7. HybridTypeOK'
  BY <1>1, <1>4, <1>5 DEF HybridTypeOK, PoolInv
<1>8. Levels'
  BY <1>1, <1>3, LevelsKept
<1>9. QED
  BY <1>6, <1>7, <1>8 DEF LoopInv

LEMMA EndLoop ==
    ASSUME LoopInv, PoolInv', Release \/ Destroy
    PROVE  LoopInv'
<1>1. /\ PoolInv /\ HybridTypeOK /\ LoopPhase /\ Levels
      /\ mpc = "out" /\ hpc \in {"free", "dtor_high", "dtor_low"}
      /\ UNCHANGED <<overlap, row, gpuDone, gpuJob, level, answer>>
  BY DEF LoopInv, Release, Destroy, At
<1>2. UNCHANGED <<mode, run, inFlight, done>> /\ freed' \in BOOLEAN
  BY <1>1 DEF Release, Destroy, Shutdown, poolVars, schedule, control, workers, HybridTypeOK
<1>3. \/ hpc' = "dtor_high" /\ mpc' = "out"
      \/ hpc' = "dtor_low" /\ mpool' = High /\ mpc' \in {"out", "shut"}
      \/ hpc' = "end" /\ mpool' = Low /\ mpc' \in {"out", "shut"}
  BY <1>1 DEF Release, Destroy, Shutdown, At, Goto, poolVars, main
<1>4. ~HighLive /\ ~LowLive /\ ~HighLive' /\ ~LowLive' /\ HighDone = {} /\ HighDone' = {}
      /\ LowDone = {} /\ LowDone' = {}
  BY <1>1, <1>3 DEF HighLive, LowLive, HighDone, LowDone
<1>5. LoopPhase'
  BY <1>1, <1>2, <1>3, <1>4 DEF LoopPhase
<1>6. HybridTypeOK'
  BY <1>1, <1>2, <1>3 DEF HybridTypeOK, PoolInv
<1>7. QED
  BY <1>1, <1>4, <1>5, <1>6, LevelsKept DEF LoopInv

\* Steps that leave the loop, and what it reads of the pools, alone.
LEMMA IdleLoop ==
    ASSUME LoopInv, PoolInv', UNCHANGED <<schedule, control, workers, main, loopVars>>
    PROVE  LoopInv'
<1>1. UNCHANGED <<mode, run, inFlight, done, mpc, mpool, mlist, overlap, hpc, row, gpuDone, gpuJob,
                  level, answer, freed>>
  BY DEF schedule, control, workers, main, loopVars
<1>2. HighLive' = HighLive /\ LowLive' = LowLive
  BY <1>1 DEF HighLive, LowLive, Overlapped
<1>3. HighDone' = HighDone /\ LowDone' = LowDone
  BY <1>1, <1>2 DEF HighDone, LowDone
<1>4. LoopPhase' /\ HybridTypeOK'
  BY <1>1, <1>2 DEF LoopInv, LoopPhase, HybridTypeOK, PoolInv, Overlapped
<1>5. QED
  BY <1>1, <1>3, <1>4, LevelsKept DEF LoopInv

LEMMA LoopInvariant == Spec => []LoopInv
<1>1. Init => LoopInv
  <2> SUFFICES ASSUME Init PROVE LoopInv
    OBVIOUS
  <2>1. PoolInv
    BY InitPool DEF Init
  <2>2. ~HighLive /\ ~LowLive /\ HighDone = {} /\ LowDone = {}
    BY DEF Init, HighLive, LowLive, HighDone, LowDone
  <2>3. HybridTypeOK
    <3>1. row \in 0 .. Rows
      BY Setting DEF Init
    <3>2. level \in [Cells -> Nat] /\ overlap \in BOOLEAN /\ freed \in BOOLEAN
      BY DEF Init
    <3>3. TypeOK /\ hpc = "high" /\ gpuDone = {} /\ gpuJob = None /\ answer = None
      BY <2>1 DEF Init, PoolInv
    <3>4. QED
      BY <3>1, <3>2, <3>3 DEF HybridTypeOK
  <2>4. LoopPhase
    BY <2>2, Setting DEF Init, PoolInit, LoopPhase
  <2>5. Levels
    BY <2>2 DEF Init, Levels, Cells
  <2>6. QED
    BY <2>1, <2>3, <2>4, <2>5 DEF LoopInv
<1>2. LoopInv /\ [Next]_vars => LoopInv'
  <2> SUFFICES ASSUME LoopInv, [Next]_vars PROVE LoopInv'
    OBVIOUS
  <2>1. PoolInv'
    BY HybridPoolStep, NextPool DEF LoopInv
  <2>2. CASE MainStep
    BY <2>1, <2>2, BeginRowLoop, GpuBeginLoop, GpuEndLoop, GpuOverLoop, HighWaitLoop, LowStartLoop,
       LowWaitLoop, RowOverLoop, ReadAnswerLoop, EndLoop, InPoolLoop DEF MainStep
  <2>3. CASE \E w \in Workers : WorkerStep(w)
    BY <2>1, <2>3, WorkLoop, JobDoneLoop DEF WorkerStep
  <2>4. CASE WakeSpuriously
    BY <2>1, <2>4, IdleLoop DEF WakeSpuriously, Spurious
  <2>5. CASE Over \/ UNCHANGED vars
    BY <2>1, <2>5, IdleLoop DEF Over, vars, poolVars
  <2>6. QED
    BY <2>2, <2>3, <2>4, <2>5 DEF Next
<1>3. QED
  BY <1>1, <1>2, PTL DEF Spec

\* The HIGH window of the row is complete when a LOW job is at work.
LEMMA LowAlone ==
    ASSUME LoopInv, inFlight[Low]
    PROVE  ~inFlight[High] /\ gpuJob = None /\ HighDone = HighGroups
<1>1. /\ PoolInv /\ LoopPhase /\ hpc \in {"low_wait", "row"} /\ ~inFlight[High] /\ gpuJob = None
      /\ gpuDone = GpuGroups
  BY DEF LoopInv, LoopPhase
<1>2. Selected # {} => HighLive
  BY <1>1 DEF HighLive, LoopPhase
<1>3. HighLive => done[High] = Selected
  BY <1>1, Setting DEF PoolInv, Scheduled, LoopPhase
<1>4. HighDone = GpuGroups \cup Selected
  BY <1>1, <1>2, <1>3 DEF HighDone, HighLive
<1>5. QED
  BY <1>1, <1>4, Setting

\* The cells of a group of the HIGH and of the LOW window.
LEMMA GroupCells ==
    /\ \A j \in HighGroups : \A c \in CellsOf(j) : c = <<j, c[2]>> /\ c[2] \in LowGroups
    /\ \A j \in LowGroups : \A c \in CellsOf(j) : c = <<c[1], j>> /\ c[1] \in HighGroups
  BY Setting DEF CellsOf, Cells

\* Who is at work is a worker with a job of its pool's run, or the GPU.
LEMMA WhoWorks ==
    ASSUME LoopInv, NEW a \in AtWork
    PROVE  \/ /\ a.on \in HighGroups /\ a.on \notin HighDone /\ a.window = 2 * row
              /\ ~inFlight[Low] /\ LowDone = {}
           \/ a.on \in LowGroups /\ a.on \notin LowDone /\ a.window = 2 * row + 1 /\ inFlight[Low]
<1>1. PoolInv /\ LoopPhase /\ HybridTypeOK
  BY DEF LoopInv
<1>2. ASSUME NEW w \in Workers, job[w] # None, a = [by |-> w, on |-> job[w],
                window |-> 2 * row + (IF PoolOf[w] = High THEN 0 ELSE 1)]
      PROVE  \/ /\ a.on \in HighGroups /\ a.on \notin HighDone /\ a.window = 2 * row
                /\ ~inFlight[Low] /\ LowDone = {}
             \/ a.on \in LowGroups /\ a.on \notin LowDone /\ a.window = 2 * row + 1 /\ inFlight[Low]
  <2>1. /\ inFlight[PoolOf[w]] /\ job[w] \in Contents[run[PoolOf[w]]] /\ job[w] \notin done[PoolOf[w]]
        /\ PoolOf[w] = High \/ PoolOf[w] = Low
        /\ a.on = job[w] /\ a.window = 2 * row + (IF PoolOf[w] = High THEN 0 ELSE 1)
        /\ row \in Nat
    BY <1>1, <1>2, WorkInFlight, Setting DEF HybridTypeOK
  <2>2. CASE PoolOf[w] = High
    <3>1. HighLive /\ hpc \in {"gpu", "high_wait", "low"} /\ ~inFlight[Low] /\ job[w] \in Selected
      BY <1>1, <2>1, <2>2, Setting DEF LoopPhase
    <3>2. job[w] \notin HighDone /\ LowDone = {}
      BY <1>1, <2>1, <2>2, <3>1, Setting DEF HighDone, LowDone, LowLive, HybridTypeOK
    <3>3. QED
      BY <2>1, <2>2, <3>1, <3>2, Setting
  <2>3. CASE PoolOf[w] = Low
    <3>1. LowLive /\ job[w] \in LowGroups /\ job[w] \notin LowDone
      BY <1>1, <2>1, <2>3, Setting DEF LoopPhase, LowDone
    <3>2. QED
      BY <2>1, <2>3, <3>1, Setting
  <2>4. QED
    BY <2>1, <2>2, <2>3
<1>3. ASSUME gpuJob # None, a = [by |-> Main, on |-> gpuJob, window |-> 2 * row]
      PROVE  /\ a.on \in HighGroups /\ a.on \notin HighDone /\ a.window = 2 * row
             /\ ~inFlight[Low] /\ LowDone = {}
  <2>1. hpc = "gpu" /\ gpuJob \in GpuGroups /\ gpuJob \notin gpuDone /\ ~inFlight[Low]
    BY <1>1, <1>3 DEF LoopPhase, HybridTypeOK
  <2>2. HighLive => done[High] \subseteq Selected
    BY <1>1, JobsOfRun, Setting DEF LoopPhase
  <2>3. gpuJob \in HighGroups /\ gpuJob \notin HighDone /\ LowDone = {}
    BY <2>1, <2>2, Setting DEF HighDone, LowDone, LowLive
  <2>4. QED
    BY <1>3, <2>1, <2>3
<1>4. QED
  BY <1>2, <1>3 DEF AtWork

\* Two that are at work have different groups.
LEMMA ApartAtWork ==
    ASSUME LoopInv, NEW a \in AtWork, NEW b \in AtWork, a.by # b.by
    PROVE  a.on # b.on
<1>1. PoolInv /\ LoopPhase /\ HybridTypeOK
  BY DEF LoopInv
<1>2. ASSUME NEW v \in Workers, NEW w \in Workers, v # w, job[v] # None, job[w] # None
      PROVE  job[v] # job[w]
  <2>1. /\ inFlight[PoolOf[v]] /\ job[v] \in Contents[run[PoolOf[v]]] /\ v \in WorkersOf(PoolOf[v])
        /\ inFlight[PoolOf[w]] /\ job[w] \in Contents[run[PoolOf[w]]] /\ w \in WorkersOf(PoolOf[w])
        /\ PoolOf[v] \in Pools /\ PoolOf[w] \in Pools
    BY <1>1, <1>2, WorkInFlight
  <2>2. PoolOf[v] = PoolOf[w]
    BY <2>1, LowAlone, Setting
  <2>3. QED
    BY <1>1, <1>2, <2>1, <2>2 DEF PoolInv, Scheduled
<1>3. ASSUME NEW w \in Workers, job[w] # None, gpuJob # None
      PROVE  job[w] # gpuJob
  <2>1. inFlight[PoolOf[w]] /\ job[w] \in Contents[run[PoolOf[w]]] /\ PoolOf[w] \in Pools
    BY <1>1, <1>3, WorkInFlight
  <2>2. PoolOf[w] = High
    BY <1>3, <2>1, LowAlone, Setting
  <2>3. job[w] \in Selected /\ gpuJob \in GpuGroups
    BY <1>1, <1>3, <2>1, <2>2, Setting DEF LoopPhase, HybridTypeOK
  <2>4. QED
    BY <2>3, Setting
<1>4. QED
  BY <1>2, <1>3 DEF AtWork

LEMMA StepInvariant == LoopInv => InStep
<1> SUFFICES ASSUME LoopInv PROVE InStep
  OBVIOUS
<1>1. Levels /\ row \in Nat
  BY Setting DEF LoopInv, HybridTypeOK
<1>2. ASSUME NEW a \in AtWork, NEW c \in CellsOf(a.on) PROVE level[c] = a.window
  <2>1. CASE /\ a.on \in HighGroups /\ a.on \notin HighDone /\ a.window = 2 * row /\ LowDone = {}
    <3>1. c = <<a.on, c[2]>> /\ c[2] \in LowGroups
      BY <1>2, <2>1, GroupCells
    <3>2. level[<<a.on, c[2]>>] = 2 * row
      BY <1>1, <2>1, <3>1 DEF Levels
    <3>3. QED
      BY <2>1, <3>1, <3>2
  <2>2. CASE a.on \in LowGroups /\ a.on \notin LowDone /\ a.window = 2 * row + 1 /\ inFlight[Low]
    <3>1. c = <<c[1], a.on>> /\ c[1] \in HighGroups
      BY <1>2, <2>2, GroupCells
    <3>2. HighDone = HighGroups
      BY <2>2, LowAlone
    <3>3. level[<<c[1], a.on>>] = 2 * row + 1
      BY <1>1, <2>2, <3>1, <3>2 DEF Levels
    <3>4. QED
      BY <2>2, <3>1, <3>3
  <2>3. QED
    BY <2>1, <2>2, WhoWorks
<1>3. ASSUME NEW a \in AtWork, NEW b \in AtWork, a.by # b.by
      PROVE  CellsOf(a.on) \cap CellsOf(b.on) = {}
  <2>1. a.on # b.on
    BY <1>3, ApartAtWork
  <2>2. (a.on \in HighGroups /\ b.on \in HighGroups) \/ (a.on \in LowGroups /\ b.on \in LowGroups)
    BY WhoWorks
  <2>3. CASE a.on \in HighGroups /\ b.on \in HighGroups
    <3>1. ASSUME NEW c \in CellsOf(a.on), c \in CellsOf(b.on) PROVE FALSE
      <4>1. c = <<a.on, c[2]>> /\ c = <<b.on, c[2]>>
        BY <2>3, <3>1, GroupCells
      <4>2. QED
        BY <2>1, <4>1
    <3>2. QED
      BY <3>1
  <2>4. CASE a.on \in LowGroups /\ b.on \in LowGroups
    <3>1. ASSUME NEW c \in CellsOf(a.on), c \in CellsOf(b.on) PROVE FALSE
      <4>1. c = <<c[1], a.on>> /\ c = <<c[1], b.on>>
        BY <2>4, <3>1, GroupCells
      <4>2. QED
        BY <2>1, <4>1
    <3>2. QED
      BY <3>1
  <2>5. QED
    BY <2>2, <2>3, <2>4
<1>4. QED
  BY <1>2, <1>3 DEF InStep

LEMMA AnswerInvariant == LoopInv => AnswerRight
<1> SUFFICES ASSUME LoopInv PROVE AnswerRight
  OBVIOUS
<1>1. PoolInv /\ LoopPhase /\ Levels /\ row \in Nat
  BY Setting DEF LoopInv, HybridTypeOK
<1>2. ASSUME answer # None \/ freed
      PROVE  /\ hpc \in {"free", "dtor_high", "dtor_low", "end"} /\ row = Rows
             /\ HighDone = {} /\ LowDone = {} /\ ~inFlight[High] /\ ~inFlight[Low] /\ gpuJob = None
  BY <1>1, <1>2 DEF LoopPhase, HighDone, LowDone, LowLive
<1>3. ASSUME answer # None, NEW c \in Cells PROVE level[c] = 2 * Rows
  <2>1. PICK g \in HighGroups, k \in LowGroups : c = <<g, k>>
    BY DEF Cells
  <2>2. QED
    BY <1>1, <1>2, <1>3, <2>1 DEF Levels
<1>4. answer # None => answer = 2 * Rows
  BY <1>1 DEF LoopPhase
<1>5. ASSUME freed PROVE AtWork = {}
  <2>1. \A w \in Workers : job[w] = None
    BY <1>1, <1>2, <1>5, WorkInFlight, Setting
  <2>2. QED
    BY <1>2, <1>5, <2>1 DEF AtWork
<1>6. QED
  BY <1>3, <1>4, <1>5 DEF AnswerRight

(***************************************************************************)
(* Every variable of the hybrid solver and of its two pools keeps its      *)
(* type, and the row loop never passes the last row.                       *)
(***************************************************************************)
THEOREM HybridTypes == Spec => []HybridTypeOK
<1>1. LoopInv => HybridTypeOK
  BY DEF LoopInv
<1>2. QED
  BY <1>1, LoopInvariant, PTL

(***************************************************************************)
(* For any number of workers, groups and rows, whichever groups the CPU    *)
(* gets and whether or not it overlaps the GPU: whoever is at work on a    *)
(* group has its cells to itself and finds them exactly as the windows     *)
(* before left them.                                                       *)
(***************************************************************************)
THEOREM WindowsInStep == Spec => [](HybridTypeOK /\ InStep)
<1>1. LoopInv => HybridTypeOK /\ InStep
  BY StepInvariant DEF LoopInv
<1>2. QED
  BY <1>1, LoopInvariant, PTL

(***************************************************************************)
(* The residue that is read has been through both windows of every row,    *)
(* and the vectors are released when nobody is at work on them.            *)
(***************************************************************************)
THEOREM ResidueComplete == Spec => []AnswerRight
  BY AnswerInvariant, LoopInvariant, PTL

(***************************************************************************)
(* No run is refused: the main thread never asks for one while another is  *)
(* in flight, so the solver never leaves through exit(133) or exit(134).   *)
(***************************************************************************)
THEOREM NoRunRefused == Spec => [](mpc # "exited")
<1>1. LoopInv => mpc # "exited"
  BY DEF LoopInv, LoopPhase
<1>2. QED
  BY <1>1, LoopInvariant, PTL
=============================================================================
