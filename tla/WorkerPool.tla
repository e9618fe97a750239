------------------------------ MODULE WorkerPool ------------------------------
(***************************************************************************)
(* The persistent CPU worker pools: CpuHighDirectPersistentPool and        *)
(* CpuLowSparsePersistentPool. Workers sleep on a condition variable until *)
(* the generation changes, work off a schedule, and the last one to finish *)
(* wakes the thread that waits for the run. One main thread owns all the   *)
(* pools of the process and calls start_run, wait_run and, from the        *)
(* destructor, shutdown.                                                   *)
(*                                                                         *)
(* A section under the mutex is one step. A thread blocked on a condition  *)
(* variable is in asleep; it leaves by a notification or spuriously, and   *)
(* then evaluates its predicate again. A job is two steps: taken, and      *)
(* done; in between the worker reads and writes the cells of the job.      *)
(***************************************************************************)
EXTENDS Naturals, Sequences, FiniteSets

CONSTANTS
    Pools,     \* the pools of the process
    Workers,   \* the worker threads of all pools
    Main,      \* the main thread
    PoolOf,    \* the pool of each worker
    Jobs,
    Lists,     \* the job vectors start_run is called with
    Contents,  \* the jobs of each vector; the program never changes a vector
    Plan,      \* Plan[l][q]: the order in which queue q gives out jobs of l
    None

(***************************************************************************)
(* The three ways to give out jobs: "ranked", all workers draw from one    *)
(* list sorted by size (the HIGH pool); "shared", the same on the caller's *)
(* vector (the LOW pool, CPU_LOW_SCHEDULE=dynamic); "static", each worker  *)
(* has a list of its own (sticky, contiguous and domain schedules).        *)
(***************************************************************************)
Modes == {"ranked", "shared", "static"}
Queues == Pools \cup Workers
WorkersOf(p) == {w \in Workers : PoolOf[w] = p}

\* The queues a pool's workers draw from, in each mode.
QueuesIn(p, m) == IF m = "static" THEN WorkersOf(p) ELSE {p}

\* A schedule gives out each job of the vector once.
GivesOutOnce(l, Q) ==
    /\ \A q \in Q : \A i \in DOMAIN Plan[l][q] : Plan[l][q][i] \in Contents[l]
    /\ \A j \in Contents[l] : \E q \in Q : \E i \in DOMAIN Plan[l][q] : Plan[l][q][i] = j
    /\ \A q, r \in Q : \A i \in DOMAIN Plan[l][q], k \in DOMAIN Plan[l][r] :
          Plan[l][q][i] = Plan[l][r][k] => q = r /\ i = k

ASSUME PoolAssumption ==
    /\ Main \notin Workers /\ None \notin Jobs /\ None \notin Lists
    /\ Pools \cap Workers = {}
    /\ IsFiniteSet(Workers)
    /\ PoolOf \in [Workers -> Pools]
    /\ \A p \in Pools : WorkersOf(p) # {}
    /\ Contents \in [Lists -> SUBSET Jobs]
    /\ Plan \in [Lists -> [Queues -> Seq(Jobs)]]
    /\ \A l \in Lists, p \in Pools, m \in Modes : GivesOutOnce(l, QueuesIn(p, m))

VARIABLES
    mode,        \* how each pool gives out jobs, set by its constructor
    source,      \* the vector the schedule of each pool was built from
    lists,       \* the schedule: what is left to give out by each queue ...
    next,        \* ... begins after position next[q]
    run,         \* the vector in run_jobs and the other run_ parameters
    inFlight, pending, generation, stopping,
    wpc,         \* where each worker is
    seen,        \* the last generation each worker has seen
    job,         \* the job each worker is at work on
    asleep,      \* threads blocked on a condition variable
    done,        \* history: the jobs done in the last run
    mpc, mpool, mlist  \* where the main thread is inside a pool, which, its argument

schedule == <<mode, source, lists, next>>
control == <<run, inFlight, pending, generation, stopping>>
workers == <<wpc, seen, job, done>>
main == <<mpc, mpool, mlist>>
poolVars == <<schedule, control, workers, asleep, main>>

QueueOf(w) == IF mode[PoolOf[w]] = "static" THEN w ELSE PoolOf[w]
QueuesOf(p) == QueuesIn(p, mode[p])

TypeOK ==
    /\ mode \in [Pools -> Modes]
    /\ source \in [Pools -> Lists \cup {None}] /\ run \in [Pools -> Lists \cup {None}]
    /\ lists \in [Queues -> Seq(Jobs)] /\ next \in [Queues -> Nat]
    /\ inFlight \in [Pools -> BOOLEAN] /\ stopping \in [Pools -> BOOLEAN]
    /\ pending \in [Pools -> Nat] /\ generation \in [Pools -> Nat]
    /\ wpc \in [Workers -> {"none", "idle", "loop", "work", "finish", "gone"}]
    /\ seen \in [Workers -> Nat]
    /\ job \in [Workers -> Jobs \cup {None}]
    /\ asleep \subseteq Workers \cup {Main}
    /\ done \in [Pools -> SUBSET Jobs]
    /\ mpc \in {"out", "drain", "begin", "notify", "wait", "shut", "stop", "rouse", "join",
                "exited"}
    /\ mpool \in Pools /\ mlist \in Lists

PoolInit ==
    /\ mode \in [Pools -> Modes]
    /\ source = [p \in Pools |-> None] /\ run = [p \in Pools |-> None]
    /\ lists = [q \in Queues |-> <<>>] /\ next = [q \in Queues |-> 0]
    /\ inFlight = [p \in Pools |-> FALSE] /\ stopping = [p \in Pools |-> FALSE]
    /\ pending = [p \in Pools |-> 0] /\ generation = [p \in Pools |-> 0]
    /\ wpc = [w \in Workers |-> "none"] /\ seen = [w \in Workers |-> 0]
    /\ job = [w \in Workers |-> None]
    /\ asleep = {}
    /\ done = [p \in Pools |-> {}]
    /\ mpc = "out" /\ mpool \in Pools /\ mlist \in Lists

-----------------------------------------------------------------------------
\* The predicate of wait_run.
Quiet(p) == ~inFlight[p] /\ pending[p] = 0

Started(p) == \A w \in WorkersOf(p) : wpc[w] # "none"

(***************************************************************************)
(* start_run enters prepare_schedule, which keeps the schedule when it was *)
(* built from this vector and else waits for the run in flight. The LOW    *)
(* pool returns at once from an empty vector.                              *)
(***************************************************************************)
StartRun(p, l) ==
    /\ mpc = "out" /\ ~stopping[p]
    /\ mpc' = CASE mode[p] # "ranked" /\ Contents[l] = {} -> "out"
                [] mode[p] = "shared" \/ source[p] = l -> "begin"
                [] OTHER -> "drain"
    /\ mpool' = p /\ mlist' = l
    /\ UNCHANGED <<schedule, control, workers, asleep>>

\* lists of the pool p, filled from vector l.
Fill(p, l) == [q \in Queues |-> IF q \in QueuesOf(p) THEN Plan[l][q] ELSE lists[q]]

\* prepare_schedule, once the run in flight is over: build the schedule.
Rebuild ==
    /\ mpc = "drain" /\ Main \notin asleep
    /\ IF Quiet(mpool)
       THEN /\ source' = [source EXCEPT ![mpool] = mlist]
            /\ lists' = Fill(mpool, mlist)
            /\ mpc' = "begin"
            /\ UNCHANGED asleep
       ELSE /\ asleep' = asleep \cup {Main}
            /\ UNCHANGED <<source, lists, mpc>>
    /\ UNCHANGED <<mode, next, control, workers, mpool, mlist>>

\* ensure_started: create the workers of the pool, one after the other.
CreateWorker(w) ==
    /\ mpc = "begin" /\ PoolOf[w] = mpool /\ wpc[w] = "none"
    /\ Contents[mlist] # {}
    /\ wpc' = [wpc EXCEPT ![w] = "idle"]
    /\ seen' = [seen EXCEPT ![w] = 0]
    /\ UNCHANGED <<schedule, control, job, done, asleep, main>>

(***************************************************************************)
(* The locked part of start_run: exit(133) when a run is in flight, else   *)
(* set the parameters and the counters and begin a generation.             *)
(***************************************************************************)
Launch ==
    /\ mpc = "begin"
    /\ IF Contents[mlist] = {} \/ (Started(mpool) /\ ~Quiet(mpool))
       THEN /\ mpc' = IF Contents[mlist] = {} THEN "out" ELSE "exited"
            /\ UNCHANGED <<schedule, control, done>>
       ELSE /\ Started(mpool)
            /\ run' = [run EXCEPT ![mpool] = mlist]
            /\ lists' = IF mode[mpool] = "shared" THEN Fill(mpool, mlist) ELSE lists
            /\ next' = [q \in Queues |-> IF q \in QueuesOf(mpool) THEN 0 ELSE next[q]]
            /\ pending' = [pending EXCEPT ![mpool] = Cardinality(WorkersOf(mpool))]
            /\ inFlight' = [inFlight EXCEPT ![mpool] = TRUE]
            /\ generation' = [generation EXCEPT ![mpool] = @ + 1]
            /\ done' = [done EXCEPT ![mpool] = {}]
            /\ mpc' = "notify"
            /\ UNCHANGED <<mode, source, stopping>>
    /\ UNCHANGED <<wpc, seen, job, asleep, mpool, mlist>>

\* Mutant of Notify: notify_one in place of notify_all.
NotifyOne ==
    /\ mpc \in {"notify", "rouse"}
    /\ \/ \E w \in WorkersOf(mpool) \cap asleep : asleep' = asleep \ {w}
       \/ WorkersOf(mpool) \cap asleep = {} /\ UNCHANGED asleep
    /\ mpc' = IF mpc = "notify" THEN "out" ELSE "join"
    /\ UNCHANGED <<schedule, control, workers, mpool, mlist>>

\* start_cv.notify_all, after the unlock, in start_run and in shutdown.
Notify ==
    /\ mpc \in {"notify", "rouse"}
    /\ asleep' = asleep \ WorkersOf(mpool)
    /\ mpc' = IF mpc = "notify" THEN "out" ELSE "join"
    /\ UNCHANGED <<schedule, control, workers, mpool, mlist>>

WaitRun(p) ==
    /\ mpc = "out"
    /\ mpc' = "wait" /\ mpool' = p
    /\ UNCHANGED <<schedule, control, workers, asleep, mlist>>

\* shutdown; a pool that never created workers returns at once.
Shutdown(p) ==
    /\ mpc = "out"
    /\ mpc' = IF \A w \in WorkersOf(p) : wpc[w] = "none" THEN "out" ELSE "shut"
    /\ mpool' = p
    /\ UNCHANGED <<schedule, control, workers, asleep, mlist>>

\* The wait of wait_run, called by the solver or by shutdown.
Await ==
    /\ mpc \in {"wait", "shut"} /\ Main \notin asleep
    /\ IF Quiet(mpool)
       THEN mpc' = (IF mpc = "wait" THEN "out" ELSE "stop") /\ UNCHANGED asleep
       ELSE asleep' = asleep \cup {Main} /\ UNCHANGED mpc
    /\ UNCHANGED <<schedule, control, workers, mpool, mlist>>

Stop ==
    /\ mpc = "stop"
    /\ stopping' = [stopping EXCEPT ![mpool] = TRUE]
    /\ generation' = [generation EXCEPT ![mpool] = @ + 1]
    /\ mpc' = "rouse"
    /\ UNCHANGED <<schedule, run, inFlight, pending, workers, asleep, mpool, mlist>>

\* join every worker and clear the vector of threads.
JoinWorkers ==
    /\ mpc = "join"
    /\ \A w \in WorkersOf(mpool) : wpc[w] = "gone"
    /\ wpc' = [w \in Workers |-> IF PoolOf[w] = mpool THEN "none" ELSE wpc[w]]
    /\ mpc' = "out"
    /\ UNCHANGED <<schedule, control, seen, job, done, asleep, mpool, mlist>>

-----------------------------------------------------------------------------
\* Mutant of Wake: the worker does not note the generation it begins to work for.
WakeUnseen(w) ==
    LET p == PoolOf[w]
    IN  /\ wpc[w] = "idle" /\ w \notin asleep
        /\ IF stopping[p] \/ generation[p] # seen[w]
           THEN wpc' = [wpc EXCEPT ![w] = IF stopping[p] THEN "gone" ELSE "loop"] /\ UNCHANGED asleep
           ELSE asleep' = asleep \cup {w} /\ UNCHANGED wpc
        /\ UNCHANGED <<schedule, control, seen, job, done, main>>

(***************************************************************************)
(* A worker evaluates the predicate of its wait: leave when the pool is    *)
(* stopping, begin to work when the generation is new, else sleep.         *)
(***************************************************************************)
Wake(w) ==
    LET p == PoolOf[w]
    IN  /\ wpc[w] = "idle" /\ w \notin asleep
        /\ IF stopping[p] \/ generation[p] # seen[w]
           THEN /\ wpc' = [wpc EXCEPT ![w] = IF stopping[p] THEN "gone" ELSE "loop"]
                /\ seen' = [seen EXCEPT ![w] = IF stopping[p] THEN @ ELSE generation[p]]
                /\ UNCHANGED asleep
           ELSE asleep' = asleep \cup {w} /\ UNCHANGED <<wpc, seen>>
        /\ UNCHANGED <<schedule, control, job, done, main>>

\* Mutant of Take: the position is read and not advanced.
TakeWithoutAdvance(w) ==
    /\ wpc[w] = "loop"
    /\ LET q == QueueOf(w)
       IN  IF next[q] < Len(lists[q])
           THEN /\ job' = [job EXCEPT ![w] = lists[q][next[q] + 1]]
                /\ wpc' = [wpc EXCEPT ![w] = "work"]
           ELSE wpc' = [wpc EXCEPT ![w] = "finish"] /\ UNCHANGED job
    /\ UNCHANGED <<schedule, control, seen, done, asleep, main>>

(***************************************************************************)
(* The worker takes the next job of its queue, or leaves the loop. (The    *)
(* code also counts up past the end of the list; nobody can tell.)         *)
(***************************************************************************)
Take(w) ==
    LET q == QueueOf(w)
    IN  /\ wpc[w] = "loop"
        /\ IF next[q] < Len(lists[q])
           THEN /\ job' = [job EXCEPT ![w] = lists[q][next[q] + 1]]
                /\ next' = [next EXCEPT ![q] = @ + 1]
                /\ wpc' = [wpc EXCEPT ![w] = "work"]
           ELSE /\ wpc' = [wpc EXCEPT ![w] = "finish"]
                /\ UNCHANGED <<job, next>>
        /\ UNCHANGED <<mode, source, lists, control, seen, done, asleep, main>>

JobDone(w) ==
    /\ wpc[w] = "work"
    /\ done' = [done EXCEPT ![PoolOf[w]] = @ \cup {job[w]}]
    /\ job' = [job EXCEPT ![w] = None]
    /\ wpc' = [wpc EXCEPT ![w] = "loop"]
    /\ UNCHANGED <<schedule, control, seen, asleep, main>>

\* Mutant of Finish: the first worker to finish ends the run.
FinishFirst(w) ==
    LET p == PoolOf[w]
    IN  /\ wpc[w] = "finish"
        /\ pending' = [pending EXCEPT ![p] = 0]
        /\ inFlight' = [inFlight EXCEPT ![p] = FALSE]
        /\ asleep' = IF mpool = p THEN asleep \ {Main} ELSE asleep
        /\ wpc' = [wpc EXCEPT ![w] = "idle"]
        /\ UNCHANGED <<schedule, run, generation, stopping, seen, job, done, main>>

\* The last worker to finish ends the run and wakes the main thread.
Finish(w) ==
    LET p == PoolOf[w]
    IN  /\ wpc[w] = "finish"
        /\ pending' = [pending EXCEPT ![p] = @ - 1]
        /\ inFlight' = [inFlight EXCEPT ![p] = @ /\ pending[p] # 1]
        /\ asleep' = IF pending[p] = 1 /\ mpool = p THEN asleep \ {Main} ELSE asleep
        /\ wpc' = [wpc EXCEPT ![w] = "idle"]
        /\ UNCHANGED <<schedule, run, generation, stopping, seen, job, done, main>>

Spurious(t) ==
    /\ t \in asleep
    /\ asleep' = asleep \ {t}
    /\ UNCHANGED <<schedule, control, workers, main>>

-----------------------------------------------------------------------------
\* Everything the main thread does inside a pool, and the workers.
InPool == Rebuild \/ (\E w \in Workers : CreateWorker(w)) \/ Launch \/ Notify \/ Await \/ Stop
          \/ JoinWorkers

Work(w) == Wake(w) \/ Take(w) \/ Finish(w)

PoolNext ==
    \/ \E p \in Pools : (\E l \in Lists : StartRun(p, l)) \/ WaitRun(p) \/ Shutdown(p)
    \/ InPool
    \/ \E w \in Workers : Work(w) \/ JobDone(w)
    \/ \E t \in Workers \cup {Main} : Spurious(t)

PoolSpec == PoolInit /\ [][PoolNext]_poolVars

(***************************************************************************)
(* The pool as a ForkJoin: a job is left to do when it is one of the run   *)
(* and neither done nor at work.                                           *)
(***************************************************************************)
Doing(p) == [w \in WorkersOf(p) |-> job[w]]
Todo(p) == IF inFlight[p] THEN {j \in Contents[run[p]] : j \notin done[p] /\
                                   \A w \in WorkersOf(p) : job[w] # j}
           ELSE {}
=============================================================================
