----------------------------- MODULE HashFrontier -----------------------------
(***************************************************************************)
(* The GPU hash solver (legacy/oneesan_cuda_hash): one kernel per edge of  *)
(* the grid. Each thread has one key of the frontier dynamic program and   *)
(* inserts its successors into a hash table, which all threads share; a    *)
(* second kernel gathers the table into the keys of the next edge.         *)
(*                                                                         *)
(* Each access to the table another thread can notice is one step. Thread  *)
(* i + Resident starts only when at most Resident - 1 threads before it    *)
(* are still running, a bound: the GPU may have more in flight, and may    *)
(* start them in another order.                                            *)
(***************************************************************************)
EXTENDS FrontierDP, FiniteSetsExt

CONSTANTS
    Mod,          \* the modulus
    MinCapacity,  \* the least size of the table (1024 in the code)
    Hash(_),      \* hash_key
    Resident      \* how many threads run at the same time

ASSUME HashAssumption ==
    /\ Mod \in Nat \ {0, 1} /\ Resident \in Nat \ {0} /\ MinCapacity \in Nat \ {0}
    /\ \A e \in DOMAIN Reachable : \A key \in Reachable[e] : Hash(key) \in Nat

VARIABLES
    edge,        \* how many edges are decided
    keys, vals,  \* the keys that can occur and how often each does
    stage,
    cap,         \* the size of the table in use
    table_state, \* 0 empty, 1 a writer owns the slot, 2 ready
    table_keys, table_vals,
    occupied,    \* the slots in the order they were claimed
    pc,          \* where each thread is
    take,        \* its edge is left out, 0, or taken, 1
    out,         \* the key it inserts
    slot, probe, \* where it looks in the table, and for the how manieth time
    old,         \* the value its compare-and-swap expects
    answer

table == <<table_state, table_keys, table_vals, occupied>>
thread == <<take, out, slot, probe, old>>
vars == <<edge, keys, vals, stage, cap, table, pc, thread, answer>>

Threads == DOMAIN keys
Slots == 0 .. cap - 1
NoKey == [done |-> TRUE, deg |-> EmptyKey.deg, comps |-> {EmptyKey}]

\* The key that thread i inserts for t, if any.
Out(i, t) == Successors[edge + 1][keys[i]][t]

IsKey(key) ==
    /\ key.done \in BOOLEAN
    /\ key.deg \in [DOMAIN key.deg -> 0 .. 2] /\ DOMAIN key.deg \subseteq V
    /\ \A c \in key.comps : c.members \subseteq DOMAIN key.deg /\ c.ends \subseteq {Start, Target}

TypeOK ==
    /\ edge \in 0 .. Len(Edges)
    /\ \A i \in Threads : IsKey(keys[i])
    /\ vals \in [Threads -> 0 .. Mod - 1]
    /\ stage \in {"launch", "expand", "sum", "end", "overflow"}
    /\ cap \in Nat
    /\ stage = "expand" =>
          /\ table_state \in [Slots -> 0 .. 2] /\ table_vals \in [Slots -> 0 .. Mod - 1]
          /\ \A s \in Slots : table_state[s] = 2 => IsKey(table_keys[s])
          /\ occupied \in Seq(Slots)
          /\ pc \in [Threads -> {"new", "load", "claim", "write", "list", "publish", "spin",
                                 "match", "read", "cas", "done"}]
          /\ take \in [Threads -> 0 .. 1]
          /\ slot \in [Threads -> Slots] /\ probe \in [Threads -> 0 .. cap - 1]
          /\ old \in [Threads -> 0 .. Mod - 1]
    /\ answer \in 0 .. Mod - 1

Init ==
    /\ edge = 0
    /\ keys = <<EmptyKey>> /\ vals = <<1>>
    /\ stage = "launch"
    /\ cap = 0
    /\ table_state = <<>> /\ table_keys = <<>> /\ table_vals = <<>> /\ occupied = <<>>
    /\ pc = <<>> /\ take = <<>> /\ out = <<>> /\ slot = <<>> /\ probe = <<>> /\ old = <<>>
    /\ answer = 0

\* The loop doubles p until it is at least x.
next_pow2(x) == LET grow[p \in 1 .. 2 * x] == IF p >= x THEN p ELSE grow[2 * p]
                IN  grow[1]

\* Mutant of Capacity: a slot for each key and none to spare.
CapacityTight(n) == next_pow2(IF n > MinCapacity THEN n ELSE MinCapacity)

\* The table for n keys.
Capacity(n) == next_pow2(IF 4 * n > MinCapacity THEN 4 * n ELSE MinCapacity)

\* The table is cleared and a thread started for each key.
Launch ==
    /\ stage = "launch" /\ edge < Len(Edges)
    /\ cap' = Capacity(Len(keys))
    /\ table_state' = [s \in 0 .. cap' - 1 |-> 0]
    /\ table_keys' = [s \in 0 .. cap' - 1 |-> NoKey]
    /\ table_vals' = [s \in 0 .. cap' - 1 |-> 0]
    /\ occupied' = <<>>
    /\ pc' = [i \in Threads |-> "new"]
    /\ take' = [i \in Threads |-> 0] /\ out' = [i \in Threads |-> NoKey]
    /\ slot' = [i \in Threads |-> 0] /\ probe' = [i \in Threads |-> 0]
    /\ old' = [i \in Threads |-> 0]
    /\ stage' = "expand"
    /\ UNCHANGED <<edge, keys, vals, answer>>

-----------------------------------------------------------------------------
(***************************************************************************)
(* Thread i turns to its insertions for t or later: left out first, then   *)
(* taken, each only when the edge can be.                                  *)
(***************************************************************************)
Insert(i, t) ==
    LET todo == {u \in t .. 1 : Out(i, u) # {}}
    IN  IF todo = {}
        THEN pc' = [pc EXCEPT ![i] = "done"] /\ UNCHANGED <<take, out, slot, probe>>
        ELSE /\ take' = [take EXCEPT ![i] = Min(todo)]
             /\ \E key \in Out(i, Min(todo)) : /\ out' = [out EXCEPT ![i] = key]
                                                /\ slot' = [slot EXCEPT ![i] = Hash(key) % cap]
             /\ probe' = [probe EXCEPT ![i] = 0]
             /\ pc' = [pc EXCEPT ![i] = "load"]

\* expand_hash_kernel
Begin(i) ==
    /\ pc[i] = "new"
    /\ \A j \in 1 .. i - 1 : pc[j] # "new"
    /\ Cardinality({j \in 1 .. i - 1 : pc[j] # "done"}) < Resident
    /\ Insert(i, 0)
    /\ UNCHANGED <<table, old>>

Seen(i, s) == CASE s = 0 -> "claim" [] s = 1 -> "spin" [] s = 2 -> "match"

\* hash_insert: what is in the slot?
Load(i) ==
    /\ pc[i] = "load"
    /\ pc' = [pc EXCEPT ![i] = Seen(i, table_state[slot[i]])]
    /\ UNCHANGED <<table, thread>>

\* Mutant of Claim: the slot is ready before its key is written.
ClaimReady(i) ==
    /\ pc[i] = "claim"
    /\ IF table_state[slot[i]] = 0
       THEN /\ table_state' = [table_state EXCEPT ![slot[i]] = 2]
            /\ pc' = [pc EXCEPT ![i] = "write"]
       ELSE /\ pc' = [pc EXCEPT ![i] = Seen(i, table_state[slot[i]])]
            /\ UNCHANGED table_state
    /\ UNCHANGED <<table_keys, table_vals, occupied, thread>>

\* Mutant of Claim: a store in place of the compare-and-swap.
ClaimAnyway(i) ==
    /\ pc[i] = "claim"
    /\ table_state' = [table_state EXCEPT ![slot[i]] = 1]
    /\ pc' = [pc EXCEPT ![i] = "write"]
    /\ UNCHANGED <<table_keys, table_vals, occupied, thread>>

\* The compare-and-swap from empty to owned; whoever loses goes by what it saw.
Claim(i) ==
    /\ pc[i] = "claim"
    /\ IF table_state[slot[i]] = 0
       THEN /\ table_state' = [table_state EXCEPT ![slot[i]] = 1]
            /\ pc' = [pc EXCEPT ![i] = "write"]
       ELSE /\ pc' = [pc EXCEPT ![i] = Seen(i, table_state[slot[i]])]
            /\ UNCHANGED table_state
    /\ UNCHANGED <<table_keys, table_vals, occupied, thread>>

Write(i) ==
    /\ pc[i] = "write"
    /\ table_keys' = [table_keys EXCEPT ![slot[i]] = out[i]]
    /\ table_vals' = [table_vals EXCEPT ![slot[i]] = vals[i]]
    /\ pc' = [pc EXCEPT ![i] = "list"]
    /\ UNCHANGED <<table_state, occupied, thread>>

\* occupied[atomicAdd(occupied_n, 1)] = slot
List(i) ==
    /\ pc[i] = "list"
    /\ occupied' = Append(occupied, slot[i])
    /\ pc' = [pc EXCEPT ![i] = "publish"]
    /\ UNCHANGED <<table_state, table_keys, table_vals, thread>>

Publish(i) ==
    /\ pc[i] = "publish"
    /\ table_state' = [table_state EXCEPT ![slot[i]] = 2]
    /\ Insert(i, take[i] + 1)
    /\ UNCHANGED <<table_keys, table_vals, occupied, old>>

\* The loop that waits for a writer ends.
Spin(i) ==
    /\ pc[i] = "spin" /\ table_state[slot[i]] # 1
    /\ pc' = [pc EXCEPT ![i] = "match"]
    /\ UNCHANGED <<table, thread>>

\* Mutant of Match: the probe ends after two slots.
MatchTwice(i) ==
    /\ pc[i] = "match"
    /\ IF table_keys[slot[i]] = out[i]
       THEN pc' = [pc EXCEPT ![i] = "read"] /\ UNCHANGED thread
       ELSE /\ IF probe[i] < 1
               THEN /\ pc' = [pc EXCEPT ![i] = "load"]
                    /\ slot' = [slot EXCEPT ![i] = (@ + 1) % cap]
                    /\ probe' = [probe EXCEPT ![i] = @ + 1]
                    /\ UNCHANGED <<take, out>>
               ELSE Insert(i, take[i] + 1)
            /\ UNCHANGED old
    /\ UNCHANGED table

\* The slot of another key: the next slot, until all were tried.
Match(i) ==
    /\ pc[i] = "match"
    /\ IF table_keys[slot[i]] = out[i]
       THEN pc' = [pc EXCEPT ![i] = "read"] /\ UNCHANGED thread
       ELSE /\ IF probe[i] < cap - 1
               THEN /\ pc' = [pc EXCEPT ![i] = "load"]
                    /\ slot' = [slot EXCEPT ![i] = (@ + 1) % cap]
                    /\ probe' = [probe EXCEPT ![i] = @ + 1]
                    /\ UNCHANGED <<take, out>>
               ELSE Insert(i, take[i] + 1)
            /\ UNCHANGED old
    /\ UNCHANGED table

\* atomic_add_mod: read the value, then compare-and-swap until nobody came between.
Read(i) ==
    /\ pc[i] = "read"
    /\ old' = [old EXCEPT ![i] = table_vals[slot[i]]]
    /\ pc' = [pc EXCEPT ![i] = "cas"]
    /\ UNCHANGED <<table, take, out, slot, probe>>

\* Mutant of AddMod: the modulus itself is a sum.
AddModPast(a, b) == IF a > Mod - b THEN a - (Mod - b) ELSE a + b

AddMod(a, b) == IF a >= Mod - b THEN a - (Mod - b) ELSE a + b

\* Mutant of Cas: the loop goes on with the value it read first.
CasStale(i) ==
    /\ pc[i] = "cas"
    /\ IF table_vals[slot[i]] = old[i]
       THEN /\ table_vals' = [table_vals EXCEPT ![slot[i]] = AddMod(old[i], vals[i])]
            /\ Insert(i, take[i] + 1)
       ELSE UNCHANGED <<table_vals, pc, take, out, slot, probe>>
    /\ UNCHANGED <<table_state, table_keys, occupied, old>>

Cas(i) ==
    /\ pc[i] = "cas"
    /\ IF table_vals[slot[i]] = old[i]
       THEN /\ table_vals' = [table_vals EXCEPT ![slot[i]] = AddMod(old[i], vals[i])]
            /\ Insert(i, take[i] + 1)
            /\ UNCHANGED old
       ELSE /\ old' = [old EXCEPT ![i] = table_vals[slot[i]]]
            /\ UNCHANGED <<table_vals, pc, take, out, slot, probe>>
    /\ UNCHANGED <<table_state, table_keys, occupied>>

Thread(i) ==
    /\ stage = "expand"
    /\ \/ Begin(i) \/ Load(i) \/ Claim(i) \/ Write(i) \/ List(i) \/ Publish(i) \/ Spin(i)
       \/ Match(i) \/ Read(i) \/ Cas(i)
    /\ UNCHANGED <<edge, keys, vals, stage, cap, answer>>

-----------------------------------------------------------------------------
SumMod(f, S) == FoldFunctionOnSet(AddMod, 0, f, S)

\* A set as a sequence, in an order that depends on nothing else.
InOrder(S) == FoldSet(LAMBDA key, acc : Append(acc, key), <<>>, S)

(***************************************************************************)
(* gather_kernel, after the kernel of the edge; exit(2) when the table is  *)
(* full. The keys come out in the order in which slots were claimed; here  *)
(* they are put into a fixed one, as no key cares about its position.      *)
(***************************************************************************)
Gather ==
    /\ stage = "expand" /\ \A i \in Threads : pc[i] = "done"
    /\ IF Len(occupied) >= cap
       THEN stage' = "overflow" /\ UNCHANGED <<keys, vals, edge>>
       ELSE LET slots == {occupied[i] : i \in DOMAIN occupied}
            IN  /\ keys' = InOrder({table_keys[s] : s \in slots})
                /\ vals' = [i \in DOMAIN keys' |->
                              SumMod(table_vals, {s \in slots : table_keys[s] = keys'[i]})]
                /\ edge' = edge + 1
                /\ stage' = IF edge + 1 = Len(Edges) THEN "sum" ELSE "launch"
    /\ cap' = 0
    /\ table_state' = <<>> /\ table_keys' = <<>> /\ table_vals' = <<>> /\ occupied' = <<>>
    /\ pc' = <<>> /\ take' = <<>> /\ out' = <<>> /\ slot' = <<>> /\ probe' = <<>> /\ old' = <<>>
    /\ UNCHANGED answer

Sum ==
    /\ stage = "sum"
    /\ answer' = SumMod(vals, {i \in Threads : keys[i].done})
    /\ stage' = "end"
    /\ UNCHANGED <<edge, keys, vals, cap, table, pc, thread>>

Over == stage \in {"end", "overflow"} /\ UNCHANGED vars

Next == Launch \/ (\E i \in Threads : Thread(i)) \/ Gather \/ Sum \/ Over

Spec == Init /\ [][Next]_vars

(***************************************************************************)
(* The GPU runs every resident thread (independent thread scheduling), so  *)
(* that a thread that spins does not keep the writer from going on.        *)
(***************************************************************************)
MaxThreads == Max({Cardinality(Reachable[e]) : e \in DOMAIN Reachable})
FairSpec == Spec /\ WF_vars(Launch \/ Gather \/ Sum)
                 /\ \A i \in 1 .. MaxThreads : WF_vars(i \in Threads /\ Thread(i))

-----------------------------------------------------------------------------
\* The threads and choices whose insertion has reached the table.
Arrived == {x \in Threads \X {0, 1} :
              LET i == x[1]
              IN  \/ pc[i] = "done"
                  \/ pc[i] # "new" /\ x[2] < take[i]
                  \/ pc[i] \in {"list", "publish"} /\ x[2] = take[i]}

\* What the insertions of a key add up to.
Total(key, arrived) ==
    SumFunction([x \in {y \in arrived : key \in Out(y[1], y[2])} |-> vals[x[1]]]) % Mod

(***************************************************************************)
(* While threads race for slots, no key is in the table twice, and each    *)
(* ready entry holds exactly the sum of the insertions that have arrived:  *)
(* none is lost to a concurrent addition, to a claim of the same slot or   *)
(* to a full table, and none is counted twice.                             *)
(***************************************************************************)
SumsRight ==
    stage = "expand" =>
        LET arrived == Arrived
        IN  /\ \A s \in Slots : table_state[s] = 2 => table_vals[s] = Total(table_keys[s], arrived)
            /\ \A x \in arrived : \A key \in Out(x[1], x[2]) :
                  Cardinality({s \in Slots : table_state[s] # 0 /\ table_keys[s] = key}) = 1

(***************************************************************************)
(* A thread looks at the key and value of a slot only when they are        *)
(* written: a claimed slot belongs to one writer until it is ready.        *)
(***************************************************************************)
OneWriter ==
    stage = "expand" =>
        /\ \A s \in Slots : table_state[s] = 1 =>
              Cardinality({i \in Threads : pc[i] \in {"write", "list", "publish"}
                                           /\ slot[i] = s}) = 1
        /\ \A i \in Threads :
              /\ pc[i] \in {"match", "read", "cas"} => table_state[slot[i]] = 2
              /\ pc[i] \in {"write", "list", "publish"} => table_state[slot[i]] = 1

\* At least half of the table stays empty, so that a probe ends.
HalfEmpty == stage = "expand" =>
    2 * Cardinality({s \in Slots : table_state[s] # 0}) <= cap

\* What is to be found: the number of paths from corner to corner, modulo Mod.
Paths == PathCount(W, W) % Mod

\* The residue printed is that number.
AnswerRight == stage = "end" => answer = Paths

\* The program comes to its end: no thread waits for ever for a writer.
Finishes == <>(stage = "end")
=============================================================================
