---------------------------- MODULE HashFrontierInv ----------------------------
(***************************************************************************)
(* The inductive invariant of the hash solver. Between two edges the keys  *)
(* are those that can occur, each with the number of ways modulo Mod       *)
(* (KeysRight). While the threads of an edge race, it says who owns which  *)
(* slot, what a thread has learnt from the slots it has passed, and why a  *)
(* key that is in the table is found again (TableRight, ThreadsRight).     *)
(***************************************************************************)
EXTENDS HashFrontier

Writing == {"write", "list", "publish"}
Steps == {"load", "claim", "spin", "match", "read", "cas"} \cup Writing

\* Where the p-th probe for a key looks, counted from 0.
Pos(key, p) == ((Hash(key) % cap) + p) % cap

\* A slot holds a key: it is written, whether it is published or not.
Holds(s) == table_keys[s] # NoKey

KeysRight ==
    /\ edge \in 0 .. Len(Edges)
    /\ keys \in Seq(Reachable[edge])
    /\ \A i, j \in Threads : keys[i] = keys[j] => i = j
    /\ \A key \in Reachable[edge] : \E i \in Threads : keys[i] = key
    /\ vals \in [Threads -> 0 .. Mod - 1]
    /\ \A i \in Threads : vals[i] = Counts[edge][keys[i]] % Mod

StageRight ==
    /\ stage \in {"launch", "expand", "sum", "end"}
    /\ stage = "expand" => edge < Len(Edges)
    /\ stage \in {"sum", "end"} => edge = Len(Edges)
    /\ cap \in Nat
    /\ answer \in 0 .. Mod - 1
    /\ stage = "end" => answer = Paths

TableTypes ==
    LET next == Reachable[edge + 1] \cup {NoKey}
    IN  /\ cap \in Nat \ {0} /\ cap >= 4 * Len(keys)
        /\ table_state \in [Slots -> 0 .. 2]
        /\ table_keys \in [Slots -> next] /\ table_vals \in [Slots -> 0 .. Mod - 1]
        /\ occupied \in Seq(Slots)
        /\ pc \in [Threads -> Steps \cup {"new", "done"}]
        /\ take \in [Threads -> 0 .. 1] /\ out \in [Threads -> next]
        /\ slot \in [Threads -> Slots] /\ probe \in [Threads -> 0 .. cap - 1]
        /\ old \in [Threads -> 0 .. Mod - 1]

-----------------------------------------------------------------------------
\* A ready slot holds a key, an empty one does not.
StatesRight ==
    \A s \in Slots : /\ table_state[s] = 2 => Holds(s)
                     /\ table_state[s] = 0 => ~Holds(s)

\* A claimed slot has one writer, which knows how far it is.
WritersRight ==
    /\ \A s \in Slots : table_state[s] = 1 => \E i \in Threads : pc[i] \in Writing /\ slot[i] = s
    /\ \A i, j \in Threads :
          pc[i] \in Writing /\ pc[j] \in Writing /\ slot[i] = slot[j] => i = j
    /\ \A i \in Threads :
          /\ pc[i] \in Writing => table_state[slot[i]] = 1
          /\ pc[i] = "write" => ~Holds(slot[i])
          /\ pc[i] \in {"list", "publish"} => table_keys[slot[i]] = out[i]

\* What the others know of the slot they look at.
ReadersRight ==
    \A i \in Threads :
        /\ pc[i] = "spin" => table_state[slot[i]] # 0
        /\ pc[i] \in {"match", "read", "cas"} => table_state[slot[i]] = 2
        /\ pc[i] \in {"read", "cas"} => table_keys[slot[i]] = out[i]

\* A thread has passed only ready slots with other keys.
ProbesRight ==
    \A i \in Threads : pc[i] \in Steps =>
        /\ out[i] \in Out(i, take[i])
        /\ slot[i] = Pos(out[i], probe[i])
        /\ \A p \in 0 .. probe[i] - 1 : /\ table_state[Pos(out[i], p)] = 2
                                        /\ table_keys[Pos(out[i], p)] # out[i]

\* Whoever looks for a key that is held meets no empty slot before it.
PathsRight ==
    \A s \in Slots : Holds(s) =>
        \E p \in 0 .. cap - 1 :
            /\ s = Pos(table_keys[s], p)
            /\ \A q \in 0 .. p - 1 : table_state[Pos(table_keys[s], q)] # 0

\* No key is held twice, nor about to be.
KeysDistinct ==
    /\ \A s, r \in Slots : Holds(s) /\ table_keys[s] = table_keys[r] => s = r
    /\ \A i \in Threads : pc[i] = "write" => \A s \in Slots : table_keys[s] # out[i]
    /\ \A i, j \in Threads : pc[i] = "write" /\ pc[j] = "write" /\ out[i] = out[j] => i = j

\* What has arrived is held, and a slot has the sum of what has arrived for its key.
SumsHeld ==
    /\ \A x \in Arrived : \A key \in Out(x[1], x[2]) : \E s \in Slots : table_keys[s] = key
    /\ \A s \in Slots : Holds(s) => table_vals[s] = Total(table_keys[s], Arrived)

\* Each ready slot is listed once.
ListRight ==
    /\ \A a, b \in DOMAIN occupied : occupied[a] = occupied[b] => a = b
    /\ \A s \in Slots : (\E a \in DOMAIN occupied : occupied[a] = s)
          <=> table_state[s] = 2 \/ \E i \in Threads : pc[i] = "publish" /\ slot[i] = s

ExpandRight ==
    /\ TableTypes /\ StatesRight /\ WritersRight /\ ReadersRight /\ ProbesRight /\ PathsRight
    /\ KeysDistinct /\ SumsHeld /\ ListRight

IInv == KeysRight /\ StageRight /\ (stage = "expand" => ExpandRight)
=============================================================================
