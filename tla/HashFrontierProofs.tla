------------------------- MODULE HashFrontierProofs --------------------------
(***************************************************************************)
(* Proofs about the GPU hash solver, for a grid of any size, any modulus,  *)
(* any hash function and any number of threads in flight: the inductive    *)
(* invariant of HashFrontierInv, and from it that no insertion is lost, that*)
(* the table stays half empty, and that the answer is the number of paths. *)
(***************************************************************************)
EXTENDS HashFrontierInv, FrontierProofs

\* The number the answer is compared with is the total of the sequential program.
LEMMA PathsAre == Paths = PathTotal % Mod
  <1>1. W \in Nat \ {0}
    BY WAssumption
  <1>2. PathCount(W, W) = Cardinality(CornerPaths(W, W))
    BY <1>1, PathCountRight
  <1>3. QED
    BY <1>2, TotalIsPaths DEF Paths

\* The modulus is a natural above 1.
LEMMA ModConst == Mod \in Nat \ {0} /\ Mod > 1
  BY HashAssumption

\* add_mod adds modulo Mod and needs no sum above the modulus on the way.
LEMMA AddModRight ==
  ASSUME NEW a \in 0 .. Mod - 1, NEW b \in 0 .. Mod - 1
  PROVE  AddMod(a, b) = (a + b) % Mod /\ AddMod(a, b) \in 0 .. Mod - 1
  <1> DEFINE s == a + b
  <1>1. Mod \in Nat \ {0} /\ a \in Int /\ b \in Int /\ s \in Int
    BY ModConst
  <1>2. CASE a >= Mod - b
    <2> DEFINE r == s - Mod
    <2>1. r \in 0 .. Mod - 1 /\ s = Mod * 1 + r /\ 1 \in Int
      BY <1>1, <1>2
    <2>2. AddMod(a, b) = r
      BY <1>1, <1>2 DEF AddMod
    <2> HIDE DEF s, r
    <2>3. s % Mod = r
      BY <1>1, <2>1, ModUnique
    <2>4. QED
      BY <2>1, <2>2, <2>3 DEF s
  <1>3. CASE ~(a >= Mod - b)
    <2>1. s \in 0 .. Mod - 1
      BY <1>1, <1>3
    <2>2. AddMod(a, b) = s
      BY <1>3 DEF AddMod
    <2> HIDE DEF s
    <2>3. s % Mod = s
      BY <1>1, <2>1, ModIdle
    <2>4. QED
      BY <2>1, <2>2, <2>3 DEF s
  <1>4. QED
    BY <1>2, <1>3

\* Adding up with add_mod in any order gives the sum modulo Mod.
LEMMA SumModRight ==
  ASSUME NEW S, IsFiniteSet(S), NEW f, \A x \in S : f[x] \in 0 .. Mod - 1
  PROVE  SumMod(f, S) = SumFunctionOnSet(f, S) % Mod
  <1> DEFINE V1 == 0 .. Mod - 1
             step == [p \in S \X V1 |-> AddMod(f[p[1]], p[2])]
             Iter(g) == g = [s \in SUBSET S |->
                               IF s = {} THEN 0 ELSE AddMod(f[Pick(s)], g[s \ {Pick(s)}])]
             iter == CHOOSE g : Iter(g)
             Sum1(s) == SumFunctionOnSet(f, s)
  <1>1. step \in [S \X V1 -> V1] /\ \A x \in S, n \in V1 : step[<<x, n>>] = AddMod(f[x], n)
    <2>1. \A x \in S, n \in V1 : AddMod(f[x], n) \in V1
      BY AddModRight
    <2>2. QED
      BY <2>1
  <1>2. PICK g \in [SUBSET S -> V1] : Folding(g, S, 0, step)
    <2>1. 0 \in V1
      BY ModConst
    <2> HIDE DEF step, V1
    <2>2. QED
      BY <1>1, <2>1, FoldExists
  <1>3. ASSUME NEW s \in SUBSET S, s # {}
        PROVE  step[<<Pick(s), g[s \ {Pick(s)}]>>] = AddMod(f[Pick(s)], g[s \ {Pick(s)}])
    <2>1. Pick(s) \in S /\ g[s \ {Pick(s)}] \in V1
      BY <1>2, <1>3, PickIn
    <2> HIDE DEF step, V1
    <2>2. QED
      BY <1>1, <2>1
  <1>4. Iter(g)
    <2> HIDE DEF step
    <2>1. QED
      BY <1>2, <1>3 DEF Folding
  <1>5. Iter(iter)
    BY <1>4
  <1>6. SumMod(f, S) = iter[S]
    BY DEF SumMod, FoldFunctionOnSet, MapThenFoldSet, Pick
  <1> HIDE DEF iter
  <1> DEFINE Bad == {s \in SUBSET S : iter[s] # Sum1(s) % Mod}
  <1>7. Bad = {}
    <2>1. SUFFICES ASSUME Bad # {} PROVE FALSE
      OBVIOUS
    <2>2. PICK s \in Bad : \A t \in Bad : t \subseteq s => t = s
      <3>1. Bad \in SUBSET SUBSET S
        OBVIOUS
      <3> HIDE DEF Bad
      <3>2. QED
        BY <2>1, <3>1, SubsetMin
    <2>3. s \in SUBSET S /\ iter[s] # Sum1(s) % Mod
      OBVIOUS
    <2>4. CASE s = {}
      <3>1. iter[s] = 0
        BY <1>5, <2>4
      <3>2. Sum1(s) = 0
        BY <2>4, SumEmpty
      <3>3. 0 % Mod = 0
        BY ModConst, ModIdle
      <3>4. QED
        BY <2>3, <3>1, <3>2, <3>3
    <2>5. CASE s # {}
      <3> DEFINE p == Pick(s)
                 r == s \ {p}
      <3>1. p \in s /\ p \in S /\ r \in SUBSET S /\ r # s /\ r \subseteq s
        BY <2>3, <2>5, PickIn
      <3>2. iter[r] = Sum1(r) % Mod
        BY <2>2, <3>1
      <3>3. iter[s] = AddMod(f[p], iter[r])
        BY <1>5, <2>3, <2>5
      <3>4. IsFiniteSet(s) /\ IsFiniteSet(r)
        BY <2>3, <3>1, FS_Subset
      <3>5. \A x \in s : f[x] \in Nat
        BY <2>3, ModConst
      <3>6. Sum1(s) = f[p] + Sum1(r)
        BY <3>1, <3>4, <3>5, SumRemove
      <3>7. Sum1(r) \in Nat
        BY <3>1, <3>4, <3>5, SumType
      <3> DEFINE a == f[p]
                 b == Sum1(r)
                 c == b % Mod
      <3>8. a \in 0 .. Mod - 1 /\ a \in Int /\ b \in Int /\ Mod \in Nat \ {0}
        BY <3>1, <3>7, ModConst
      <3>9. iter[s] = AddMod(a, c) /\ Sum1(s) = a + b
        BY <3>2, <3>3, <3>6
      <3> HIDE DEF a, b, Sum1
      <3>10. c \in 0 .. Mod - 1 /\ c \in Int
        <4>1. \A m \in Nat \ {0}, d \in Int : d % m \in 0 .. m - 1
          BY ModType
        <4>2. c \in 0 .. Mod - 1
          BY <3>8, <4>1
        <4> HIDE DEF c
        <4>3. QED
          BY <4>2, <3>8
      <3>11. AddMod(a, c) = (a + c) % Mod
        BY <3>8, <3>10, AddModRight
      <3>12. (c + a) % Mod = (b + a) % Mod
        BY <3>8, ModAdd
      <3>13. a + c = c + a /\ a + b = b + a
        BY <3>8, <3>10
      <3>14. QED
        BY <2>3, <3>9, <3>11, <3>12, <3>13
    <2>6. QED
      BY <2>4, <2>5
  <1>8. iter[S] = Sum1(S) % Mod
    BY <1>7
  <1>9. QED
    BY <1>6, <1>8

\* InOrder lists each element of a finite set once.
LEMMA InOrderRight ==
  ASSUME NEW S, IsFiniteSet(S)
  PROVE  /\ InOrder(S) \in Seq(S)
         /\ \A a, b \in DOMAIN InOrder(S) : InOrder(S)[a] = InOrder(S)[b] => a = b
         /\ \A x \in S : \E a \in DOMAIN InOrder(S) : InOrder(S)[a] = x
  <1> DEFINE Q == Seq(S)
             step == [p \in S \X Q |-> Append(p[2], p[1])]
             Iter(g) == g = [s \in SUBSET S |->
                               IF s = {} THEN <<>> ELSE Append(g[s \ {Pick(s)}], Pick(s))]
             iter == CHOOSE g : Iter(g)
  <1>1. step \in [S \X Q -> Q] /\ \A x \in S, q \in Q : step[<<x, q>>] = Append(q, x)
    OBVIOUS
  <1>2. PICK g \in [SUBSET S -> Q] : Folding(g, S, <<>>, step)
    <2>1. <<>> \in Q
      OBVIOUS
    <2> HIDE DEF step, Q
    <2>2. QED
      BY <1>1, <2>1, FoldExists
  <1>3. ASSUME NEW s \in SUBSET S, s # {}
        PROVE  step[<<Pick(s), g[s \ {Pick(s)}]>>] = Append(g[s \ {Pick(s)}], Pick(s))
    <2>1. Pick(s) \in S /\ g[s \ {Pick(s)}] \in Q
      BY <1>2, <1>3, PickIn
    <2> HIDE DEF step, Q
    <2>2. QED
      BY <1>1, <2>1
  <1>4. Iter(g)
    <2> HIDE DEF step
    <2>1. QED
      BY <1>2, <1>3 DEF Folding
  <1>5. Iter(iter)
    BY <1>4
  <1>6. InOrder(S) = iter[S]
    BY DEF InOrder, FoldSet, MapThenFoldSet, Pick
  <1> HIDE DEF iter
  <1> DEFINE Good(q, s) == /\ q \in Seq(s)
                           /\ \A a, b \in DOMAIN q : q[a] = q[b] => a = b
                           /\ \A x \in s : \E a \in DOMAIN q : q[a] = x
             Bad == {s \in SUBSET S : ~Good(iter[s], s)}
  <1>7. Bad = {}
    <2>1. SUFFICES ASSUME Bad # {} PROVE FALSE
      OBVIOUS
    <2>2. PICK s \in Bad : \A t \in Bad : t \subseteq s => t = s
      <3> HIDE DEF Good
      <3>1. Bad \in SUBSET SUBSET S
        OBVIOUS
      <3> HIDE DEF Bad
      <3>2. QED
        BY <2>1, <3>1, SubsetMin
    <2>3. s \in SUBSET S /\ ~Good(iter[s], s)
      OBVIOUS
    <2>4. CASE s = {}
      <3>1. iter[s] = <<>>
        BY <1>5, <2>4
      <3>2. Good(<<>>, {})
        OBVIOUS
      <3> HIDE DEF Good
      <3>3. QED
        BY <2>3, <2>4, <3>1, <3>2
    <2>5. CASE s # {}
      <3> DEFINE p == Pick(s)
                 r == s \ {p}
                 q == iter[r]
      <3>1. p \in s /\ p \in S /\ r \in SUBSET S /\ r # s /\ r \subseteq s
        BY <2>3, <2>5, PickIn
      <3>2. Good(q, r)
        <4> HIDE DEF Good
        <4>1. QED
          BY <2>2, <3>1, SMTT(20)
      <3>3. iter[s] = Append(q, p)
        BY <1>5, <2>3, <2>5
      <3>4. p \notin r /\ s = r \cup {p}
        BY <3>1
      <3> HIDE DEF q, r, p
      <3>5. Good(Append(q, p), s)
        <4>1. q \in Seq(s) /\ p \in s /\ Len(q) \in Nat /\ DOMAIN q = 1 .. Len(q)
          BY <3>1, <3>2
        <4>2. Append(q, p) \in Seq(s) /\ DOMAIN Append(q, p) = 1 .. Len(q) + 1
          BY <4>1
        <4>3. \A a \in 1 .. Len(q) : Append(q, p)[a] = q[a] /\ q[a] \in r
          BY <3>2, <4>1
        <4>4. Append(q, p)[Len(q) + 1] = p
          BY <4>1
        <4>5. \A a \in DOMAIN Append(q, p) : a \in 1 .. Len(q) \/ a = Len(q) + 1
          BY <4>1, <4>2
        <4>6. \A a, b \in DOMAIN Append(q, p) : Append(q, p)[a] = Append(q, p)[b] => a = b
          BY <3>2, <3>4, <4>1, <4>3, <4>4, <4>5
        <4>7. ASSUME NEW x \in s PROVE \E a \in DOMAIN Append(q, p) : Append(q, p)[a] = x
          <5>1. CASE x = p
            <6>1. Len(q) + 1 \in DOMAIN Append(q, p)
              BY <4>1, <4>2
            <6>2. QED
              BY <4>4, <5>1, <6>1
          <5>2. CASE x # p
            <6>1. PICK a \in DOMAIN q : q[a] = x
              BY <3>2, <3>4, <5>2
            <6>2. a \in DOMAIN Append(q, p) /\ Append(q, p)[a] = x
              BY <4>1, <4>2, <4>3, <6>1
            <6>3. QED
              BY <6>2
          <5>3. QED
            BY <5>1, <5>2
        <4>8. QED
          BY <4>2, <4>6, <4>7
      <3> HIDE DEF Good
      <3>6. QED
        BY <2>3, <3>3, <3>5
    <2>6. QED
      BY <2>4, <2>5
  <1> HIDE DEF Good
  <1>8. Good(iter[S], S)
    BY <1>7
  <1>9. QED
    BY <1>6, <1>8 DEF Good

\* The doubling loop of next_pow2 ends with a power that is large enough.
LEMMA PowerRight ==
  ASSUME NEW x \in Nat \ {0}
  PROVE  next_pow2(x) \in Nat /\ next_pow2(x) >= x
  <1> DEFINE D(n) == {p \in 1 .. 2 * x : p + n >= x}
             Grows(g, S) == g = [p \in S |-> IF p >= x THEN p ELSE g[2 * p]]
             Bad == {n \in Nat : ~\E g : Grows(g, D(n))}
             grow == CHOOSE g : Grows(g, 1 .. 2 * x)
             Wrong == {n \in Nat : \E p \in D(n) : ~(grow[p] \in Nat /\ grow[p] >= x)}
  <1>1. \A n \in Nat \ {0} : \A p \in D(n) : p < x => 2 * p \in D(n - 1)
    <2>1. ASSUME NEW n \in Nat \ {0}, NEW p \in D(n), p < x PROVE 2 * p \in D(n - 1)
      <3>1. n \in Int /\ p \in Int /\ x \in Int /\ 1 <= p /\ p + n >= x
        OBVIOUS
      <3>2. 2 * p \in Int /\ 1 <= 2 * p /\ 2 * p <= 2 * x /\ 2 * p + (n - 1) >= x
        BY <2>1, <3>1
      <3>3. QED
        BY <3>1, <3>2
    <2> HIDE DEF D
    <2>2. QED
      BY <2>1
  <1>2. Bad = {}
    <2>1. SUFFICES ASSUME Bad # {} PROVE FALSE
      OBVIOUS
    <2>2. PICK n \in Bad : \A m \in Bad : n <= m
      <3> HIDE DEF Grows, D
      <3>1. Bad \in SUBSET Nat
        OBVIOUS
      <3> HIDE DEF Bad
      <3>2. QED
        BY <2>1, <3>1, NatMin
    <2>3. n \in Nat /\ ~\E g : Grows(g, D(n))
      OBVIOUS
    <2>4. CASE n = 0
      <3> DEFINE g == [p \in D(0) |-> p]
      <3>1. Grows(g, D(0))
        OBVIOUS
      <3> HIDE DEF g, Grows
      <3>2. QED
        BY <2>3, <2>4, <3>1
    <2>5. CASE n # 0
      <3>1. n - 1 \in Nat /\ ~(n <= n - 1) /\ n \in Nat \ {0}
        BY <2>3, <2>5
      <3>2. PICK h : Grows(h, D(n - 1))
        BY <2>2, <3>1
      <3> DEFINE next(p) == IF p >= x THEN p ELSE h[2 * p]
                 g == [p \in D(n) |-> IF p \in D(n - 1) THEN h[p] ELSE next(p)]
      <3>3. ASSUME NEW p \in D(n) PROVE g[p] = IF p >= x THEN p ELSE g[2 * p]
        <4>1. g[p] = next(p)
          <5>1. CASE p \in D(n - 1)
            <6>1. h[p] = next(p)
              BY <3>2, <5>1
            <6>2. QED
              BY <5>1, <6>1
          <5>2. CASE p \notin D(n - 1)
            BY <5>2
          <5>3. QED
            BY <5>1, <5>2
        <4>2. p < x => 2 * p \in D(n - 1) /\ 2 * p \in D(n)
          <5>1. p < x => 2 * p \in D(n - 1)
            BY <1>1, <3>1
          <5>2. D(n - 1) \subseteq D(n)
            BY <3>1
          <5>3. QED
            BY <5>1, <5>2
        <4>3. p < x => g[2 * p] = h[2 * p]
          <5> HIDE DEF D
          <5>1. QED
            BY <4>2
        <4>4. p \in Int /\ x \in Int
          OBVIOUS
        <4> HIDE DEF D, g
        <4>5. QED
          BY <4>1, <4>3, <4>4
      <3>4. g = [p \in D(n) |-> g[p]]
        OBVIOUS
      <3>5. Grows(g, D(n))
        <4> HIDE DEF g, D
        <4>1. QED
          BY <3>3, <3>4
      <3> HIDE DEF g, Grows
      <3>6. QED
        BY <2>3, <3>5
    <2>6. QED
      BY <2>4, <2>5
  <1>3. D(x) = 1 .. 2 * x
    OBVIOUS
  <1>4. Grows(grow, 1 .. 2 * x)
    <2>1. x \in Nat
      OBVIOUS
    <2> HIDE DEF Grows, D
    <2>2. \E g : Grows(g, D(x))
      BY <1>2, <2>1
    <2>3. \E g : Grows(g, 1 .. 2 * x)
      BY <1>3, <2>2
    <2>4. QED
      BY <2>3
  <1>5. next_pow2(x) = grow[1]
    BY DEF next_pow2
  <1> HIDE DEF grow
  <1>6. \A p \in 1 .. 2 * x : grow[p] = IF p >= x THEN p ELSE grow[2 * p]
    BY <1>4
  <1>7. Wrong = {}
    <2>1. SUFFICES ASSUME Wrong # {} PROVE FALSE
      OBVIOUS
    <2>2. PICK n \in Wrong : \A m \in Wrong : n <= m
      <3> HIDE DEF D
      <3>1. Wrong \in SUBSET Nat
        OBVIOUS
      <3> HIDE DEF Wrong
      <3>2. QED
        BY <2>1, <3>1, NatMin
    <2>3. PICK p \in D(n) : ~(grow[p] \in Nat /\ grow[p] >= x)
      <3> HIDE DEF D
      <3>1. QED
        OBVIOUS
    <2>4. n \in Nat /\ p \in 1 .. 2 * x /\ p + n >= x
      OBVIOUS
    <2>5. p < x /\ grow[p] = grow[2 * p]
      BY <1>6, <2>3, <2>4
    <2>6. n # 0
      BY <2>4, <2>5
    <2>7. n - 1 \in Nat /\ ~(n <= n - 1) /\ 2 * p \in D(n - 1)
      BY <1>1, <2>4, <2>5, <2>6
    <2>8. grow[2 * p] \in Nat /\ grow[2 * p] >= x
      <3> HIDE DEF D
      <3>1. QED
        BY <2>2, <2>7
    <2>9. QED
      BY <2>3, <2>5, <2>8
  <1>8. 1 \in D(x) /\ x \in Nat
    OBVIOUS
  <1>9. grow[1] \in Nat /\ grow[1] >= x
    <2> HIDE DEF D
    <2>1. QED
      BY <1>7, <1>8
  <1>10. QED
    BY <1>5, <1>9

\* The table has four slots for each key.
LEMMA CapacityRight ==
  ASSUME NEW n \in Nat
  PROVE  Capacity(n) \in Nat \ {0} /\ Capacity(n) >= 4 * n
  <1> DEFINE x == IF 4 * n > MinCapacity THEN 4 * n ELSE MinCapacity
  <1>1. x \in Nat \ {0} /\ x >= 4 * n
    BY HashAssumption
  <1>2. Capacity(n) = next_pow2(x)
    BY DEF Capacity
  <1> HIDE DEF x
  <1>3. next_pow2(x) \in Nat /\ next_pow2(x) >= x
    BY <1>1, PowerRight
  <1>4. QED
    BY <1>1, <1>2, <1>3

\* The content of a cleared slot is no key.
LEMMA NoKeyFresh ==
  \A D : NoKey \notin KeyOver(D)
  <1>1. SUFFICES ASSUME NEW D, NoKey \in KeyOver(D) PROVE FALSE
    OBVIOUS
  <1>2. EmptyKey \in Comps(D)
    BY <1>1 DEF NoKey, KeyOver
  <1>3. QED
    BY <1>2 DEF Comps, EmptyKey

\* The keys of an edge are keys and have a hash.
LEMMA KeyTyped ==
  ASSUME NEW e \in 0 .. LastEdge, NEW key \in Reachable[e]
  PROVE  IsKey(key) /\ key # NoKey /\ Hash(key) \in Nat
  <1>1. key \in KeyOver(Active[e]) /\ Active[e] \subseteq V
    BY ReachableType, ActiveType
  <1>2. key # NoKey
    BY <1>1, NoKeyFresh
  <1>3. Hash(key) \in Nat
    BY HashAssumption, ReachableDef
  <1>4. IsKey(key)
    <2>1. key.deg \in [Active[e] -> 0 .. 2] /\ key.done \in BOOLEAN /\ key.comps \in SUBSET Comps(Active[e])
      BY <1>1 DEF KeyOver
    <2>2. DOMAIN key.deg = Active[e]
      BY <2>1
    <2>3. \A c \in key.comps : c.members \subseteq Active[e] /\ c.ends \subseteq {Start, Target}
      BY <2>1 DEF Comps
    <2>4. QED
      BY <1>1, <2>1, <2>2, <2>3 DEF IsKey
  <1>5. QED
    BY <1>2, <1>3, <1>4

-----------------------------------------------------------------------------
(***************************************************************************)
(* What each thread inserts, and steps that change nothing but where a     *)
(* thread is.                                                              *)
(***************************************************************************)
\* A thread inserts at most one key for each decision, a key of the next edge.
LEMMA OutRight ==
  ASSUME KeysRight, edge < LastEdge, NEW i \in Threads, NEW t \in {0, 1}
  PROVE  /\ Out(i, t) = transition_one(keys[i], edge + 1, t)
         /\ Out(i, t) \subseteq Reachable[edge + 1]
         /\ AtMostOne(Out(i, t))
  <1>1. edge \in 0 .. LastEdge /\ edge + 1 \in 1 .. LastEdge /\ (edge + 1) - 1 = edge
    BY LastType DEF KeysRight, LastEdge
  <1>2. keys[i] \in Reachable[edge]
    BY DEF KeysRight, Threads
  <1>3. Out(i, t) = transition_one(keys[i], edge + 1, t)
    <2>1. Successors[edge + 1] = [key \in Reachable[(edge + 1) - 1] |->
                                    [u \in 0 .. 1 |-> transition_one(key, edge + 1, u)]]
      BY <1>1, LastType DEF Successors
    <2>2. t \in 0 .. 1
      OBVIOUS
    <2>3. QED
      BY <1>1, <1>2, <2>1, <2>2 DEF Out
  <1>4. keys[i] \in KeyOver(Active[(edge + 1) - 1])
    BY <1>1, <1>2, ReachableType
  <1>5. AtMostOne(Out(i, t))
    BY <1>1, <1>3, <1>4, TransitionType
  <1>6. Reachable[edge + 1] = NextKeys(Reachable[edge], edge + 1)
    BY <1>1, ReachableDef
  <1>7. <<keys[i], t>> \in Decisions(Reachable[edge])
    BY <1>2 DEF Decisions
  <1>8. transition_one(keys[i], edge + 1, t) \subseteq Reachable[edge + 1]
    BY <1>6, <1>7 DEF NextKeys
  <1>9. QED
    BY <1>3, <1>5, <1>8

\* What the threads insert are keys and have a hash.
LEMMA NextTyped ==
  ASSUME KeysRight, edge < LastEdge, NEW key \in Reachable[edge + 1]
  PROVE  IsKey(key) /\ key # NoKey /\ Hash(key) \in Nat
  <1>1. edge + 1 \in 0 .. LastEdge
    BY LastType DEF KeysRight, LastEdge
  <1>2. QED
    BY <1>1, KeyTyped

Frame == UNCHANGED <<edge, keys, vals, stage, cap, answer>>
Looking == {"load", "claim", "spin", "match", "read", "cas"}

\* Thread i goes on to p without touching the table.
Stay(i, p) ==
    /\ pc[i] \in Looking /\ p \in Looking
    /\ pc' = [pc EXCEPT ![i] = p]
    /\ UNCHANGED <<table, take, out, slot, probe>>
    /\ old' \in [Threads -> 0 .. Mod - 1]
    /\ p = "spin" => table_state[slot[i]] # 0
    /\ p \in {"match", "read", "cas"} => table_state[slot[i]] = 2
    /\ p \in {"read", "cas"} => table_keys[slot[i]] = out[i]
    /\ Frame

\* A step that only looks at the table keeps the invariant.
LEMMA StayKeeps ==
  ASSUME ExpandRight, NEW i \in Threads, NEW p, Stay(i, p)
  PROVE  ExpandRight'
  <1>1. /\ pc \in [Threads -> Steps \cup {"new", "done"}]
        /\ pc' = [pc EXCEPT ![i] = p] /\ p \in Looking /\ pc[i] \in Looking
        /\ UNCHANGED <<edge, keys, vals, cap, table_state, table_keys, table_vals, occupied, take, out, slot, probe>>
    BY DEF ExpandRight, TableTypes, Stay, Frame, table
  <1>2. pc'[i] = p /\ \A j \in Threads : j # i => pc'[j] = pc[j]
    BY <1>1
  <1>3. Threads' = Threads /\ Slots' = Slots
    BY <1>1 DEF Threads, Slots
  <1>4. TableTypes'
    <2>1. pc' \in [Threads -> Steps \cup {"new", "done"}]
      BY <1>1 DEF Looking, Steps
    <2>2. old' \in [Threads -> 0 .. Mod - 1]
      BY DEF Stay
    <2>3. QED
      BY <1>1, <1>3, <2>1, <2>2 DEF ExpandRight, TableTypes
  <1>5. StatesRight'
    BY <1>1, <1>3 DEF ExpandRight, StatesRight, Holds
  <1>6. WritersRight'
    BY <1>1, <1>2, <1>3 DEF ExpandRight, WritersRight, Holds, Writing, Looking
  <1>7. ReadersRight'
    BY <1>1, <1>2, <1>3 DEF ExpandRight, ReadersRight, Stay
  <1>8. ProbesRight'
    BY <1>1, <1>2, <1>3 DEF ExpandRight, ProbesRight, Steps, Looking, Out, Pos
  <1>9. PathsRight'
    BY <1>1, <1>2, <1>3 DEF ExpandRight, PathsRight, Holds, Pos
  <1>10. KeysDistinct'
    BY <1>1, <1>2, <1>3, SMTT(20) DEF ExpandRight, KeysDistinct, Holds, Looking
  <1>11. SumsHeld'
    <2>1. Arrived' = Arrived
      BY <1>1, <1>2, <1>3 DEF Arrived, Looking
    <2>2. QED
      BY <1>1, <1>3, <2>1 DEF ExpandRight, SumsHeld, Total, Out, Holds
  <1>12. ListRight'
    BY <1>1, <1>2, <1>3 DEF ExpandRight, ListRight, Looking
  <1>13. QED
    BY <1>4, <1>5, <1>6, <1>7, <1>8, <1>9, <1>10, <1>11, <1>12 DEF ExpandRight

-----------------------------------------------------------------------------
(***************************************************************************)
(* Linear probing.                                                         *)
(***************************************************************************)
\* A hash modulo the size of the table is a slot.
LEMMA HomeType ==
  ASSUME cap \in Nat \ {0}, NEW key, Hash(key) \in Nat
  PROVE  Hash(key) % cap \in 0 .. cap - 1
  <1> DEFINE x == Hash(key)
             m == cap
  <1>1. x \in Int /\ m \in Nat \ {0}
    OBVIOUS
  <1> HIDE DEF x, m
  <1>2. x % m \in 0 .. m - 1
    BY <1>1, ModType
  <1>3. QED
    BY <1>2 DEF x, m

\* Each probe looks at a slot.
LEMMA PosType ==
  ASSUME cap \in Nat \ {0}, NEW key, Hash(key) \in Nat, NEW p \in Nat
  PROVE  Pos(key, p) \in Slots
  <1> DEFINE a == (Hash(key) % cap) + p
  <1>1. a \in Int
    <2>1. Hash(key) % cap \in 0 .. cap - 1
      BY HomeType
    <2>2. QED
      BY <2>1
  <1> HIDE DEF a
  <1>2. a % cap \in 0 .. cap - 1
    BY <1>1, ModType
  <1>3. QED
    BY <1>2 DEF Pos, Slots, a

\* The next probe looks at the next slot, cyclically.
LEMMA PosNext ==
  ASSUME cap \in Nat \ {0}, NEW key, Hash(key) \in Nat, NEW p \in Nat
  PROVE  Pos(key, p + 1) = (Pos(key, p) + 1) % cap
  <1> DEFINE h == Hash(key) % cap
             a == h + p
  <1>1. h \in 0 .. cap - 1
    BY HomeType
  <1>2. a \in Int /\ a + 1 = h + (p + 1)
    BY <1>1
  <1> HIDE DEF h, a
  <1>3. ((a % cap) + 1) % cap = (a + 1) % cap
    <2> DEFINE m == cap
               one == 1
    <2>1. m \in Nat \ {0} /\ a \in Int /\ one \in Int
      BY <1>2
    <2> HIDE DEF m, one
    <2>2. ((a % m) + one) % m = (a + one) % m
      BY <2>1, ModAdd
    <2>3. QED
      BY <2>2 DEF m, one
  <1>4. QED
    BY <1>2, <1>3 DEF Pos, h, a

\* The probes for a key reach every slot.
LEMMA PosOnto ==
  ASSUME cap \in Nat \ {0}, NEW key, Hash(key) \in Nat, NEW s \in Slots
  PROVE  \E p \in 0 .. cap - 1 : Pos(key, p) = s
  <1> DEFINE h == Hash(key) % cap
  <1>1. h \in 0 .. cap - 1 /\ s \in 0 .. cap - 1 /\ cap \in Nat \ {0}
    BY HomeType DEF Slots
  <1>2. Pos(key, s - h) = (h + (s - h)) % cap /\ Pos(key, s - h + cap) = (h + (s - h + cap)) % cap
    BY DEF Pos
  <1> HIDE DEF h
  <1>3. CASE s >= h
    <2>1. s - h \in 0 .. cap - 1 /\ h + (s - h) = s
      BY <1>1, <1>3
    <2>2. s % cap = s
      BY <1>1, ModIdle
    <2>3. QED
      BY <1>2, <2>1, <2>2
  <1>4. CASE ~(s >= h)
    <2> DEFINE a == h + (s - h + cap)
    <2>1. s - h + cap \in 0 .. cap - 1 /\ a = cap * 1 + s /\ 1 \in Int /\ a \in Int
      BY <1>1, <1>4
    <2> HIDE DEF a
    <2>2. a % cap = s
      BY <1>1, <2>1, ModUnique
    <2>3. QED
      BY <1>2, <2>1, <2>2 DEF a
  <1>5. QED
    BY <1>3, <1>4

\* Thread i goes on to the next slot.
Move(i) ==
    /\ pc[i] = "match" /\ table_keys[slot[i]] # out[i] /\ probe[i] < cap - 1
    /\ pc' = [pc EXCEPT ![i] = "load"]
    /\ slot' = [slot EXCEPT ![i] = (@ + 1) % cap]
    /\ probe' = [probe EXCEPT ![i] = @ + 1]
    /\ UNCHANGED <<table, take, out, old>>
    /\ Frame

\* A thread that meets another key and goes on to the next slot keeps the invariant.
LEMMA MoveKeeps ==
  ASSUME KeysRight, edge < LastEdge, ExpandRight, NEW i \in Threads, Move(i)
  PROVE  ExpandRight'
  <1>1. /\ pc \in [Threads -> Steps \cup {"new", "done"}]
        /\ slot \in [Threads -> Slots] /\ probe \in [Threads -> 0 .. cap - 1]
        /\ cap \in Nat \ {0}
        /\ pc[i] = "match" /\ table_keys[slot[i]] # out[i] /\ probe[i] < cap - 1
        /\ pc' = [pc EXCEPT ![i] = "load"]
        /\ slot' = [slot EXCEPT ![i] = (slot[i] + 1) % cap]
        /\ probe' = [probe EXCEPT ![i] = probe[i] + 1]
        /\ UNCHANGED <<edge, keys, vals, cap, table_state, table_keys, table_vals, occupied, take, out, old>>
    BY DEF ExpandRight, TableTypes, Move, Frame, table
  <1>2. /\ pc'[i] = "load" /\ slot'[i] = (slot[i] + 1) % cap /\ probe'[i] = probe[i] + 1
        /\ \A j \in Threads : j # i => pc'[j] = pc[j] /\ slot'[j] = slot[j] /\ probe'[j] = probe[j]
    BY <1>1
  <1>3. Threads' = Threads /\ Slots' = Slots
    BY <1>1 DEF Threads, Slots
  <1>4. /\ out[i] \in Out(i, take[i]) /\ slot[i] = Pos(out[i], probe[i])
        /\ \A p \in 0 .. probe[i] - 1 : /\ table_state[Pos(out[i], p)] = 2
                                        /\ table_keys[Pos(out[i], p)] # out[i]
        /\ table_state[slot[i]] = 2
    BY <1>1 DEF ExpandRight, ProbesRight, ReadersRight, Steps
  <1>5. take[i] \in {0, 1} /\ probe[i] \in Nat
    BY <1>1 DEF ExpandRight, TableTypes
  <1>6. out[i] \in Reachable[edge + 1] /\ Hash(out[i]) \in Nat
    BY <1>4, <1>5, OutRight, NextTyped
  <1>7. slot'[i] = Pos(out[i], probe[i] + 1) /\ slot'[i] \in Slots
    <2>1. Pos(out[i], probe[i] + 1) = (slot[i] + 1) % cap
      BY <1>1, <1>4, <1>5, <1>6, PosNext
    <2>2. probe[i] + 1 \in Nat
      BY <1>5
    <2>3. Pos(out[i], probe[i] + 1) \in Slots
      BY <1>1, <1>6, <2>2, PosType
    <2>4. QED
      BY <1>2, <2>1, <2>3
  <1>8. TableTypes'
    <2>1. pc' \in [Threads -> Steps \cup {"new", "done"}]
      BY <1>1 DEF Steps
    <2>2. slot' \in [Threads -> Slots]
      BY <1>1, <1>2, <1>7
    <2>3. probe' \in [Threads -> 0 .. cap - 1]
      <3>1. probe[i] + 1 \in 0 .. cap - 1
        BY <1>1, <1>5
      <3>2. QED
        BY <1>1, <3>1
    <2>4. QED
      BY <1>1, <1>3, <2>1, <2>2, <2>3 DEF ExpandRight, TableTypes
  <1>9. StatesRight'
    BY <1>1, <1>3 DEF ExpandRight, StatesRight, Holds
  <1>10. WritersRight'
    BY <1>1, <1>2, <1>3 DEF ExpandRight, WritersRight, Holds, Writing
  <1>11. ReadersRight'
    BY <1>1, <1>2, <1>3 DEF ExpandRight, ReadersRight
  <1>12. ProbesRight'
    <2>1. ASSUME NEW j \in Threads, pc'[j] \in Steps
          PROVE  /\ out[j] \in Out(j, take[j])
                 /\ slot'[j] = Pos(out[j], probe'[j])
                 /\ \A p \in 0 .. probe'[j] - 1 : /\ table_state[Pos(out[j], p)] = 2
                                                  /\ table_keys[Pos(out[j], p)] # out[j]
      <3>1. CASE j = i
        <4>1. \A p \in 0 .. probe'[i] - 1 : p \in 0 .. probe[i] - 1 \/ p = probe[i]
          BY <1>2, <1>5
        <4>2. QED
          BY <1>1, <1>2, <1>4, <1>7, <3>1, <4>1
      <3>2. CASE j # i
        BY <1>2, <2>1, <3>2 DEF ExpandRight, ProbesRight
      <3>3. QED
        BY <3>1, <3>2
    <2>2. QED
      BY <1>1, <1>3, <2>1 DEF ProbesRight, Out, Pos
  <1>13. PathsRight'
    BY <1>1, <1>2, <1>3 DEF ExpandRight, PathsRight, Holds, Pos
  <1>14. KeysDistinct'
    BY <1>1, <1>2, <1>3, SMTT(20) DEF ExpandRight, KeysDistinct, Holds
  <1>15. SumsHeld'
    <2>1. Arrived' = Arrived
      BY <1>1, <1>2, <1>3 DEF Arrived
    <2>2. QED
      BY <1>1, <1>3, <2>1 DEF ExpandRight, SumsHeld, Total, Out, Holds
  <1>16. ListRight'
    BY <1>1, <1>2, <1>3 DEF ExpandRight, ListRight
  <1>17. QED
    BY <1>8, <1>9, <1>10, <1>11, <1>12, <1>13, <1>14, <1>15, <1>16 DEF ExpandRight

-----------------------------------------------------------------------------
(***************************************************************************)
(* Claiming a slot: a thread that finds an empty slot has passed all those *)
(* where its key could be, so that the key is not in the table, nor about to*)
(* be.                                                                     *)
(***************************************************************************)
\* What a thread under way knows of its key.
LEMMA KeyUnderWay ==
  ASSUME KeysRight, edge < LastEdge, ExpandRight, NEW i \in Threads, pc[i] \in Steps
  PROVE  /\ take[i] \in {0, 1} /\ out[i] \in Out(i, take[i])
         /\ Out(i, take[i]) = {out[i]}
         /\ out[i] \in Reachable[edge + 1] /\ out[i] # NoKey /\ Hash(out[i]) \in Nat
  <1>1. take[i] \in {0, 1} /\ out[i] \in Out(i, take[i])
    BY DEF ExpandRight, TableTypes, ProbesRight
  <1>2. out[i] \in Reachable[edge + 1] /\ AtMostOne(Out(i, take[i]))
    BY <1>1, OutRight
  <1>3. QED
    BY <1>1, <1>2, NextTyped DEF AtMostOne

\* Thread i claims an empty slot.
Own(i) ==
    /\ pc[i] = "claim" /\ table_state[slot[i]] = 0
    /\ table_state' = [table_state EXCEPT ![slot[i]] = 1]
    /\ pc' = [pc EXCEPT ![i] = "write"]
    /\ UNCHANGED <<table_keys, table_vals, occupied, thread>>
    /\ Frame

\* No slot has the key of a thread that has found an empty one.
LEMMA KeyIsNew ==
  ASSUME KeysRight, edge < LastEdge, ExpandRight, NEW i \in Threads,
         pc[i] = "claim", table_state[slot[i]] = 0
  PROVE  /\ \A s \in Slots : table_keys[s] # out[i]
         /\ \A j \in Threads : pc[j] \in Writing => out[j] # out[i]
  <1>1. /\ out[i] # NoKey /\ slot[i] = Pos(out[i], probe[i]) /\ slot[i] \in Slots
        /\ probe[i] \in 0 .. cap - 1 /\ cap \in Nat
        /\ \A p \in 0 .. probe[i] - 1 : /\ table_state[Pos(out[i], p)] = 2
                                        /\ table_keys[Pos(out[i], p)] # out[i]
    BY KeyUnderWay DEF ExpandRight, TableTypes, ProbesRight, Steps
  <1>2. table_keys[slot[i]] = NoKey
    BY <1>1 DEF ExpandRight, StatesRight, Holds
  <1>3. ASSUME NEW s \in Slots, table_keys[s] = out[i] PROVE FALSE
    <2>1. PICK p \in 0 .. cap - 1 : /\ s = Pos(out[i], p)
                                    /\ \A q \in 0 .. p - 1 : table_state[Pos(out[i], q)] # 0
      BY <1>1, <1>3 DEF ExpandRight, PathsRight, Holds
    <2>2. CASE p < probe[i]
      <3>1. p \in 0 .. probe[i] - 1
        BY <1>1, <2>2
      <3>2. QED
        BY <1>1, <1>3, <2>1, <3>1
    <2>3. CASE p = probe[i]
      BY <1>1, <1>2, <1>3, <2>1, <2>3
    <2>4. CASE p > probe[i]
      <3>1. probe[i] \in 0 .. p - 1
        BY <1>1, <2>4
      <3>2. QED
        BY <1>1, <2>1, <3>1
    <2>5. QED
      BY <1>1, <2>2, <2>3, <2>4
  <1>4. ASSUME NEW j \in Threads, pc[j] \in Writing, out[j] = out[i] PROVE FALSE
    <2>1. table_state[slot[j]] = 1
      BY <1>4 DEF ExpandRight, WritersRight
    <2>2. /\ slot[j] = Pos(out[i], probe[j]) /\ probe[j] \in 0 .. cap - 1
          /\ \A p \in 0 .. probe[j] - 1 : table_state[Pos(out[i], p)] = 2
      BY <1>4 DEF ExpandRight, TableTypes, ProbesRight, Steps
    <2>3. CASE probe[j] < probe[i]
      <3>1. probe[j] \in 0 .. probe[i] - 1
        BY <1>1, <2>2, <2>3
      <3>2. QED
        BY <1>1, <2>1, <2>2, <3>1
    <2>4. CASE probe[j] = probe[i]
      BY <1>1, <2>1, <2>2, <2>4
    <2>5. CASE probe[j] > probe[i]
      <3>1. probe[i] \in 0 .. probe[j] - 1
        BY <1>1, <2>2, <2>5
      <3>2. QED
        BY <1>1, <2>2, <3>1
    <2>6. QED
      BY <1>1, <2>2, <2>3, <2>4, <2>5
  <1>5. QED
    BY <1>3, <1>4

\* The compare-and-swap that claims an empty slot keeps the invariant.
LEMMA OwnKeeps ==
  ASSUME KeysRight, edge < LastEdge, ExpandRight, NEW i \in Threads, Own(i)
  PROVE  ExpandRight'
  <1>1. /\ pc \in [Threads -> Steps \cup {"new", "done"}] /\ slot \in [Threads -> Slots]
        /\ table_state \in [Slots -> 0 .. 2]
        /\ pc[i] = "claim" /\ table_state[slot[i]] = 0
        /\ table_state' = [table_state EXCEPT ![slot[i]] = 1]
        /\ pc' = [pc EXCEPT ![i] = "write"]
        /\ UNCHANGED <<edge, keys, vals, cap, table_keys, table_vals, occupied, take, out, slot, probe, old>>
    BY DEF ExpandRight, TableTypes, Own, Frame, thread
  <1>2. /\ pc'[i] = "write" /\ \A j \in Threads : j # i => pc'[j] = pc[j]
        /\ table_state'[slot[i]] = 1 /\ \A s \in Slots : s # slot[i] => table_state'[s] = table_state[s]
        /\ slot[i] \in Slots
    BY <1>1
  <1>3. Threads' = Threads /\ Slots' = Slots
    BY <1>1 DEF Threads, Slots
  <1>4. TableTypes'
    <2>1. pc' \in [Threads -> Steps \cup {"new", "done"}]
      BY <1>1 DEF Steps, Writing
    <2>2. table_state' \in [Slots -> 0 .. 2]
      BY <1>1
    <2>3. QED
      BY <1>1, <1>3, <2>1, <2>2 DEF ExpandRight, TableTypes
  <1>5. StatesRight'
    BY <1>1, <1>2, <1>3 DEF ExpandRight, StatesRight, Holds
  <1>6. WritersRight'
    <2>1. \A j \in Threads : pc[j] \in Writing => table_state[slot[j]] = 1 /\ slot[j] # slot[i]
      BY <1>1 DEF ExpandRight, WritersRight
    <2>2. \A s \in Slots : table_state'[s] = 1 => \E j \in Threads : pc'[j] \in Writing /\ slot[j] = s
      <3>1. ASSUME NEW s \in Slots, table_state'[s] = 1
            PROVE  \E j \in Threads : pc'[j] \in Writing /\ slot[j] = s
        <4>1. CASE s = slot[i]
          BY <1>2, <4>1 DEF Writing
        <4>2. CASE s # slot[i]
          <5>1. table_state[s] = 1
            BY <1>2, <3>1, <4>2
          <5>2. PICK j \in Threads : pc[j] \in Writing /\ slot[j] = s
            BY <5>1 DEF ExpandRight, WritersRight
          <5>3. QED
            BY <1>2, <4>2, <5>2
        <4>3. QED
          BY <4>1, <4>2
      <3>2. QED
        BY <3>1
    <2>3. \A j, k \in Threads :
            pc'[j] \in Writing /\ pc'[k] \in Writing /\ slot[j] = slot[k] => j = k
      BY <1>1, <1>2, <2>1 DEF ExpandRight, WritersRight
    <2>4. \A j \in Threads : pc'[j] \in Writing => table_state'[slot[j]] = 1
      BY <1>1, <1>2, <2>1
    <2>5. table_keys[slot[i]] = NoKey
      BY <1>1, <1>2 DEF ExpandRight, StatesRight, Holds
    <2>6. \A j \in Threads : /\ pc'[j] = "write" => ~Holds(slot[j])
                             /\ pc'[j] \in {"list", "publish"} => table_keys[slot[j]] = out[j]
      BY <1>1, <1>2, <2>5 DEF ExpandRight, WritersRight, Holds
    <2>7. QED
      BY <1>1, <1>3, <2>2, <2>3, <2>4, <2>6 DEF WritersRight, Holds
  <1>7. ReadersRight'
    BY <1>1, <1>2, <1>3 DEF ExpandRight, ReadersRight
  <1>8. \A s \in Slots : /\ table_state[s] # 0 => table_state'[s] # 0
                         /\ table_state[s] = 2 => table_state'[s] = 2
    BY <1>1, <1>2
  <1>9. ProbesRight'
    <2>1. ASSUME NEW j \in Threads, pc'[j] \in Steps
          PROVE  /\ out[j] \in Out(j, take[j])
                 /\ slot[j] = Pos(out[j], probe[j])
                 /\ \A p \in 0 .. probe[j] - 1 : /\ table_state'[Pos(out[j], p)] = 2
                                                 /\ table_keys[Pos(out[j], p)] # out[j]
      <3>1. pc[j] \in Steps
        BY <1>1, <1>2, <2>1 DEF Steps
      <3>2. Hash(out[j]) \in Nat /\ cap \in Nat \ {0} /\ probe[j] \in 0 .. cap - 1
        BY <3>1, KeyUnderWay DEF ExpandRight, TableTypes
      <3>3. \A p \in 0 .. probe[j] - 1 : Pos(out[j], p) \in Slots
        BY <3>2, PosType
      <3>4. QED
        BY <1>8, <3>1, <3>3 DEF ExpandRight, ProbesRight
    <2>2. QED
      BY <1>1, <1>3, <2>1 DEF ProbesRight, Out, Pos
  <1>10. PathsRight'
    <2>1. ASSUME NEW s \in Slots, Holds(s)
          PROVE  \E p \in 0 .. cap - 1 :
                    /\ s = Pos(table_keys[s], p)
                    /\ \A q \in 0 .. p - 1 : table_state'[Pos(table_keys[s], q)] # 0
      <3>1. PICK p \in 0 .. cap - 1 : /\ s = Pos(table_keys[s], p)
                                      /\ \A q \in 0 .. p - 1 : table_state[Pos(table_keys[s], q)] # 0
        BY <2>1 DEF ExpandRight, PathsRight
      <3>2. table_keys[s] \in Reachable[edge + 1] /\ cap \in Nat \ {0}
        BY <2>1 DEF ExpandRight, TableTypes, Holds
      <3>3. Hash(table_keys[s]) \in Nat
        BY <3>2, NextTyped
      <3>4. \A q \in 0 .. p - 1 : Pos(table_keys[s], q) \in Slots
        BY <3>2, <3>3, PosType
      <3>5. QED
        BY <1>8, <3>1, <3>4
    <2>2. QED
      BY <1>1, <1>3, <2>1 DEF PathsRight, Holds, Pos
  <1>11. KeysDistinct'
    <2>1. /\ \A s \in Slots : table_keys[s] # out[i]
          /\ \A j \in Threads : pc[j] = "write" => out[j] # out[i]
      BY <1>1, KeyIsNew, SMTT(20) DEF Writing
    <2>2. QED
      BY <1>1, <1>2, <1>3, <2>1 DEF ExpandRight, KeysDistinct, Holds
  <1>12. SumsHeld'
    <2>1. Arrived' = Arrived
      BY <1>1, <1>2, <1>3 DEF Arrived
    <2>2. QED
      BY <1>1, <1>3, <2>1 DEF ExpandRight, SumsHeld, Total, Out, Holds
  <1>13. ListRight'
    BY <1>1, <1>2, <1>3 DEF ExpandRight, ListRight
  <1>14. QED
    BY <1>4, <1>5, <1>6, <1>7, <1>9, <1>10, <1>11, <1>12, <1>13 DEF ExpandRight

-----------------------------------------------------------------------------
(***************************************************************************)
(* What the insertions add up to, and the step by which one arrives in a   *)
(* new slot.                                                               *)
(***************************************************************************)
Insertions == Threads \X {0, 1}
Had(key, A) == {y \in A : key \in Out(y[1], y[2])}
AddUp(S) == SumFunction([x \in S |-> vals[x[1]]])

\* The total of a key is the sum over its insertions, modulo Mod.
LEMMA TotalDef ==
  ASSUME NEW key, NEW A
  PROVE  Total(key, A) = AddUp(Had(key, A)) % Mod
  BY DEF Total, AddUp, Had

\* How many numbers there are from 1 to n.
LEMMA UpTo ==
  ASSUME NEW n \in Nat
  PROVE  IsFiniteSet(1 .. n) /\ Cardinality(1 .. n) = n
  <1>1. CASE n = 0
    <2>1. 1 .. n = {}
      BY <1>1
    <2>2. QED
      BY <1>1, <2>1, FS_EmptySet
  <1>2. CASE n # 0
    <2>1. 1 \in Int /\ n \in Int /\ ~(1 > n) /\ n - 1 + 1 = n
      BY <1>2
    <2>2. QED
      BY <2>1, FS_Interval
  <1>3. QED
    BY <1>1, <1>2

\* There are two possible insertions for each key.
LEMMA InsertionsFinite ==
  ASSUME KeysRight
  PROVE  /\ IsFiniteSet(Insertions) /\ Cardinality(Insertions) = 2 * Len(keys)
         /\ Len(keys) \in Nat /\ Threads = 1 .. Len(keys)
  <1>1. Len(keys) \in Nat /\ Threads = 1 .. Len(keys)
    BY DEF KeysRight, Threads
  <1>2. IsFiniteSet(1 .. Len(keys)) /\ Cardinality(1 .. Len(keys)) = Len(keys)
    BY <1>1, UpTo
  <1>3. IsFiniteSet(0 .. 1) /\ Cardinality(0 .. 1) = 2 /\ 0 .. 1 = {0, 1}
    <2>1. 0 \in Int /\ 1 \in Int /\ ~(0 > 1) /\ 1 - 0 + 1 = 2 /\ 0 .. 1 = {0, 1}
      OBVIOUS
    <2>2. IsFiniteSet(0 .. 1) /\ Cardinality(0 .. 1) = 1 - 0 + 1
      BY <2>1, FS_Interval
    <2>3. QED
      BY <2>1, <2>2
  <1>4. IsFiniteSet({0, 1}) /\ Cardinality({0, 1}) = 2
    BY <1>3
  <1>5. IsFiniteSet(Threads) /\ Cardinality(Threads) = Len(keys)
    BY <1>1, <1>2
  <1>6. IsFiniteSet(Threads \X {0, 1}) /\ Cardinality(Threads \X {0, 1}) = Cardinality(Threads) * Cardinality({0, 1})
    BY <1>4, <1>5, FS_Product
  <1>7. QED
    BY <1>1, <1>4, <1>5, <1>6 DEF Insertions

\* The sum over insertions is a natural, and grows by the thread's value with each insertion.
LEMMA AddUpRight ==
  ASSUME KeysRight, NEW S \in SUBSET Insertions
  PROVE  /\ AddUp(S) \in Nat
         /\ \A x \in Insertions : x \notin S => AddUp(S \cup {x}) = vals[x[1]] + AddUp(S)
  <1> DEFINE f == [x \in Insertions |-> vals[x[1]]]
  <1>1. \A x \in Insertions : f[x] \in Nat /\ f[x] = vals[x[1]]
    BY ModConst DEF KeysRight, Insertions
  <1>2. \A T \in SUBSET Insertions : IsFiniteSet(T)
    BY InsertionsFinite, FS_Subset
  <1> HIDE DEF f
  <1>3. ASSUME NEW T \in SUBSET Insertions PROVE AddUp(T) = SumFunctionOnSet(f, T)
    <2> DEFINE g == [x \in T |-> vals[x[1]]]
    <2>1. DOMAIN g = T /\ \A x \in T : f[x] \in Nat /\ f[x] = g[x]
      BY <1>1
    <2>2. AddUp(T) = SumFunctionOnSet(g, T)
      BY <2>1 DEF AddUp, SumFunction
    <2> HIDE DEF g
    <2>3. SumFunctionOnSet(f, T) = SumFunctionOnSet(g, T)
      BY <1>2, <2>1, SumExt
    <2>4. QED
      BY <2>2, <2>3
  <1>4. AddUp(S) \in Nat
    <2>1. SumFunctionOnSet(f, S) \in Nat
      BY <1>1, <1>2, SumType
    <2>2. QED
      BY <1>3, <2>1
  <1>5. ASSUME NEW x \in Insertions, x \notin S
        PROVE  AddUp(S \cup {x}) = vals[x[1]] + AddUp(S)
    <2>1. S \cup {x} \in SUBSET Insertions /\ IsFiniteSet(S)
      BY <1>2
    <2>2. \A y \in S \cup {x} : f[y] \in Nat
      BY <1>1
    <2>3. SumFunctionOnSet(f, S \cup {x}) = f[x] + SumFunctionOnSet(f, S)
      BY <1>5, <2>1, <2>2, SumAdd
    <2>4. QED
      BY <1>1, <1>3, <2>1, <2>3
  <1>6. QED
    BY <1>4, <1>5

\* The sum over one insertion.
LEMMA AddUpOne ==
  ASSUME KeysRight, NEW x \in Insertions
  PROVE  AddUp({x}) = vals[x[1]]
  <1>1. AddUp({}) = 0
    <2> DEFINE g == [y \in {} |-> vals[y[1]]]
    <2>1. DOMAIN g = {}
      OBVIOUS
    <2>2. AddUp({}) = SumFunctionOnSet(g, {})
      BY <2>1 DEF AddUp, SumFunction
    <2> HIDE DEF g
    <2>3. QED
      BY <2>2, SumEmpty
  <1>2. {} \in SUBSET Insertions /\ {} \cup {x} = {x} /\ x \notin {}
    OBVIOUS
  <1>3. AddUp({} \cup {x}) = vals[x[1]] + AddUp({})
    BY <1>2, AddUpRight
  <1>4. vals[x[1]] \in Nat
    BY ModConst DEF KeysRight, Insertions
  <1>5. QED
    BY <1>1, <1>2, <1>3, <1>4

\* The totals depend only on the insertions that have a key.
LEMMA TotalSame ==
  ASSUME NEW A \in SUBSET Insertions, NEW B \in SUBSET Insertions, NEW key,
         \A y \in Insertions : Out(y[1], y[2]) # {} => (y \in A <=> y \in B)
  PROVE  Total(key, A) = Total(key, B)
  <1>1. Had(key, A) = Had(key, B)
    BY DEF Had
  <1>2. QED
    BY <1>1, TotalDef

\* One more insertion has arrived, of another key.
LEMMA TotalOther ==
  ASSUME NEW A \in SUBSET Insertions, NEW x \in Insertions, NEW key, key \notin Out(x[1], x[2])
  PROVE  Total(key, A \cup {x}) = Total(key, A)
  <1>1. Had(key, A \cup {x}) = Had(key, A)
    BY DEF Had
  <1>2. QED
    BY <1>1, TotalDef

\* One more insertion has arrived.
LEMMA TotalOneMore ==
  ASSUME KeysRight, NEW A \in SUBSET Insertions, NEW x \in Insertions, x \notin A,
         NEW k \in Out(x[1], x[2]), AtMostOne(Out(x[1], x[2])), NEW key
  PROVE  /\ key # k => Total(key, A \cup {x}) = Total(key, A)
         /\ key = k => Total(key, A \cup {x}) = (vals[x[1]] + Total(key, A)) % Mod
  <1>1. CASE key # k
    <2>1. Had(key, A \cup {x}) = Had(key, A)
      BY <1>1 DEF Had, AtMostOne
    <2>2. QED
      BY <1>1, <2>1, TotalDef
  <1>2. CASE key = k
    <2> DEFINE S == Had(key, A)
    <2>1. S \in SUBSET Insertions /\ x \notin S /\ Had(key, A \cup {x}) = S \cup {x}
      BY <1>2 DEF Had
    <2>2. Total(key, A) = AddUp(S) % Mod /\ Total(key, A \cup {x}) = AddUp(S \cup {x}) % Mod
      BY <2>1, TotalDef
    <2> HIDE DEF S
    <2>3. AddUp(S) \in Nat /\ AddUp(S \cup {x}) = vals[x[1]] + AddUp(S) /\ vals[x[1]] \in Nat
      <3>1. AddUp(S) \in Nat /\ AddUp(S \cup {x}) = vals[x[1]] + AddUp(S)
        BY <2>1, AddUpRight
      <3>2. vals[x[1]] \in Nat
        BY ModConst DEF KeysRight, Insertions
      <3>3. QED
        BY <3>1, <3>2
    <2> DEFINE a == AddUp(S)
               v == vals[x[1]]
    <2>4. a \in Int /\ v \in Int /\ Mod \in Nat \ {0} /\ v + a = a + v
      BY <2>3, ModConst
    <2> HIDE DEF a, v
    <2>5. ((a % Mod) + v) % Mod = (a + v) % Mod
      BY <2>4, ModAdd
    <2>6. a % Mod \in Nat
      BY <2>4, ModType
    <2>7. (a % Mod) + v = v + (a % Mod)
      BY <2>4, <2>6
    <2>8. QED
      BY <1>2, <2>2, <2>3, <2>4, <2>5, <2>7 DEF a, v
  <1>3. QED
    BY <1>1, <1>2

\* SumsHeld after a step that leaves keys and vals alone.
LEMMA SumsNext ==
  ASSUME Frame,
         \A y \in Arrived' : \A key \in Out(y[1], y[2]) : \E s \in Slots : table_keys'[s] = key,
         \A s \in Slots : table_keys'[s] # NoKey =>
            table_vals'[s] = Total(table_keys'[s], Arrived')
  PROVE  SumsHeld'
  <1>1. \A j, t : Out(j, t)' = Out(j, t)
    BY DEF Out, Frame
  <1>2. Slots' = Slots /\ vals' = vals
    BY DEF Slots, Frame
  <1>3. ASSUME NEW s \in Slots
        PROVE  Total(table_keys[s], Arrived)' = Total(table_keys'[s], Arrived')
    <2> DEFINE S == {y \in Arrived' : table_keys'[s] \in Out(y[1], y[2])}
               T == {y \in Arrived' : table_keys'[s] \in Out(y[1], y[2])'}
    <2>1. T = S
      BY <1>1
    <2>2. [x \in T |-> vals'[x[1]]] = [x \in S |-> vals[x[1]]]
      BY <1>2, <2>1
    <2>3. QED
      BY <2>2 DEF Total
  <1>4. QED
    BY <1>1, <1>2, <1>3 DEF SumsHeld, Holds

\* The writer of a claimed slot stores its key and value: this is when its insertion arrives.
LEMMA WriteKeeps ==
  ASSUME KeysRight, edge < LastEdge, ExpandRight, NEW i \in Threads, Write(i), Frame
  PROVE  ExpandRight'
  <1> DEFINE x == <<i, take[i]>>
  <1>1. /\ pc \in [Threads -> Steps \cup {"new", "done"}] /\ slot \in [Threads -> Slots]
        /\ table_keys \in [Slots -> Reachable[edge + 1] \cup {NoKey}]
        /\ table_vals \in [Slots -> 0 .. Mod - 1]
        /\ pc[i] = "write"
        /\ table_keys' = [table_keys EXCEPT ![slot[i]] = out[i]]
        /\ table_vals' = [table_vals EXCEPT ![slot[i]] = vals[i]]
        /\ pc' = [pc EXCEPT ![i] = "list"]
        /\ UNCHANGED <<edge, keys, vals, cap, table_state, occupied, take, out, slot, probe, old>>
    BY DEF ExpandRight, TableTypes, Write, Frame, thread
  <1>2. /\ pc'[i] = "list" /\ \A j \in Threads : j # i => pc'[j] = pc[j]
        /\ table_keys'[slot[i]] = out[i] /\ table_vals'[slot[i]] = vals[i]
        /\ \A s \in Slots : s # slot[i] => table_keys'[s] = table_keys[s] /\ table_vals'[s] = table_vals[s]
        /\ slot[i] \in Slots
    BY <1>1
  <1>3. Threads' = Threads /\ Slots' = Slots
    BY <1>1 DEF Threads, Slots
  <1>4. /\ take[i] \in {0, 1} /\ Out(i, take[i]) = {out[i]}
        /\ out[i] \in Reachable[edge + 1] /\ out[i] # NoKey /\ Hash(out[i]) \in Nat
    BY <1>1, KeyUnderWay DEF Steps, Writing
  <1>5. vals[i] \in 0 .. Mod - 1
    BY DEF KeysRight
  <1>6. /\ table_state[slot[i]] = 1 /\ table_keys[slot[i]] = NoKey
        /\ \A j \in Threads : pc[j] \in Writing /\ slot[j] = slot[i] => j = i
    BY <1>1 DEF ExpandRight, WritersRight, Writing, Holds
  <1>7. /\ \A s \in Slots : table_keys[s] # out[i]
        /\ \A j \in Threads : pc[j] = "write" /\ out[j] = out[i] => j = i
    BY <1>1 DEF ExpandRight, KeysDistinct
  <1>8. TableTypes'
    <2>1. pc' \in [Threads -> Steps \cup {"new", "done"}]
      BY <1>1 DEF Steps, Writing
    <2>2. table_keys' \in [Slots -> Reachable[edge + 1] \cup {NoKey}]
      BY <1>1, <1>4
    <2>3. table_vals' \in [Slots -> 0 .. Mod - 1]
      BY <1>1, <1>5
    <2>4. QED
      BY <1>1, <1>3, <2>1, <2>2, <2>3 DEF ExpandRight, TableTypes
  <1>9. StatesRight'
    BY <1>1, <1>2, <1>3, <1>6 DEF ExpandRight, StatesRight, Holds
  <1>10. WritersRight'
    <2>1. \A s \in Slots : table_state[s] = 1 => \E j \in Threads : pc'[j] \in Writing /\ slot[j] = s
      BY <1>1, <1>2 DEF ExpandRight, WritersRight, Writing
    <2>2. \A j, k \in Threads :
            pc'[j] \in Writing /\ pc'[k] \in Writing /\ slot[j] = slot[k] => j = k
      BY <1>1, <1>2 DEF ExpandRight, WritersRight, Writing
    <2>3. ASSUME NEW j \in Threads
          PROVE  /\ pc'[j] \in Writing => table_state[slot[j]] = 1
                 /\ pc'[j] = "write" => ~(table_keys'[slot[j]] # NoKey)
                 /\ pc'[j] \in {"list", "publish"} => table_keys'[slot[j]] = out[j]
      <3>1. CASE j = i
        BY <1>2, <1>6, <3>1
      <3>2. CASE j # i
        <4>1. pc'[j] = pc[j] /\ slot[j] \in Slots
          BY <1>1, <1>2, <3>2
        <4>2. pc[j] \in Writing => table_keys'[slot[j]] = table_keys[slot[j]]
          BY <1>2, <1>6, <3>2, <4>1
        <4>3. QED
          BY <4>1, <4>2 DEF ExpandRight, WritersRight, Writing, Holds
      <3>3. QED
        BY <3>1, <3>2
    <2>4. QED
      BY <1>1, <1>3, <2>1, <2>2, <2>3 DEF WritersRight, Holds
  <1>11. ReadersRight'
    BY <1>1, <1>2, <1>3, <1>6 DEF ExpandRight, ReadersRight
  <1>12. ProbesRight'
    <2>1. ASSUME NEW j \in Threads, pc'[j] \in Steps
          PROVE  /\ out[j] \in Out(j, take[j])
                 /\ slot[j] = Pos(out[j], probe[j])
                 /\ \A p \in 0 .. probe[j] - 1 : /\ table_state[Pos(out[j], p)] = 2
                                                 /\ table_keys'[Pos(out[j], p)] # out[j]
      <3>1. pc[j] \in Steps
        BY <1>1, <1>2, <2>1 DEF Steps, Writing
      <3>2. Hash(out[j]) \in Nat /\ cap \in Nat \ {0} /\ probe[j] \in 0 .. cap - 1
        BY <3>1, KeyUnderWay DEF ExpandRight, TableTypes
      <3>3. \A p \in 0 .. probe[j] - 1 : Pos(out[j], p) \in Slots
        BY <3>2, PosType
      <3>4. QED
        BY <1>2, <1>6, <3>1, <3>3 DEF ExpandRight, ProbesRight
    <2>2. QED
      BY <1>1, <1>3, <2>1 DEF ProbesRight, Out, Pos
  <1>13. PathsRight'
    <2>1. ASSUME NEW s \in Slots, table_keys'[s] # NoKey
          PROVE  \E p \in 0 .. cap - 1 :
                    /\ s = Pos(table_keys'[s], p)
                    /\ \A q \in 0 .. p - 1 : table_state[Pos(table_keys'[s], q)] # 0
      <3>1. CASE s = slot[i]
        <4>1. /\ slot[i] = Pos(out[i], probe[i]) /\ probe[i] \in 0 .. cap - 1
              /\ \A q \in 0 .. probe[i] - 1 : table_state[Pos(out[i], q)] # 0
          BY <1>1 DEF ExpandRight, TableTypes, ProbesRight, Steps, Writing
        <4>2. QED
          BY <1>2, <3>1, <4>1
      <3>2. CASE s # slot[i]
        BY <1>2, <2>1, <3>2 DEF ExpandRight, PathsRight, Holds
      <3>3. QED
        BY <3>1, <3>2
    <2>2. QED
      BY <1>1, <1>3, <2>1 DEF PathsRight, Holds, Pos
  <1>14. KeysDistinct'
    <2>1. \A s, r \in Slots : table_keys'[s] # NoKey /\ table_keys'[s] = table_keys'[r] => s = r
      BY <1>2, <1>7 DEF ExpandRight, KeysDistinct, Holds
    <2>2. \A j \in Threads : pc'[j] = "write" => \A s \in Slots : table_keys'[s] # out[j]
      BY <1>1, <1>2, <1>7 DEF ExpandRight, KeysDistinct
    <2>3. \A j, k \in Threads : pc'[j] = "write" /\ pc'[k] = "write" /\ out[j] = out[k] => j = k
      BY <1>1, <1>2 DEF ExpandRight, KeysDistinct
    <2>4. QED
      BY <1>1, <1>3, <2>1, <2>2, <2>3 DEF KeysDistinct, Holds
  <1>15. SumsHeld'
    <2>1. x \in Insertions /\ x \notin Arrived /\ Arrived' = Arrived \cup {x}
      <3>1. x \in Insertions
        BY <1>4 DEF Insertions
      <3>2. x \notin Arrived
        BY <1>1, <1>4 DEF Arrived
      <3>3. Arrived' = Arrived \cup {x}
        <4>1. ASSUME NEW y \in Insertions PROVE y \in Arrived' <=> y \in Arrived \/ y = x
          <5>1. CASE y[1] = i
            <6>1. y = <<i, y[2]>> /\ y[2] \in {0, 1}
              BY <5>1 DEF Insertions
            <6>2. y = x <=> y[2] = take[i]
              BY <6>1
            <6>3. y \in Arrived' <=> y[2] < take[i] \/ y[2] = take[i]
              BY <1>1, <1>2, <1>3, <5>1 DEF Arrived, Insertions
            <6>4. y \in Arrived <=> y[2] < take[i]
              BY <1>1, <5>1 DEF Arrived, Insertions
            <6>5. QED
              BY <6>2, <6>3, <6>4
          <5>2. CASE y[1] # i
            <6>1. y # x /\ y[1] \in Threads /\ y[2] \in {0, 1}
              BY <5>2 DEF Insertions
            <6>2. QED
              BY <1>1, <1>2, <1>3, <5>2, <6>1 DEF Arrived, Insertions
          <5>3. QED
            BY <5>1, <5>2
        <4>2. Arrived \subseteq Insertions /\ Arrived' \subseteq Insertions
          BY <1>3 DEF Arrived, Insertions
        <4>3. QED
          BY <3>1, <4>1, <4>2
      <3>4. QED
        BY <3>1, <3>2, <3>3
    <2>2. \A y \in Arrived' : \A key \in Out(y[1], y[2]) : \E s \in Slots : table_keys'[s] = key
      <3>1. ASSUME NEW y \in Arrived, NEW key \in Out(y[1], y[2])
            PROVE  \E s \in Slots : table_keys'[s] = key
        <4>1. PICK s \in Slots : table_keys[s] = key
          BY <3>1 DEF ExpandRight, SumsHeld
        <4>2. y[1] \in Threads /\ y[2] \in {0, 1}
          BY DEF Arrived
        <4>3. key # NoKey
          BY <4>2, OutRight, NextTyped
        <4>4. QED
          BY <1>2, <1>6, <4>1, <4>3
      <3>2. \A key \in Out(x[1], x[2]) : \E s \in Slots : table_keys'[s] = key
        BY <1>2, <1>4
      <3>3. QED
        BY <2>1, <3>1, <3>2
    <2>3. \A k \in Out(x[1], x[2]) : k = out[i]
      BY <1>4
    <2>4. /\ Arrived \in SUBSET Insertions /\ Out(x[1], x[2]) = {out[i]}
          /\ out[i] \in Out(x[1], x[2]) /\ AtMostOne(Out(x[1], x[2]))
      BY <1>4 DEF Arrived, Insertions, AtMostOne
    <2> HIDE DEF x
    <2>0. \A key : key # out[i] => Total(key, Arrived \cup {x}) = Total(key, Arrived)
      <3>1. ASSUME NEW key, key # out[i] PROVE Total(key, Arrived \cup {x}) = Total(key, Arrived)
        <4>1. Arrived \in SUBSET Insertions /\ x \in Insertions /\ key \notin Out(x[1], x[2])
          BY <2>1, <2>4, <3>1
        <4>2. QED
          BY <4>1, TotalOther
      <3>2. QED
        BY <3>1
    <2>5. ASSUME NEW s \in Slots, table_keys'[s] # NoKey
          PROVE  table_vals'[s] = Total(table_keys'[s], Arrived')
      <3>1. CASE s = slot[i]
        <4>1. Had(out[i], Arrived) = {}
          <5>1. SUFFICES ASSUME NEW y \in Arrived, out[i] \in Out(y[1], y[2]) PROVE FALSE
            BY DEF Had
          <5>2. \E r \in Slots : table_keys[r] = out[i]
            BY <5>1 DEF ExpandRight, SumsHeld
          <5>3. QED
            BY <1>7, <5>2
        <4>2. Had(out[i], Arrived \cup {x}) = {x}
          BY <2>4, <4>1 DEF Had
        <4>3. AddUp({x}) = vals[i]
          <5>1. AddUp({x}) = vals[x[1]]
            BY <2>1, AddUpOne
          <5>2. QED
            BY <5>1 DEF x
        <4>4. vals[i] % Mod = vals[i]
          BY <1>5, ModConst, ModIdle
        <4>5. Total(out[i], Arrived \cup {x}) = vals[i]
          BY <4>2, <4>3, <4>4, TotalDef
        <4>6. QED
          BY <1>2, <2>1, <3>1, <4>5
      <3>2. CASE s # slot[i]
        <4>1. table_keys'[s] = table_keys[s] /\ table_vals'[s] = table_vals[s] /\ table_keys[s] # out[i]
          BY <1>2, <1>7, <3>2
        <4>2. table_vals[s] = Total(table_keys[s], Arrived)
          BY <2>5, <4>1 DEF ExpandRight, SumsHeld, Holds
        <4>3. Total(table_keys[s], Arrived \cup {x}) = Total(table_keys[s], Arrived)
          BY <2>0, <4>1
        <4>4. QED
          BY <2>1, <4>1, <4>2, <4>3
      <3>3. QED
        BY <3>1, <3>2
    <2>6. QED
      BY <2>2, <2>5, SumsNext
  <1>16. ListRight'
    BY <1>1, <1>2, <1>3 DEF ExpandRight, ListRight
  <1>17. QED
    BY <1>8, <1>9, <1>10, <1>11, <1>12, <1>13, <1>14, <1>15, <1>16 DEF ExpandRight

\* What Append does to a sequence.
LEMMA AppendRight ==
  ASSUME NEW S, NEW s \in Seq(S), NEW x \in S
  PROVE  /\ Append(s, x) \in Seq(S) /\ Len(s) \in Nat /\ Len(Append(s, x)) = Len(s) + 1
         /\ DOMAIN s = 1 .. Len(s) /\ DOMAIN Append(s, x) = 1 .. Len(s) + 1
         /\ \A k \in 1 .. Len(s) : Append(s, x)[k] = s[k]
         /\ Append(s, x)[Len(s) + 1] = x
  OBVIOUS

\* The writer appends its slot to the list: it is listed once.
LEMMA ListKeeps ==
  ASSUME KeysRight, edge < LastEdge, ExpandRight, NEW i \in Threads, List(i), Frame
  PROVE  ExpandRight'
  <1>1. /\ pc \in [Threads -> Steps \cup {"new", "done"}] /\ slot \in [Threads -> Slots]
        /\ occupied \in Seq(Slots)
        /\ pc[i] = "list" /\ occupied' = Append(occupied, slot[i])
        /\ pc' = [pc EXCEPT ![i] = "publish"]
        /\ UNCHANGED <<edge, keys, vals, cap, table_state, table_keys, table_vals, take, out, slot, probe, old>>
    BY DEF ExpandRight, TableTypes, List, Frame, thread
  <1>2. /\ pc'[i] = "publish" /\ \A j \in Threads : j # i => pc'[j] = pc[j]
        /\ slot[i] \in Slots
    BY <1>1
  <1>3. Threads' = Threads /\ Slots' = Slots
    BY <1>1 DEF Threads, Slots
  <1> DEFINE n == Len(occupied)
  <1>4. /\ n \in Nat /\ DOMAIN occupied = 1 .. n /\ DOMAIN occupied' = 1 .. n + 1
        /\ occupied' \in Seq(Slots)
        /\ \A k \in 1 .. n : occupied'[k] = occupied[k]
        /\ occupied'[n + 1] = slot[i]
    BY <1>1, <1>2, AppendRight
  <1>5. /\ table_state[slot[i]] = 1
        /\ \A j \in Threads : pc[j] \in Writing /\ slot[j] = slot[i] => j = i
    BY <1>1 DEF ExpandRight, WritersRight, Writing
  <1>6. \A k \in 1 .. n : occupied[k] # slot[i]
    <2>1. SUFFICES ASSUME NEW k \in 1 .. n, occupied[k] = slot[i] PROVE FALSE
      OBVIOUS
    <2>2. \E j \in Threads : pc[j] = "publish" /\ slot[j] = slot[i]
      BY <1>2, <1>4, <1>5, <2>1 DEF ExpandRight, ListRight
    <2>3. QED
      BY <1>1, <1>5, <2>2 DEF Writing
  <1> HIDE DEF n
  <1>7. TableTypes'
    <2>1. pc' \in [Threads -> Steps \cup {"new", "done"}]
      BY <1>1 DEF Steps, Writing
    <2>2. QED
      BY <1>1, <1>3, <1>4, <2>1 DEF ExpandRight, TableTypes
  <1>8. StatesRight'
    BY <1>1, <1>3 DEF ExpandRight, StatesRight, Holds
  <1>9. WritersRight'
    <2>1. \A j \in Threads : pc'[j] \in Writing <=> pc[j] \in Writing
      BY <1>1, <1>2 DEF Writing
    <2>2. QED
      BY <1>1, <1>2, <1>3, <2>1 DEF ExpandRight, WritersRight, Holds
  <1>10. ReadersRight'
    BY <1>1, <1>2, <1>3 DEF ExpandRight, ReadersRight
  <1>11. ProbesRight'
    BY <1>1, <1>2, <1>3 DEF ExpandRight, ProbesRight, Steps, Writing, Out, Pos
  <1>12. PathsRight'
    BY <1>1, <1>2, <1>3 DEF ExpandRight, PathsRight, Holds, Pos
  <1>13. KeysDistinct'
    BY <1>1, <1>2, <1>3 DEF ExpandRight, KeysDistinct, Holds
  <1>14. SumsHeld'
    <2>1. Arrived' = Arrived
      BY <1>1, <1>2, <1>3 DEF Arrived
    <2>2. QED
      BY <1>1, <1>3, <2>1 DEF ExpandRight, SumsHeld, Total, Out, Holds
  <1>15. ListRight'
    <2>1. \A a, b \in DOMAIN occupied' : occupied'[a] = occupied'[b] => a = b
      <3>1. \A a \in 1 .. n + 1 : a \in 1 .. n \/ a = n + 1
        BY <1>4
      <3>2. QED
        BY <1>4, <1>6, <3>1 DEF ExpandRight, ListRight
    <2>2. ASSUME NEW s \in Slots
          PROVE  (\E a \in DOMAIN occupied' : occupied'[a] = s)
                    <=> table_state[s] = 2 \/ \E j \in Threads : pc'[j] = "publish" /\ slot[j] = s
      <3>1. (\E a \in DOMAIN occupied' : occupied'[a] = s)
               <=> s = slot[i] \/ \E a \in DOMAIN occupied : occupied[a] = s
        <4>1. 1 .. n + 1 = (1 .. n) \cup {n + 1}
          BY <1>4
        <4>2. QED
          BY <1>4, <4>1
      <3>2. (\E j \in Threads : pc'[j] = "publish" /\ slot[j] = s)
               <=> s = slot[i] \/ \E j \in Threads : pc[j] = "publish" /\ slot[j] = s
        BY <1>1, <1>2
      <3>3. QED
        BY <3>1, <3>2 DEF ExpandRight, ListRight
    <2>3. QED
      BY <1>1, <1>3, <2>1, <2>2, SMTT(20) DEF ListRight
  <1>16. QED
    BY <1>7, <1>8, <1>9, <1>10, <1>11, <1>12, <1>13, <1>14, <1>15 DEF ExpandRight

-----------------------------------------------------------------------------
(***************************************************************************)
(* Steps after which a thread turns to its next insertion.                 *)
(***************************************************************************)
\* The first probe looks at the hash.
LEMMA PosZero ==
  ASSUME cap \in Nat \ {0}, NEW key, Hash(key) \in Nat
  PROVE  Pos(key, 0) = Hash(key) % cap /\ Hash(key) % cap \in Slots
  <1> DEFINE h == Hash(key) % cap
  <1>1. h \in 0 .. cap - 1 /\ h + 0 = h
    BY HomeType
  <1>2. Pos(key, 0) = (h + 0) % cap
    BY DEF Pos
  <1> HIDE DEF h
  <1>3. h % cap = h
    BY <1>1, ModIdle
  <1>4. QED
    BY <1>1, <1>2, <1>3 DEF h, Slots

\* The next insertion of a thread, in one of two ways.
LEMMA InsertCases ==
  ASSUME NEW i, NEW t \in 0 .. 2, Insert(i, t)
  PROVE  \/ /\ \A u \in t .. 1 : Out(i, u) = {}
            /\ pc' = [pc EXCEPT ![i] = "done"] /\ UNCHANGED <<take, out, slot, probe>>
         \/ \E u \in t .. 1 : \E key \in Out(i, u) :
               /\ \A w \in t .. u - 1 : Out(i, w) = {}
               /\ pc' = [pc EXCEPT ![i] = "load"] /\ take' = [take EXCEPT ![i] = u]
               /\ out' = [out EXCEPT ![i] = key] /\ slot' = [slot EXCEPT ![i] = Hash(key) % cap]
               /\ probe' = [probe EXCEPT ![i] = 0]
  <1> DEFINE todo == {u \in t .. 1 : Out(i, u) # {}}
             m == Min(todo)
  <1>1. CASE todo = {}
    <2>1. \A u \in t .. 1 : Out(i, u) = {}
      BY <1>1
    <2>2. QED
      BY <1>1, <2>1 DEF Insert
  <1>2. CASE todo # {}
    <2>1. m \in todo /\ \A u \in todo : m <= u
      <3>1. todo \in SUBSET (0 .. 1)
        OBVIOUS
      <3>2. \E w \in todo : \A u \in todo : w <= u
        <4>1. CASE 0 \in todo
          BY <3>1, <4>1
        <4>2. CASE 0 \notin todo
          <5>1. todo = {1}
            BY <1>2, <3>1, <4>2
          <5>2. QED
            BY <5>1
        <4>3. QED
          BY <4>1, <4>2
      <3> HIDE DEF todo
      <3>3. QED
        BY <3>2 DEF Min
    <2>2. /\ take' = [take EXCEPT ![i] = m]
          /\ \E key \in Out(i, m) : /\ out' = [out EXCEPT ![i] = key]
                                    /\ slot' = [slot EXCEPT ![i] = Hash(key) % cap]
          /\ probe' = [probe EXCEPT ![i] = 0]
          /\ pc' = [pc EXCEPT ![i] = "load"]
      BY <1>2 DEF Insert
    <2> HIDE DEF m
    <2>3. m \in t .. 1 /\ \A w \in t .. m - 1 : Out(i, w) = {}
      BY <2>1
    <2>4. PICK key \in Out(i, m) : /\ out' = [out EXCEPT ![i] = key]
                                   /\ slot' = [slot EXCEPT ![i] = Hash(key) % cap]
      BY <2>2
    <2> HIDE DEF todo
    <2>5. QED
      BY <2>2, <2>3, <2>4
  <1>3. QED
    BY <1>1, <1>2

\* Insert lets the thread's other insertions wait, and the ones it passes have no key.
LEMMA InsertRight ==
  ASSUME KeysRight, edge < LastEdge, TableTypes, NEW i \in Threads, NEW t \in 0 .. 2, Insert(i, t)
  PROVE  /\ pc' \in [Threads -> Steps \cup {"new", "done"}] /\ take' \in [Threads -> 0 .. 1]
         /\ out' \in [Threads -> Reachable[edge + 1] \cup {NoKey}]
         /\ slot' \in [Threads -> Slots] /\ probe' \in [Threads -> 0 .. cap - 1]
         /\ pc'[i] \in {"done", "load"}
         /\ pc'[i] = "load" => /\ out'[i] \in Out(i, take'[i])
                               /\ slot'[i] = Pos(out'[i], 0) /\ probe'[i] = 0
         /\ \A j \in Threads : j # i =>
               /\ pc'[j] = pc[j] /\ take'[j] = take[j] /\ out'[j] = out[j]
               /\ slot'[j] = slot[j] /\ probe'[j] = probe[j]
         /\ \A u \in {0, 1} : Out(i, u) # {} => ((pc'[i] = "done" \/ u < take'[i]) <=> u < t)
  <1>1. /\ pc \in [Threads -> Steps \cup {"new", "done"}] /\ take \in [Threads -> 0 .. 1]
        /\ out \in [Threads -> Reachable[edge + 1] \cup {NoKey}]
        /\ slot \in [Threads -> Slots] /\ probe \in [Threads -> 0 .. cap - 1]
        /\ cap \in Nat \ {0}
    BY DEF TableTypes
  <1>2. CASE /\ \A u \in t .. 1 : Out(i, u) = {}
             /\ pc' = [pc EXCEPT ![i] = "done"] /\ UNCHANGED <<take, out, slot, probe>>
    <2>1. pc'[i] = "done" /\ \A j \in Threads : j # i => pc'[j] = pc[j]
      BY <1>1, <1>2
    <2>2. \A u \in {0, 1} : Out(i, u) # {} => u < t
      BY <1>2
    <2>3. QED
      BY <1>1, <1>2, <2>1, <2>2
  <1>3. CASE \E u \in t .. 1 : \E key \in Out(i, u) :
               /\ \A w \in t .. u - 1 : Out(i, w) = {}
               /\ pc' = [pc EXCEPT ![i] = "load"] /\ take' = [take EXCEPT ![i] = u]
               /\ out' = [out EXCEPT ![i] = key] /\ slot' = [slot EXCEPT ![i] = Hash(key) % cap]
               /\ probe' = [probe EXCEPT ![i] = 0]
    <2>0. PICK u \in t .. 1 : \E key \in Out(i, u) :
               /\ \A w \in t .. u - 1 : Out(i, w) = {}
               /\ pc' = [pc EXCEPT ![i] = "load"] /\ take' = [take EXCEPT ![i] = u]
               /\ out' = [out EXCEPT ![i] = key] /\ slot' = [slot EXCEPT ![i] = Hash(key) % cap]
               /\ probe' = [probe EXCEPT ![i] = 0]
      BY <1>3
    <2>1. PICK key \in Out(i, u) :
               /\ \A w \in t .. u - 1 : Out(i, w) = {}
               /\ pc' = [pc EXCEPT ![i] = "load"] /\ take' = [take EXCEPT ![i] = u]
               /\ out' = [out EXCEPT ![i] = key] /\ slot' = [slot EXCEPT ![i] = Hash(key) % cap]
               /\ probe' = [probe EXCEPT ![i] = 0]
      BY <2>0
    <2>2. u \in {0, 1} /\ u \in 0 .. 1
      OBVIOUS
    <2>3. key \in Reachable[edge + 1] /\ Hash(key) \in Nat
      BY <2>2, OutRight, NextTyped
    <2>4. Pos(key, 0) = Hash(key) % cap /\ Hash(key) % cap \in Slots
      BY <1>1, <2>3, PosZero
    <2>5. /\ pc'[i] = "load" /\ take'[i] = u /\ out'[i] = key /\ slot'[i] = Hash(key) % cap
          /\ probe'[i] = 0
          /\ \A j \in Threads : j # i =>
               /\ pc'[j] = pc[j] /\ take'[j] = take[j] /\ out'[j] = out[j]
               /\ slot'[j] = slot[j] /\ probe'[j] = probe[j]
      BY <1>1, <2>1
    <2>6. \A w \in {0, 1} : Out(i, w) # {} => (w < u <=> w < t)
      <3>1. \A w \in {0, 1} : w < u /\ ~(w < t) => w \in t .. u - 1
        BY <2>2
      <3>2. QED
        BY <2>1, <2>2, <3>1
    <2>7. 0 \in 0 .. cap - 1
      BY <1>1
    <2>8. /\ take' \in [Threads -> 0 .. 1] /\ out' \in [Threads -> Reachable[edge + 1] \cup {NoKey}]
          /\ probe' \in [Threads -> 0 .. cap - 1]
      BY <1>1, <2>1, <2>2, <2>3, <2>7
    <2>9. slot' \in [Threads -> Slots] /\ pc' \in [Threads -> Steps \cup {"new", "done"}]
      BY <1>1, <2>1, <2>4 DEF Steps
    <2>10. QED
      BY <2>4, <2>5, <2>6, <2>8, <2>9
  <1>4. QED
    BY <1>2, <1>3, InsertCases

\* Thread i is through with an insertion, or starts, and goes on to those from t.
Turn(i, t) ==
    /\ pc[i] \in {"new", "publish", "cas"}
    /\ t = (IF pc[i] = "new" THEN 0 ELSE take[i] + 1)
    /\ Insert(i, t) /\ Frame
    /\ UNCHANGED <<table_keys, occupied>>
    /\ IF pc[i] = "publish" THEN table_state' = [table_state EXCEPT ![slot[i]] = 2]
                            ELSE UNCHANGED table_state
    /\ table_vals' \in [Slots -> 0 .. Mod - 1] /\ old' \in [Threads -> 0 .. Mod - 1]

\* InsertRight for such a step.
LEMMA TurnInsert ==
  ASSUME KeysRight, edge < LastEdge, ExpandRight, NEW i \in Threads, NEW t, Turn(i, t)
  PROVE  /\ t \in 0 .. 2
         /\ pc' \in [Threads -> Steps \cup {"new", "done"}] /\ take' \in [Threads -> 0 .. 1]
         /\ out' \in [Threads -> Reachable[edge + 1] \cup {NoKey}]
         /\ slot' \in [Threads -> Slots] /\ probe' \in [Threads -> 0 .. cap - 1]
         /\ pc'[i] \in {"done", "load"}
         /\ pc'[i] = "load" => /\ out'[i] \in Out(i, take'[i])
                               /\ slot'[i] = Pos(out'[i], 0) /\ probe'[i] = 0
         /\ \A j \in Threads : j # i =>
               /\ pc'[j] = pc[j] /\ take'[j] = take[j] /\ out'[j] = out[j]
               /\ slot'[j] = slot[j] /\ probe'[j] = probe[j]
         /\ \A u \in {0, 1} : Out(i, u) # {} => ((pc'[i] = "done" \/ u < take'[i]) <=> u < t)
  <1>1. take[i] \in 0 .. 1 /\ TableTypes
    BY DEF ExpandRight, TableTypes
  <1>2. t \in 0 .. 2
    BY <1>1 DEF Turn
  <1>3. Insert(i, t)
    BY DEF Turn
  <1> QED
    BY <1>1, <1>2, <1>3, InsertRight

\* Only an insertion that has been added to a ready slot arrives by such a step.
LEMMA TurnArrives ==
  ASSUME KeysRight, edge < LastEdge, ExpandRight, NEW i \in Threads, NEW t, Turn(i, t),
         NEW y \in Insertions, Out(y[1], y[2]) # {}
  PROVE  y \in Arrived' <=> y \in Arrived \/ (pc[i] = "cas" /\ y = <<i, take[i]>>)
  <1>1. /\ pc[i] \in {"new", "publish", "cas"} /\ t = (IF pc[i] = "new" THEN 0 ELSE take[i] + 1)
        /\ take[i] \in 0 .. 1 /\ Threads' = Threads
    BY DEF Turn, ExpandRight, TableTypes, Threads, Frame
  <1>2. y[1] \in Threads /\ y[2] \in {0, 1} /\ y = <<y[1], y[2]>>
    BY DEF Insertions
  <1>3. /\ pc'[i] \in {"done", "load"}
        /\ \A j \in Threads : j # i => pc'[j] = pc[j] /\ take'[j] = take[j]
        /\ \A u \in {0, 1} : Out(i, u) # {} => ((pc'[i] = "done" \/ u < take'[i]) <=> u < t)
    BY TurnInsert
  <1>4. CASE y[1] = i
    <2>1. y = <<i, take[i]>> <=> y[2] = take[i]
      BY <1>2, <1>4
    <2>2. y \in Arrived' <=> y[2] < t
      BY <1>1, <1>2, <1>3, <1>4 DEF Arrived
    <2>3. CASE pc[i] = "new"
      BY <1>1, <1>2, <1>4, <2>2, <2>3 DEF Arrived
    <2>4. CASE pc[i] = "publish"
      <3>1. y \in Arrived <=> y[2] < take[i] \/ y[2] = take[i]
        BY <1>2, <1>4, <2>4 DEF Arrived
      <3>2. QED
        BY <1>1, <1>2, <2>2, <2>4, <3>1
    <2>5. CASE pc[i] = "cas"
      <3>1. y \in Arrived <=> y[2] < take[i]
        BY <1>2, <1>4, <2>5 DEF Arrived
      <3>2. QED
        BY <1>1, <1>2, <2>1, <2>2, <2>5, <3>1
    <2>6. QED
      BY <1>1, <2>3, <2>4, <2>5
  <1>5. CASE y[1] # i
    <2>1. y # <<i, take[i]>>
      BY <1>2, <1>5
    <2>2. y \in Arrived' <=> y \in Arrived
      BY <1>1, <1>2, <1>3, <1>5 DEF Arrived
    <2>3. QED
      BY <2>1, <2>2
  <1>6. QED
    BY <1>4, <1>5

\* A step of this kind keeps all but the sums.
LEMMA TurnKeeps ==
  ASSUME KeysRight, edge < LastEdge, ExpandRight, NEW i \in Threads, NEW t, Turn(i, t), SumsHeld'
  PROVE  ExpandRight'
  <1>1. /\ pc \in [Threads -> Steps \cup {"new", "done"}] /\ slot \in [Threads -> Slots]
        /\ table_state \in [Slots -> 0 .. 2]
        /\ pc[i] \in {"new", "publish", "cas"}
        /\ table_vals' \in [Slots -> 0 .. Mod - 1] /\ old' \in [Threads -> 0 .. Mod - 1]
        /\ UNCHANGED <<edge, keys, vals, cap, table_keys, occupied>>
    BY DEF ExpandRight, TableTypes, Turn, Frame
  <1>2. /\ pc' \in [Threads -> Steps \cup {"new", "done"}] /\ take' \in [Threads -> 0 .. 1]
        /\ out' \in [Threads -> Reachable[edge + 1] \cup {NoKey}]
        /\ slot' \in [Threads -> Slots] /\ probe' \in [Threads -> 0 .. cap - 1]
    BY TurnInsert
  <1>3. /\ pc'[i] \in {"done", "load"}
        /\ pc'[i] = "load" => /\ out'[i] \in Out(i, take'[i])
                              /\ slot'[i] = Pos(out'[i], 0) /\ probe'[i] = 0
        /\ \A j \in Threads : j # i =>
              /\ pc'[j] = pc[j] /\ take'[j] = take[j] /\ out'[j] = out[j]
              /\ slot'[j] = slot[j] /\ probe'[j] = probe[j]
    BY TurnInsert
  <1>4. Threads' = Threads /\ Slots' = Slots
    BY <1>1 DEF Threads, Slots
  <1>5. /\ slot[i] \in Slots
        /\ table_state' \in [Slots -> 0 .. 2]
        /\ \A s \in Slots : table_state'[s] = (IF pc[i] = "publish" /\ s = slot[i] THEN 2 ELSE table_state[s])
    BY <1>1 DEF Turn
  <1>6. pc[i] = "publish" => /\ table_state[slot[i]] = 1 /\ table_keys[slot[i]] = out[i]
                             /\ \A j \in Threads : pc[j] \in Writing /\ slot[j] = slot[i] => j = i
    BY <1>1 DEF ExpandRight, WritersRight, Writing
  <1>7. out[i] # NoKey \/ pc[i] # "publish"
    BY KeyUnderWay DEF Steps, Writing
  <1>8. \A s \in Slots : /\ table_state[s] # 0 => table_state'[s] # 0
                         /\ table_state[s] = 2 => table_state'[s] = 2
    BY <1>5
  <1>9. TableTypes'
    BY <1>1, <1>2, <1>4, <1>5 DEF ExpandRight, TableTypes
  <1>10. StatesRight'
    BY <1>1, <1>4, <1>5, <1>6, <1>7 DEF ExpandRight, StatesRight, Holds
  <1>11. WritersRight'
    <2>1. \A j \in Threads : pc'[j] \in Writing => j # i /\ pc[j] \in Writing /\ slot'[j] = slot[j]
      BY <1>3 DEF Writing
    <2>2. ASSUME NEW s \in Slots, table_state'[s] = 1
          PROVE  \E j \in Threads : pc'[j] \in Writing /\ slot'[j] = s
      <3>1. table_state[s] = 1 /\ ~(pc[i] = "publish" /\ s = slot[i])
        BY <1>5, <2>2
      <3>2. PICK j \in Threads : pc[j] \in Writing /\ slot[j] = s
        BY <3>1 DEF ExpandRight, WritersRight
      <3>3. j # i
        BY <1>1, <3>1, <3>2 DEF Writing
      <3>4. QED
        BY <1>3, <3>2, <3>3
    <2>3. \A j, k \in Threads :
            pc'[j] \in Writing /\ pc'[k] \in Writing /\ slot'[j] = slot'[k] => j = k
      BY <2>1 DEF ExpandRight, WritersRight
    <2>4. ASSUME NEW j \in Threads
          PROVE  /\ pc'[j] \in Writing => table_state'[slot'[j]] = 1
                 /\ pc'[j] = "write" => ~(table_keys[slot'[j]] # NoKey)
                 /\ pc'[j] \in {"list", "publish"} => table_keys[slot'[j]] = out'[j]
      <3>1. CASE j = i
        BY <1>3, <3>1 DEF Writing
      <3>2. CASE j # i
        <4>1. pc'[j] = pc[j] /\ out'[j] = out[j] /\ slot'[j] = slot[j] /\ slot[j] \in Slots
          BY <1>1, <1>3, <3>2
        <4>2. pc[j] \in Writing => table_state'[slot[j]] = table_state[slot[j]]
          BY <1>5, <1>6, <3>2, <4>1
        <4>3. QED
          BY <4>1, <4>2 DEF ExpandRight, WritersRight, Writing, Holds
      <3>3. QED
        BY <3>1, <3>2
    <2>5. QED
      BY <1>1, <1>4, <2>2, <2>3, <2>4 DEF WritersRight, Holds
  <1>12. ReadersRight'
    <2>1. ASSUME NEW j \in Threads
          PROVE  /\ pc'[j] = "spin" => table_state'[slot'[j]] # 0
                 /\ pc'[j] \in {"match", "read", "cas"} => table_state'[slot'[j]] = 2
                 /\ pc'[j] \in {"read", "cas"} => table_keys[slot'[j]] = out'[j]
      <3>1. CASE j = i
        BY <1>3, <3>1
      <3>2. CASE j # i
        <4>1. pc'[j] = pc[j] /\ out'[j] = out[j] /\ slot'[j] = slot[j] /\ slot[j] \in Slots
          BY <1>1, <1>3, <3>2
        <4>2. QED
          BY <1>8, <4>1 DEF ExpandRight, ReadersRight
      <3>3. QED
        BY <3>1, <3>2
    <2>2. QED
      BY <1>1, <1>4, <2>1 DEF ReadersRight
  <1>13. ProbesRight'
    <2>1. ASSUME NEW j \in Threads, pc'[j] \in Steps
          PROVE  /\ out'[j] \in Out(j, take'[j])
                 /\ slot'[j] = Pos(out'[j], probe'[j])
                 /\ \A p \in 0 .. probe'[j] - 1 : /\ table_state'[Pos(out'[j], p)] = 2
                                                  /\ table_keys[Pos(out'[j], p)] # out'[j]
      <3>1. CASE j = i
        <4>1. pc'[i] = "load" /\ probe'[i] = 0
          BY <1>3, <2>1, <3>1 DEF Steps, Writing
        <4>2. QED
          BY <1>3, <3>1, <4>1
      <3>2. CASE j # i
        <4>1. /\ pc'[j] = pc[j] /\ out'[j] = out[j] /\ slot'[j] = slot[j]
              /\ take'[j] = take[j] /\ probe'[j] = probe[j] /\ pc[j] \in Steps
          BY <1>3, <2>1, <3>2
        <4>2. Hash(out[j]) \in Nat /\ cap \in Nat \ {0} /\ probe[j] \in 0 .. cap - 1
          BY <4>1, KeyUnderWay DEF ExpandRight, TableTypes
        <4>3. \A p \in 0 .. probe[j] - 1 : Pos(out[j], p) \in Slots
          BY <4>2, PosType
        <4>4. QED
          BY <1>8, <4>1, <4>3 DEF ExpandRight, ProbesRight
      <3>3. QED
        BY <3>1, <3>2
    <2>2. QED
      BY <1>1, <1>4, <2>1 DEF ProbesRight, Out, Pos
  <1>14. PathsRight'
    <2>1. ASSUME NEW s \in Slots, Holds(s)
          PROVE  \E p \in 0 .. cap - 1 :
                    /\ s = Pos(table_keys[s], p)
                    /\ \A q \in 0 .. p - 1 : table_state'[Pos(table_keys[s], q)] # 0
      <3>1. PICK p \in 0 .. cap - 1 : /\ s = Pos(table_keys[s], p)
                                      /\ \A q \in 0 .. p - 1 : table_state[Pos(table_keys[s], q)] # 0
        BY <2>1 DEF ExpandRight, PathsRight
      <3>2. table_keys[s] \in Reachable[edge + 1] /\ cap \in Nat \ {0}
        BY <2>1 DEF ExpandRight, TableTypes, Holds
      <3>3. Hash(table_keys[s]) \in Nat
        BY <3>2, NextTyped
      <3>4. \A q \in 0 .. p - 1 : Pos(table_keys[s], q) \in Slots
        BY <3>2, <3>3, PosType
      <3>5. QED
        BY <1>8, <3>1, <3>4
    <2>2. QED
      BY <1>1, <1>4, <2>1 DEF PathsRight, Holds, Pos
  <1>15. KeysDistinct'
    <2>1. \A j \in Threads : pc'[j] = "write" => pc[j] = "write" /\ out'[j] = out[j]
      BY <1>3
    <2>2. QED
      BY <1>1, <1>4, <2>1 DEF ExpandRight, KeysDistinct, Holds
  <1>16. ListRight'
    <2>1. ASSUME NEW s \in Slots
          PROVE  (table_state'[s] = 2 \/ \E j \in Threads : pc'[j] = "publish" /\ slot'[j] = s)
                    <=> table_state[s] = 2 \/ \E j \in Threads : pc[j] = "publish" /\ slot[j] = s
      <3>1. (\E j \in Threads : pc'[j] = "publish" /\ slot'[j] = s)
               <=> \E j \in Threads : j # i /\ pc[j] = "publish" /\ slot[j] = s
        BY <1>3
      <3>2. QED
        BY <1>1, <1>5, <3>1
    <2>2. QED
      BY <1>1, <1>4, <2>1 DEF ExpandRight, ListRight
  <1>17. QED
    BY <1>9, <1>10, <1>11, <1>12, <1>13, <1>14, <1>15, <1>16 DEF ExpandRight

\* The totals change only by that insertion.
LEMMA TurnTotals ==
  ASSUME KeysRight, edge < LastEdge, ExpandRight, NEW i \in Threads, NEW t, Turn(i, t)
  PROVE  /\ Arrived \in SUBSET Insertions /\ Arrived' \in SUBSET Insertions
         /\ pc[i] # "cas" => \A key : Total(key, Arrived') = Total(key, Arrived)
         /\ pc[i] = "cas" => /\ <<i, take[i]>> \in Insertions
                             /\ <<i, take[i]>> \notin Arrived
                             /\ \A key : Total(key, Arrived') = Total(key, Arrived \cup {<<i, take[i]>>})
  <1> DEFINE x == <<i, take[i]>>
             A == Arrived
             B == Arrived'
  <1>1. A \in SUBSET Insertions /\ B \in SUBSET Insertions
    <2>1. Threads' = Threads
      BY DEF Turn, Frame, Threads
    <2>2. QED
      BY <2>1 DEF Arrived, Insertions
  <1>2. \A y \in Insertions : Out(y[1], y[2]) # {} => (y \in B <=> y \in A \/ (pc[i] = "cas" /\ y = x))
    BY TurnArrives
  <1>3. take[i] \in {0, 1}
    BY DEF ExpandRight, TableTypes
  <1>4. x \in Insertions /\ (pc[i] = "cas" => x \notin A)
    BY <1>3 DEF Insertions, Arrived
  <1> HIDE DEF A, B, x
  <1>5. ASSUME pc[i] # "cas", NEW key PROVE Total(key, B) = Total(key, A)
    BY <1>1, <1>2, <1>5, TotalSame
  <1>6. ASSUME pc[i] = "cas", NEW key PROVE Total(key, B) = Total(key, A \cup {x})
    <2>1. A \cup {x} \in SUBSET Insertions
      BY <1>1, <1>4
    <2>2. \A y \in Insertions : Out(y[1], y[2]) # {} => (y \in B <=> y \in A \cup {x})
      BY <1>2, <1>6
    <2> DEFINE C == A \cup {x}
    <2> HIDE DEF C
    <2>3. C \in SUBSET Insertions /\ \A y \in Insertions : Out(y[1], y[2]) # {} => (y \in B <=> y \in C)
      BY <2>1, <2>2 DEF C
    <2>4. Total(key, B) = Total(key, C)
      BY <1>1, <2>3, TotalSame
    <2>5. QED
      BY <2>4 DEF C
  <1>7. QED
    BY <1>1, <1>4, <1>5, <1>6 DEF A, B, x

\* What has arrived is held after such a step.
LEMMA TurnHeld ==
  ASSUME KeysRight, edge < LastEdge, ExpandRight, NEW i \in Threads, NEW t, Turn(i, t)
  PROVE  \A y \in Arrived' : \A key \in Out(y[1], y[2]) : \E s \in Slots : table_keys'[s] = key
  <1>1. SUFFICES ASSUME NEW y \in Arrived', NEW key \in Out(y[1], y[2])
                 PROVE  \E s \in Slots : table_keys[s] = key
    BY DEF Turn
  <1>2. y \in Insertions
    BY TurnTotals
  <1>3. y \in Arrived \/ (pc[i] = "cas" /\ y = <<i, take[i]>>)
    BY <1>1, <1>2, TurnArrives
  <1>4. CASE y \in Arrived
    BY <1>1, <1>4 DEF ExpandRight, SumsHeld
  <1>5. CASE pc[i] = "cas" /\ y = <<i, take[i]>>
    <2>1. Out(i, take[i]) = {out[i]} /\ slot[i] \in Slots /\ table_keys[slot[i]] = out[i]
      BY <1>5, KeyUnderWay DEF ExpandRight, TableTypes, ReadersRight, Steps
    <2>2. key = out[i]
      BY <1>1, <1>5, <2>1
    <2>3. QED
      BY <2>1, <2>2
  <1>6. QED
    BY <1>3, <1>4, <1>5

\* Starting, and publishing a slot, keep the invariant.
LEMMA SettleKeeps ==
  ASSUME KeysRight, edge < LastEdge, ExpandRight, NEW i \in Threads, NEW t, Turn(i, t),
         pc[i] # "cas", table_vals' = table_vals
  PROVE  ExpandRight'
  <1>1. Frame /\ table_keys' = table_keys
    BY DEF Turn
  <1>2. ASSUME NEW s \in Slots, table_keys'[s] # NoKey
        PROVE  table_vals'[s] = Total(table_keys'[s], Arrived')
    <2>1. table_vals[s] = Total(table_keys[s], Arrived)
      BY <1>1, <1>2 DEF ExpandRight, SumsHeld, Holds
    <2>2. \A key : Total(key, Arrived') = Total(key, Arrived)
      BY TurnTotals
    <2>3. QED
      BY <1>1, <2>1, <2>2
  <1>3. SumsHeld'
    BY <1>1, <1>2, TurnHeld, SumsNext
  <1>4. QED
    BY <1>3, TurnKeeps

\* A compare-and-swap that adds to a ready slot keeps the invariant: it reads and writes at once.
LEMMA AddKeeps ==
  ASSUME KeysRight, edge < LastEdge, ExpandRight, NEW i \in Threads, NEW t, Turn(i, t), pc[i] = "cas",
         table_vals' = [table_vals EXCEPT ![slot[i]] = AddMod(table_vals[slot[i]], vals[i])]
  PROVE  ExpandRight'
  <1> DEFINE x == <<i, take[i]>>
             A == Arrived
             k == out[i]
  <1>1. /\ Frame /\ table_keys' = table_keys /\ slot[i] \in Slots
        /\ table_vals \in [Slots -> 0 .. Mod - 1] /\ vals[i] \in 0 .. Mod - 1
    BY DEF Turn, ExpandRight, TableTypes, KeysRight
  <1>2. /\ A \in SUBSET Insertions /\ x \in Insertions /\ x \notin A
        /\ \A key : Total(key, Arrived') = Total(key, A \cup {x})
    BY TurnTotals
  <1>3. Out(i, take[i]) = {out[i]} /\ out[i] # NoKey /\ table_keys[slot[i]] = out[i]
    BY KeyUnderWay DEF ExpandRight, ReadersRight, Steps
  <1>4. k \in Out(x[1], x[2]) /\ AtMostOne(Out(x[1], x[2])) /\ vals[x[1]] = vals[i]
    BY <1>3 DEF AtMostOne
  <1> HIDE DEF x, A, k
  <1>5. ASSUME NEW key
        PROVE  /\ key # k => Total(key, A \cup {x}) = Total(key, A)
               /\ key = k => Total(key, A \cup {x}) = (vals[x[1]] + Total(key, A)) % Mod
    BY <1>2, <1>4, TotalOneMore
  <1>6. ASSUME NEW s \in Slots, table_keys'[s] # NoKey
        PROVE  table_vals'[s] = Total(table_keys'[s], Arrived')
    <2>1. table_vals[s] = Total(table_keys[s], A)
      BY <1>1, <1>6 DEF ExpandRight, SumsHeld, Holds, A
    <2>2. CASE s = slot[i]
      <3> DEFINE a == table_vals[slot[i]]
                 v == vals[i]
      <3>1. a \in 0 .. Mod - 1 /\ v \in 0 .. Mod - 1 /\ table_vals'[s] = AddMod(a, v)
        BY <1>1, <2>2
      <3>2. Total(k, A \cup {x}) = (v + a) % Mod
        BY <1>3, <1>4, <1>5, <2>1, <2>2 DEF k
      <3> HIDE DEF a, v
      <3>3. AddMod(a, v) = (a + v) % Mod /\ a + v = v + a
        BY <3>1, AddModRight
      <3>4. table_vals'[s] = Total(k, A \cup {x}) /\ table_keys'[s] = k
        BY <1>1, <1>3, <2>2, <3>1, <3>2, <3>3 DEF k
      <3>5. QED
        BY <1>2, <3>4
    <2>3. CASE s # slot[i]
      <3>1. table_vals'[s] = table_vals[s] /\ table_keys[s] # k
        <4>1. table_keys[s] # table_keys[slot[i]]
          BY <1>1, <1>6, <2>3 DEF ExpandRight, KeysDistinct, Holds
        <4>2. QED
          BY <1>1, <1>3, <2>3, <4>1 DEF k
      <3>2. Total(table_keys[s], Arrived') = Total(table_keys[s], A)
        BY <1>2, <1>5, <3>1
      <3>3. QED
        BY <1>1, <2>1, <3>1, <3>2
    <2>4. QED
      BY <2>2, <2>3
  <1>7. SumsHeld'
    BY <1>1, <1>6, TurnHeld, SumsNext
  <1>8. QED
    BY <1>7, TurnKeeps

-----------------------------------------------------------------------------
\* Each step of a thread that has not tried all slots in vain.
LEMMA ThreadKeeps ==
  ASSUME KeysRight, edge < LastEdge, ExpandRight, NEW i \in Threads, Thread(i),
         pc[i] = "match" => table_keys[slot[i]] = out[i] \/ probe[i] < cap - 1
  PROVE  ExpandRight'
  <1>1. Frame /\ slot[i] \in Slots /\ table_state[slot[i]] \in 0 .. 2 /\ old \in [Threads -> 0 .. Mod - 1]
    BY DEF Thread, Frame, ExpandRight, TableTypes
  <1>2. /\ table_vals \in [Slots -> 0 .. Mod - 1] /\ take[i] \in 0 .. 1
    BY DEF ExpandRight, TableTypes
  <1>3. CASE Begin(i)
    <2>1. Turn(i, 0) /\ pc[i] # "cas" /\ table_vals' = table_vals
      BY <1>1, <1>2, <1>3 DEF Begin, Turn, table
    <2>2. QED
      BY <2>1, SettleKeeps
  <1>4. CASE Load(i)
    <2>1. Stay(i, Seen(i, table_state[slot[i]]))
      BY <1>1, <1>4 DEF Load, Stay, Looking, Seen, thread
    <2>2. QED
      BY <2>1, StayKeeps
  <1>5. CASE Claim(i)
    <2>1. CASE table_state[slot[i]] = 0
      <3>1. Own(i)
        BY <1>1, <1>5, <2>1 DEF Claim, Own
      <3>2. QED
        BY <3>1, OwnKeeps
    <2>2. CASE table_state[slot[i]] # 0
      <3>1. Stay(i, Seen(i, table_state[slot[i]]))
        BY <1>1, <1>5, <2>2 DEF Claim, Stay, Looking, Seen, thread, table
      <3>2. QED
        BY <3>1, StayKeeps
    <2>3. QED
      BY <2>1, <2>2
  <1>6. CASE Write(i)
    BY <1>1, <1>6, WriteKeeps
  <1>7. CASE List(i)
    BY <1>1, <1>7, ListKeeps
  <1>8. CASE Publish(i)
    <2>1. Turn(i, take[i] + 1) /\ pc[i] # "cas" /\ table_vals' = table_vals
      BY <1>1, <1>2, <1>8 DEF Publish, Turn
    <2>2. QED
      BY <2>1, SettleKeeps
  <1>9. CASE Spin(i)
    <2>1. table_state[slot[i]] = 2
      BY <1>1, <1>9 DEF Spin, ExpandRight, ReadersRight
    <2>2. Stay(i, "match")
      BY <1>1, <1>9, <2>1 DEF Spin, Stay, Looking, thread
    <2>3. QED
      BY <2>2, StayKeeps
  <1>10. CASE Match(i)
    <2>1. table_state[slot[i]] = 2
      BY <1>10 DEF Match, ExpandRight, ReadersRight
    <2>2. CASE table_keys[slot[i]] = out[i]
      <3>1. Stay(i, "read")
        BY <1>1, <1>10, <2>1, <2>2 DEF Match, Stay, Looking, thread
      <3>2. QED
        BY <3>1, StayKeeps
    <2>3. CASE table_keys[slot[i]] # out[i]
      <3>1. Move(i)
        BY <1>1, <1>10, <2>3 DEF Match, Move
      <3>2. QED
        BY <3>1, MoveKeeps
    <2>4. QED
      BY <2>2, <2>3
  <1>11. CASE Read(i)
    <2>1. table_state[slot[i]] = 2 /\ table_keys[slot[i]] = out[i]
      BY <1>11 DEF Read, ExpandRight, ReadersRight
    <2>2. old' \in [Threads -> 0 .. Mod - 1]
      BY <1>1, <1>2, <1>11 DEF Read
    <2>3. Stay(i, "cas")
      BY <1>1, <1>11, <2>1, <2>2 DEF Read, Stay, Looking
    <2>4. QED
      BY <2>3, StayKeeps
  <1>12. CASE Cas(i)
    <2>1. table_state[slot[i]] = 2 /\ table_keys[slot[i]] = out[i]
      BY <1>12 DEF Cas, ExpandRight, ReadersRight
    <2>2. CASE table_vals[slot[i]] = old[i]
      <3>1. table_vals' = [table_vals EXCEPT ![slot[i]] = AddMod(table_vals[slot[i]], vals[i])]
        BY <1>12, <2>2 DEF Cas
      <3>2. table_vals' \in [Slots -> 0 .. Mod - 1]
        <4>1. vals[i] \in 0 .. Mod - 1 /\ table_vals[slot[i]] \in 0 .. Mod - 1
          BY <1>1, <1>2 DEF KeysRight
        <4>2. AddMod(table_vals[slot[i]], vals[i]) \in 0 .. Mod - 1
          BY <4>1, AddModRight
        <4>3. QED
          BY <1>2, <3>1, <4>2
      <3>3. Turn(i, take[i] + 1) /\ pc[i] = "cas"
        BY <1>1, <1>12, <2>2, <3>2 DEF Cas, Turn
      <3>4. QED
        BY <3>1, <3>3, AddKeeps
    <2>3. CASE table_vals[slot[i]] # old[i]
      <3>1. old' \in [Threads -> 0 .. Mod - 1]
        BY <1>1, <1>2, <1>12, <2>3 DEF Cas
      <3>2. pc' = [pc EXCEPT ![i] = "cas"]
        BY <1>12, <2>3 DEF Cas, ExpandRight, TableTypes
      <3>3. Stay(i, "cas")
        BY <1>1, <1>12, <2>1, <2>3, <3>1, <3>2 DEF Cas, Stay, Looking, table
      <3>4. QED
        BY <3>3, StayKeeps
    <2>4. QED
      BY <2>2, <2>3
  <1>13. QED
    BY <1>3, <1>4, <1>5, <1>6, <1>7, <1>8, <1>9, <1>10, <1>11, <1>12 DEF Thread

-----------------------------------------------------------------------------
(***************************************************************************)
(* The size of the table: the keys in it come from different insertions.   *)
(***************************************************************************)
\* Every key of the next edge comes from some thread.
LEMMA Origin ==
  ASSUME KeysRight, edge < LastEdge, NEW key \in Reachable[edge + 1]
  PROVE  \E x \in Insertions : key \in Out(x[1], x[2])
  <1>1. edge \in 0 .. LastEdge /\ edge + 1 \in 1 .. LastEdge /\ (edge + 1) - 1 = edge
    BY LastType DEF KeysRight, LastEdge
  <1>2. Reachable[edge + 1] = NextKeys(Reachable[edge], edge + 1)
    BY <1>1, ReachableDef
  <1>3. PICK y \in Decisions(Reachable[edge]) : key \in transition_one(y[1], edge + 1, y[2])
    BY <1>2 DEF NextKeys
  <1>4. y[1] \in Reachable[edge] /\ y[2] \in {0, 1}
    BY <1>3 DEF Decisions
  <1>5. PICK i \in Threads : keys[i] = y[1]
    BY <1>4 DEF KeysRight
  <1>6. key \in Out(i, y[2])
    BY <1>3, <1>4, <1>5, OutRight
  <1>7. <<i, y[2]>> \in Insertions /\ <<i, y[2]>>[1] = i /\ <<i, y[2]>>[2] = y[2]
    BY <1>4 DEF Insertions
  <1>8. QED
    BY <1>6, <1>7

\* Slot s has the key, or will have it after its writer's next step.
Claims(s, key) ==
    \/ Holds(s) /\ key = table_keys[s]
    \/ ~Holds(s) /\ \E i \in Threads : pc[i] = "write" /\ slot[i] = s /\ out[i] = key

Taken == {s \in Slots : table_state[s] # 0}

\* Every slot in use has the key of some insertion, and no two slots have the same key.
LEMMA ClaimsRight ==
  ASSUME KeysRight, edge < LastEdge, ExpandRight
  PROVE  /\ \A s \in Taken : \E x \in Insertions : \E key \in Out(x[1], x[2]) : Claims(s, key)
         /\ \A s, r \in Taken : \A key : Claims(s, key) /\ Claims(r, key) => s = r
  <1>1. ASSUME NEW s \in Taken
        PROVE  \E x \in Insertions : \E key \in Out(x[1], x[2]) : Claims(s, key)
    <2>1. s \in Slots /\ table_state[s] \in {1, 2}
      BY DEF Taken, ExpandRight, TableTypes
    <2>2. CASE Holds(s)
      <3>1. table_keys[s] \in Reachable[edge + 1]
        BY <2>1, <2>2 DEF ExpandRight, TableTypes, Holds
      <3>2. QED
        BY <2>2, <3>1, Origin DEF Claims
    <2>3. CASE ~Holds(s)
      <3>1. table_state[s] = 1
        BY <2>1, <2>3 DEF ExpandRight, StatesRight
      <3>2. PICK i \in Threads : pc[i] \in Writing /\ slot[i] = s
        BY <2>1, <3>1 DEF ExpandRight, WritersRight
      <3>3. out[i] \in Reachable[edge + 1] /\ out[i] # NoKey
        BY <3>2, KeyUnderWay DEF Steps
      <3>4. pc[i] = "write"
        BY <2>3, <3>2, <3>3 DEF ExpandRight, WritersRight, Writing, Holds
      <3>5. QED
        BY <2>3, <3>2, <3>3, <3>4, Origin DEF Claims
    <2>4. QED
      BY <2>2, <2>3
  <1>2. ASSUME NEW s \in Taken, NEW r \in Taken, NEW key, Claims(s, key), Claims(r, key)
        PROVE  s = r
    BY <1>2 DEF Taken, Claims, Holds, ExpandRight, KeysDistinct
  <1>3. QED
    BY <1>1, <1>2

\* So at most half of the slots are ever in use.
LEMMA HalfRight ==
  ASSUME KeysRight, edge < LastEdge, ExpandRight
  PROVE  /\ IsFiniteSet(Taken) /\ Cardinality(Taken) \in Nat /\ 2 * Cardinality(Taken) <= cap
         /\ IsFiniteSet(Slots) /\ Cardinality(Slots) = cap /\ cap \in Nat \ {0}
  <1>1. cap \in Nat \ {0} /\ cap >= 4 * Len(keys)
    BY DEF ExpandRight, TableTypes
  <1>2. IsFiniteSet(Slots) /\ Cardinality(Slots) = cap
    <2>1. 0 \in Int /\ cap - 1 \in Int /\ ~(0 > cap - 1) /\ (cap - 1) - 0 + 1 = cap
      BY <1>1
    <2>2. QED
      BY <2>1, FS_Interval DEF Slots
  <1>3. IsFiniteSet(Taken) /\ Cardinality(Taken) \in Nat
    BY <1>2, FS_Subset, FS_CardinalityType DEF Taken
  <1> DEFINE From(s, x) == \E key \in Out(x[1], x[2]) : Claims(s, key)
             h == [s \in Taken |-> CHOOSE x \in Insertions : From(s, x)]
  <1>4. \A s \in Taken : h[s] \in Insertions /\ From(s, h[s])
    <2>1. \A s \in Taken : \E x \in Insertions : From(s, x)
      BY ClaimsRight
    <2> HIDE DEF From
    <2>2. QED
      BY <2>1
  <1>5. h \in [Taken -> Insertions]
    BY <1>4
  <1>6. ASSUME NEW s \in Taken, NEW r \in Taken, h[s] = h[r] PROVE s = r
    <2> DEFINE x == h[s]
    <2>1. x \in Insertions /\ From(s, x) /\ From(r, x)
      BY <1>4, <1>6
    <2> HIDE DEF h, x
    <2>2. PICK k \in Out(x[1], x[2]) : Claims(s, k)
      BY <2>1
    <2>3. PICK l \in Out(x[1], x[2]) : Claims(r, l)
      BY <2>1
    <2>4. x[1] \in Threads /\ x[2] \in {0, 1}
      BY <2>1 DEF Insertions
    <2>5. k = l
      BY <2>2, <2>3, <2>4, OutRight DEF AtMostOne
    <2>6. QED
      BY <2>2, <2>3, <2>5, ClaimsRight
  <1>7. h \in Injection(Taken, Insertions)
    <2> HIDE DEF h
    <2>1. QED
      BY <1>5, <1>6 DEF Injection, IsInjective
  <1> HIDE DEF h
  <1>8. IsFiniteSet(Insertions) /\ Cardinality(Insertions) = 2 * Len(keys) /\ Len(keys) \in Nat
    BY InsertionsFinite
  <1>9. Cardinality(Taken) <= Cardinality(Insertions)
    BY <1>7, <1>8, FS_Injection
  <1>10. QED
    BY <1>1, <1>2, <1>3, <1>8, <1>9

\* No thread tries all slots in vain.
LEMMA NoDrop ==
  ASSUME KeysRight, edge < LastEdge, ExpandRight, NEW i \in Threads, pc[i] = "match"
  PROVE  table_keys[slot[i]] = out[i] \/ probe[i] < cap - 1
  <1>1. SUFFICES ASSUME ~(probe[i] < cap - 1) PROVE FALSE
    OBVIOUS
  <1>2. cap \in Nat \ {0} /\ probe[i] = cap - 1
    BY <1>1 DEF ExpandRight, TableTypes
  <1>3. /\ slot[i] = Pos(out[i], probe[i]) /\ table_state[slot[i]] = 2
        /\ \A p \in 0 .. probe[i] - 1 : table_state[Pos(out[i], p)] = 2
    BY DEF ExpandRight, ProbesRight, ReadersRight, Steps
  <1>4. Hash(out[i]) \in Nat
    BY KeyUnderWay DEF Steps
  <1>5. ASSUME NEW s \in Slots PROVE table_state[s] # 0
    <2>1. PICK p \in 0 .. cap - 1 : Pos(out[i], p) = s
      BY <1>2, <1>4, PosOnto
    <2>2. p \in 0 .. probe[i] - 1 \/ p = probe[i]
      BY <1>2
    <2>3. QED
      BY <1>3, <2>1, <2>2
  <1>6. Taken = Slots
    BY <1>5 DEF Taken
  <1>7. QED
    BY <1>2, <1>6, HalfRight

-----------------------------------------------------------------------------
(***************************************************************************)
(* From edge to edge.                                                      *)
(***************************************************************************)
\* The ways of the keys of an edge, modulo Mod, are what the threads have.
LEMMA ValsCong ==
  ASSUME KeysRight, NEW i \in Threads
  PROVE  /\ keys[i] \in Reachable[edge] /\ vals[i] \in Nat /\ Counts[edge][keys[i]] \in Nat
         /\ Cong(Mod, vals[i], Counts[edge][keys[i]])
  <1>1. keys[i] \in Reachable[edge] /\ vals[i] \in 0 .. Mod - 1 /\ edge \in 0 .. LastEdge
    BY DEF KeysRight, Threads, LastEdge
  <1>2. Counts[edge][keys[i]] \in Nat
    BY <1>1, CountsType
  <1>3. vals[i] = Counts[edge][keys[i]] % Mod
    BY DEF KeysRight
  <1> DEFINE v == vals[i]
             c == Counts[edge][keys[i]]
  <1>4. v \in 0 .. Mod - 1 /\ c \in Nat /\ v = c % Mod /\ Mod \in Nat \ {0}
    BY <1>1, <1>2, <1>3, ModConst
  <1> HIDE DEF v, c
  <1>5. v % Mod = v
    BY <1>4, ModIdle
  <1>6. v \in Nat /\ Cong(Mod, v, c)
    BY <1>4, <1>5 DEF Cong
  <1>7. QED
    BY <1>1, <1>4, <1>6 DEF v, c

\* All insertions of a key together amount to what the sequential program counts for it.
LEMMA TotalRight ==
  ASSUME KeysRight, edge < LastEdge, NEW key \in Reachable[edge + 1]
  PROVE  Total(key, Insertions) = Counts[edge + 1][key] % Mod
  <1>1. edge \in 0 .. LastEdge /\ edge + 1 \in 1 .. LastEdge /\ (edge + 1) - 1 = edge
    BY LastType DEF KeysRight, LastEdge
  <1> DEFINE S == Had(key, Insertions)
             T == {y \in Decisions(Reachable[edge]) : key \in transition_one(y[1], edge + 1, y[2])}
             f == [x \in S |-> vals[x[1]]]
             k == [x \in T |-> Counts[edge][x[1]]]
             h == [x \in S |-> <<keys[x[1]], x[2]>>]
  <1>2. \A x \in S : x[1] \in Threads /\ x[2] \in {0, 1} /\ x = <<x[1], x[2]>> /\ key \in Out(x[1], x[2])
    BY DEF Had, Insertions
  <1>3. \A y \in T : /\ y[1] \in Reachable[edge] /\ y[2] \in {0, 1} /\ y = <<y[1], y[2]>>
                     /\ key \in transition_one(y[1], edge + 1, y[2])
    BY DEF Decisions
  <1>4. IsFiniteSet(S)
    <2>1. S \in SUBSET Insertions
      BY DEF Had
    <2>2. QED
      BY <2>1, InsertionsFinite, FS_Subset
  <1>5. h \in [S -> T]
    <2>1. SUFFICES ASSUME NEW x \in S PROVE <<keys[x[1]], x[2]>> \in T
      OBVIOUS
    <2>2. x[1] \in Threads /\ x[2] \in {0, 1} /\ key \in transition_one(keys[x[1]], edge + 1, x[2])
      BY <1>2, OutRight
    <2>3. keys[x[1]] \in Reachable[edge]
      BY <2>2, ValsCong
    <2>4. QED
      BY <2>2, <2>3 DEF Decisions
  <1>6. \A x, y \in S : h[x] = h[y] => x = y
    <2>1. SUFFICES ASSUME NEW x \in S, NEW y \in S, <<keys[x[1]], x[2]>> = <<keys[y[1]], y[2]>> PROVE x = y
      OBVIOUS
    <2>2. keys[x[1]] = keys[y[1]] /\ x[2] = y[2] /\ x[1] \in Threads /\ y[1] \in Threads
      BY <1>2, <2>1
    <2>3. x[1] = y[1]
      BY <2>2 DEF KeysRight
    <2>4. QED
      BY <1>2, <2>2, <2>3
  <1>7. \A y \in T : \E x \in S : h[x] = y
    <2>1. SUFFICES ASSUME NEW y \in T PROVE \E x \in S : <<keys[x[1]], x[2]>> = y
      OBVIOUS
    <2>2. PICK i \in Threads : keys[i] = y[1]
      BY <1>3 DEF KeysRight
    <2>3. y[2] \in {0, 1} /\ key \in Out(i, y[2])
      BY <1>3, <2>2, OutRight
    <2>4. <<i, y[2]>> \in S
      BY <2>3 DEF Had, Insertions
    <2>5. QED
      BY <1>3, <2>2, <2>4
  <1>8. h \in Bijection(S, T)
    <2> HIDE DEF h
    <2>1. QED
      BY <1>5, <1>6, <1>7 DEF Bijection, Injection, Surjection, IsInjective
  <1>9. IsFiniteSet(T)
    BY <1>4, <1>8, FS_Surjection DEF Bijection
  <1>10. \A x \in S : f[x] \in Nat
    BY <1>2, ValsCong
  <1>11. \A y \in T : k[y] \in Nat
    BY <1>1, <1>3, CountsType
  <1>12. \A x \in S : Cong(Mod, f[x], k[h[x]])
    <2>1. SUFFICES ASSUME NEW x \in S PROVE Cong(Mod, f[x], k[h[x]])
      OBVIOUS
    <2>2. f[x] = vals[x[1]] /\ h[x] = <<keys[x[1]], x[2]>>
      OBVIOUS
    <2>3. k[h[x]] = Counts[edge][keys[x[1]]]
      BY <1>5, <2>2
    <2>4. QED
      BY <1>2, <2>2, <2>3, ValsCong
  <1>13. DOMAIN f = S /\ DOMAIN k = T
    OBVIOUS
  <1>14. Total(key, Insertions) = SumFunction(f) % Mod
    BY TotalDef DEF AddUp
  <1>15. Counts[edge + 1][key] = SumFunction(k)
    <2> DEFINE d == (edge + 1) - 1
               g == [x \in {y \in Decisions(Reachable[d]) : key \in transition_one(y[1], edge + 1, y[2])}
                       |-> Counts[d][x[1]]]
    <2>1. Counts[edge + 1] = NextCounts(Counts[d], edge + 1)
      BY <1>1, CountsDef
    <2>2. NextCounts(Counts[d], edge + 1)[key] = SumFunction(g)
      BY DEF NextCounts, Decisions
    <2>3. g = k
      BY <1>1
    <2>4. QED
      BY <2>1, <2>2, <2>3
  <1> HIDE DEF S, T, f, k, h
  <1>16. Cong(Mod, SumFunctionOnSet(f, S), SumFunctionOnSet(k, T))
    BY <1>4, <1>8, <1>9, <1>10, <1>11, <1>12, ModConst, SumMapMod
  <1>17. QED
    BY <1>13, <1>14, <1>15, <1>16 DEF Cong, SumFunction

-----------------------------------------------------------------------------
\* A new kernel starts with an empty table.
LEMMA LaunchKeeps ==
  ASSUME KeysRight, StageRight, Launch
  PROVE  KeysRight' /\ StageRight' /\ ExpandRight'
  <1>1. /\ edge < Len(Edges)
        /\ cap' = Capacity(Len(keys)) /\ stage' = "expand"
        /\ UNCHANGED <<edge, keys, vals, answer>>
    BY DEF Launch
  <1>2. Threads' = Threads
    BY <1>1 DEF Threads
  <1>3. cap' \in Nat \ {0} /\ cap' >= 4 * Len(keys)
    <2>1. Len(keys) \in Nat
      BY DEF KeysRight
    <2>2. QED
      BY <1>1, <2>1, CapacityRight
  <1>4. KeysRight'
    BY <1>1, <1>2 DEF KeysRight
  <1>5. StageRight'
    BY <1>1, <1>3 DEF StageRight
  <1>6. /\ table_state' = [s \in Slots' |-> 0] /\ table_keys' = [s \in Slots' |-> NoKey]
        /\ table_vals' = [s \in Slots' |-> 0] /\ occupied' = <<>>
        /\ pc' = [i \in Threads |-> "new"]
        /\ take' = [i \in Threads |-> 0] /\ out' = [i \in Threads |-> NoKey]
        /\ slot' = [i \in Threads |-> 0] /\ probe' = [i \in Threads |-> 0]
        /\ old' = [i \in Threads |-> 0]
    BY DEF Launch, Slots
  <1>7. 0 \in Slots' /\ 0 \in 0 .. cap' - 1 /\ 0 \in 0 .. Mod - 1 /\ 0 \in 0 .. 2 /\ 0 \in 0 .. 1
    <2> DEFINE c == cap'
    <2>0. c \in Nat \ {0}
      BY <1>3
    <2> HIDE DEF c
    <2>1a. 0 \in 0 .. c - 1
      BY <2>0
    <2>1. 0 \in 0 .. cap' - 1
      BY <2>1a DEF c
    <2>2. 0 \in Slots'
      BY <2>1 DEF Slots
    <2>3. 0 \in 0 .. Mod - 1
      BY ModConst
    <2>4. QED
      BY <2>1, <2>2, <2>3
  <1>8. TableTypes'
    BY <1>1, <1>2, <1>3, <1>6, <1>7 DEF TableTypes
  <1>9. \A s \in Slots' : table_state'[s] = 0 /\ table_keys'[s] = NoKey
    BY <1>6
  <1>10. \A i \in Threads' : pc'[i] = "new"
    BY <1>2, <1>6
  <1>11. StatesRight' /\ PathsRight'
    BY <1>9 DEF StatesRight, PathsRight, Holds
  <1>12. WritersRight' /\ ReadersRight' /\ ProbesRight'
    BY <1>9, <1>10 DEF WritersRight, ReadersRight, ProbesRight, Writing, Steps
  <1>13. KeysDistinct'
    BY <1>9, <1>10 DEF KeysDistinct, Holds
  <1>14. SumsHeld'
    <2>1. Arrived' = {}
      BY <1>10 DEF Arrived
    <2>2. QED
      BY <1>9, <2>1 DEF SumsHeld, Holds
  <1>15. ListRight'
    <2>1. DOMAIN occupied' = {}
      BY <1>6
    <2>2. QED
      BY <1>9, <1>10, <2>1 DEF ListRight
  <1>16. QED
    BY <1>4, <1>5, <1>8, <1>11, <1>12, <1>13, <1>14, <1>15 DEF ExpandRight

\* All threads are through: the table holds the keys of the next edge, each once.
LEMMA AllDone ==
  ASSUME KeysRight, edge < LastEdge, ExpandRight, \A i \in Threads : pc[i] = "done"
  PROVE  /\ Arrived = Insertions
         /\ \A s \in Slots : table_state[s] # 0 => table_state[s] = 2
         /\ \A s \in Slots : (\E a \in DOMAIN occupied : occupied[a] = s) <=> Holds(s)
         /\ \A s \in Slots : Holds(s) => table_keys[s] \in Reachable[edge + 1]
         /\ \A key \in Reachable[edge + 1] : \E s \in Slots : Holds(s) /\ table_keys[s] = key
  <1>1. Arrived = Insertions
    BY DEF Arrived, Insertions
  <1>2. \A s \in Slots : table_state[s] \in 0 .. 2 /\ table_state[s] # 1
    BY DEF ExpandRight, TableTypes, WritersRight, Writing
  <1>3. \A s \in Slots : (\E a \in DOMAIN occupied : occupied[a] = s) <=> Holds(s)
    BY <1>2 DEF ExpandRight, ListRight, StatesRight
  <1>4. \A s \in Slots : Holds(s) => table_keys[s] \in Reachable[edge + 1]
    BY DEF ExpandRight, TableTypes, Holds
  <1>5. ASSUME NEW key \in Reachable[edge + 1] PROVE \E s \in Slots : Holds(s) /\ table_keys[s] = key
    <2>1. PICK x \in Insertions : key \in Out(x[1], x[2])
      BY Origin
    <2>2. PICK s \in Slots : table_keys[s] = key
      BY <1>1, <2>1 DEF ExpandRight, SumsHeld
    <2>3. key # NoKey
      BY NextTyped
    <2>4. QED
      BY <2>2, <2>3 DEF Holds
  <1>6. QED
    BY <1>1, <1>2, <1>3, <1>4, <1>5

\* The list of the slots in use is shorter than the table.
LEMMA NotFull ==
  ASSUME KeysRight, edge < LastEdge, ExpandRight, \A i \in Threads : pc[i] = "done"
  PROVE  Len(occupied) \in Nat /\ Len(occupied) < cap
  <1> DEFINE n == Len(occupied)
             D == 1 .. n
  <1>1. occupied \in Seq(Slots) /\ n \in Nat /\ DOMAIN occupied = D
    BY DEF ExpandRight, TableTypes
  <1>2. occupied \in [D -> Taken]
    <2>1. \A a \in D : occupied[a] \in Slots /\ Holds(occupied[a])
      BY <1>1, AllDone
    <2>2. \A a \in D : occupied[a] \in Taken
      BY <2>1 DEF Taken, ExpandRight, StatesRight
    <2>3. QED
      BY <1>1, <2>2
  <1>3. \A a, b \in D : occupied[a] = occupied[b] => a = b
    BY <1>1 DEF ExpandRight, ListRight
  <1>4. IsFiniteSet(D) /\ Cardinality(D) = n
    BY <1>1, UpTo
  <1> HIDE DEF n, D
  <1>5. occupied \in Injection(D, Taken)
    BY <1>2, <1>3 DEF Injection, IsInjective
  <1>6. Cardinality(D) <= Cardinality(Taken)
    BY <1>5, HalfRight, FS_Injection
  <1>7. Cardinality(Taken) \in Nat /\ 2 * Cardinality(Taken) <= cap /\ cap \in Nat \ {0}
    BY HalfRight
  <1>8. n < cap
    BY <1>1, <1>4, <1>6, <1>7
  <1>9. QED
    BY <1>1, <1>8 DEF n

\* gather_kernel turns the table into the keys of the next edge and their counts.
LEMMA GatherKeeps ==
  ASSUME KeysRight, StageRight, ExpandRight, Gather
  PROVE  KeysRight' /\ StageRight' /\ stage' # "expand"
  <1> DEFINE slots == {occupied[i] : i \in DOMAIN occupied}
             next == Reachable[edge + 1]
             list == InOrder(next)
  <1>1. stage = "expand" /\ \A i \in Threads : pc[i] = "done"
    BY DEF Gather
  <1>2. edge \in 0 .. LastEdge /\ edge < LastEdge /\ LastEdge = Len(Edges)
    BY <1>1 DEF StageRight, KeysRight, LastEdge
  <1>3. edge + 1 \in 0 .. LastEdge /\ IsFiniteSet(next)
    <2>1. edge + 1 \in 0 .. LastEdge
      BY <1>2, LastType
    <2>2. QED
      BY <2>1, ReachableType
  <1>4. Len(occupied) \in Nat /\ cap \in Nat \ {0} /\ ~(Len(occupied) >= cap)
    BY <1>1, <1>2, NotFull, HalfRight
  <1>5. slots = {s \in Slots : Holds(s)}
    <2>1. \A a \in DOMAIN occupied : occupied[a] \in Slots
      BY DEF ExpandRight, TableTypes
    <2>2. \A s \in Slots : (\E a \in DOMAIN occupied : occupied[a] = s) <=> Holds(s)
      BY <1>1, <1>2, AllDone
    <2>3. QED
      BY <2>1, <2>2
  <1>6. {table_keys[s] : s \in slots} = next
    <2>1. \A s \in slots : table_keys[s] \in next
      BY <1>1, <1>2, <1>5, AllDone
    <2>2. \A key \in next : \E s \in slots : table_keys[s] = key
      BY <1>1, <1>2, <1>5, AllDone
    <2> HIDE DEF slots, next
    <2>3. QED
      BY <2>1, <2>2
  <1>7. /\ keys' = list
        /\ vals' = [i \in DOMAIN keys' |-> SumMod(table_vals, {s \in slots : table_keys[s] = keys'[i]})]
        /\ edge' = edge + 1
        /\ stage' = IF edge + 1 = Len(Edges) THEN "sum" ELSE "launch"
        /\ cap' = 0 /\ answer' = answer
    BY <1>4, <1>6 DEF Gather
  <1>8. /\ list \in Seq(next)
        /\ \A a, b \in DOMAIN list : list[a] = list[b] => a = b
        /\ \A key \in next : \E a \in DOMAIN list : list[a] = key
    BY <1>3, InOrderRight
  <1> HIDE DEF list, slots
  <1>9. ASSUME NEW i \in DOMAIN keys'
        PROVE  /\ vals'[i] \in 0 .. Mod - 1
               /\ vals'[i] = Counts[edge + 1][keys'[i]] % Mod
    <2> DEFINE key == keys'[i]
    <2>1. key \in next
      BY <1>7, <1>8, <1>9
    <2>2. PICK s \in Slots : Holds(s) /\ table_keys[s] = key
      BY <1>1, <1>2, <2>1, AllDone
    <2>3. {r \in slots : table_keys[r] = key} = {s}
      <3>1. s \in slots /\ \A r \in slots : r \in Slots /\ Holds(r)
        BY <1>5, <2>2
      <3>2. \A r \in slots : table_keys[r] = key => r = s
        BY <2>2, <3>1 DEF ExpandRight, KeysDistinct
      <3>3. QED
        BY <2>2, <3>1, <3>2
    <2>4. vals'[i] = SumMod(table_vals, {s})
      BY <1>7, <1>9, <2>3
    <2>5. table_vals[s] \in 0 .. Mod - 1 /\ table_vals[s] \in Nat
      BY <2>2, ModConst DEF ExpandRight, TableTypes
    <2>6. SumMod(table_vals, {s}) = SumFunctionOnSet(table_vals, {s}) % Mod
      <3>1. IsFiniteSet({s}) /\ \A x \in {s} : table_vals[x] \in 0 .. Mod - 1
        BY <2>5, FS_Singleton
      <3>2. QED
        BY <3>1, SumModRight
    <2>7. SumFunctionOnSet(table_vals, {s}) = table_vals[s]
      BY <2>5, SumSingle
    <2>8. table_vals[s] % Mod = table_vals[s]
      BY <2>5, ModConst, ModIdle
    <2>9. table_vals[s] = Total(key, Insertions)
      <3>1. table_vals[s] = Total(table_keys[s], Arrived)
        BY <2>2 DEF ExpandRight, SumsHeld
      <3>2. QED
        BY <1>1, <1>2, <2>2, <3>1, AllDone
    <2> HIDE DEF key
    <2>10. Total(key, Insertions) = Counts[edge + 1][key] % Mod
      BY <1>2, <2>1, TotalRight
    <2>11. QED
      BY <2>4, <2>5, <2>6, <2>7, <2>8, <2>9, <2>10 DEF key
  <1>10. DOMAIN vals' = DOMAIN keys' /\ vals' \in [DOMAIN keys' -> 0 .. Mod - 1]
    BY <1>7, <1>9
  <1>11. KeysRight'
    <2>1. edge' \in 0 .. Len(Edges)
      BY <1>2, <1>3, <1>7
    <2>2. keys' \in Seq(Reachable[edge'])
      BY <1>7, <1>8
    <2>3. /\ \A a, b \in DOMAIN keys' : keys'[a] = keys'[b] => a = b
          /\ \A key \in Reachable[edge'] : \E a \in DOMAIN keys' : keys'[a] = key
      BY <1>7, <1>8
    <2>4. \A a \in DOMAIN keys' : vals'[a] = Counts[edge'][keys'[a]] % Mod
      BY <1>7, <1>9
    <2>5. QED
      BY <1>10, <2>1, <2>2, <2>3, <2>4 DEF KeysRight, Threads
  <1>12. StageRight' /\ stage' # "expand"
    BY <1>1, <1>7 DEF StageRight
  <1>13. QED
    BY <1>11, <1>12

-----------------------------------------------------------------------------
\* The loop at the end adds up the counts of the keys that hold the whole path.
LEMMA SumKeeps ==
  ASSUME KeysRight, StageRight, Sum
  PROVE  KeysRight' /\ StageRight' /\ stage' # "expand"
  <1> DEFINE D == {i \in Threads : keys[i].done}
             T == {key \in Reachable[LastEdge] : key.done}
             h == [i \in D |-> keys[i]]
             c == Counts[LastEdge]
  <1>1. edge = LastEdge /\ LastEdge \in 0 .. LastEdge /\ LastEdge = Len(Edges)
    BY LastType DEF Sum, StageRight, LastEdge
  <1>2. IsFiniteSet(D)
    <2>1. Threads = 1 .. Len(keys) /\ Len(keys) \in Nat
      BY InsertionsFinite
    <2>2. IsFiniteSet(Threads)
      BY <2>1, FS_Interval
    <2>3. QED
      BY <2>2, FS_Subset
  <1>3. \A i \in D : vals[i] \in 0 .. Mod - 1 /\ vals[i] \in Nat
    BY ModConst DEF KeysRight
  <1>4. h \in [D -> T]
    BY <1>1, ValsCong
  <1>5. \A i, j \in D : h[i] = h[j] => i = j
    <2>1. SUFFICES ASSUME NEW i \in D, NEW j \in D, keys[i] = keys[j] PROVE i = j
      OBVIOUS
    <2>2. QED
      BY <2>1 DEF KeysRight
  <1>6. \A key \in T : \E i \in D : h[i] = key
    <2>1. SUFFICES ASSUME NEW key \in T PROVE \E i \in D : keys[i] = key
      OBVIOUS
    <2>2. PICK i \in Threads : keys[i] = key
      BY <1>1 DEF KeysRight
    <2>3. QED
      BY <2>2
  <1>7. h \in Bijection(D, T)
    <2> HIDE DEF h
    <2>1. QED
      BY <1>4, <1>5, <1>6 DEF Bijection, Injection, Surjection, IsInjective
  <1>8. IsFiniteSet(T)
    BY <1>1, ReachableType, FS_Subset
  <1>9. \A key \in T : c[key] \in Nat
    BY <1>1, CountsType
  <1>10. \A i \in D : Cong(Mod, vals[i], c[h[i]])
    <2>1. SUFFICES ASSUME NEW i \in D PROVE Cong(Mod, vals[i], c[keys[i]])
      OBVIOUS
    <2>2. QED
      BY <1>1, ValsCong
  <1>11. answer' = SumMod(vals, D) /\ stage' = "end" /\ UNCHANGED <<edge, keys, vals, cap>>
    BY DEF Sum
  <1>12. PathTotal = SumFunctionOnSet(c, T)
    BY DEF PathTotal, LastEdge
  <1> HIDE DEF D, T, h, c
  <1>13. SumMod(vals, D) = SumFunctionOnSet(vals, D) % Mod
    BY <1>2, <1>3, SumModRight
  <1>14. Cong(Mod, SumFunctionOnSet(vals, D), SumFunctionOnSet(c, T))
    BY <1>2, <1>3, <1>7, <1>8, <1>9, <1>10, ModConst, SumMapMod
  <1>15. SumFunctionOnSet(vals, D) \in Nat
    BY <1>2, <1>3, SumType
  <1>16. answer' = Paths
    BY <1>11, <1>12, <1>13, <1>14, PathsAre DEF Cong
  <1>17. answer' \in 0 .. Mod - 1
    <2> DEFINE a == SumFunctionOnSet(vals, D)
    <2>1. a \in Int
      BY <1>15
    <2> HIDE DEF a
    <2>2. a % Mod \in 0 .. Mod - 1
      BY <2>1, ModConst, ModType
    <2>3. QED
      BY <1>11, <1>13, <2>2 DEF a
  <1>18. KeysRight'
    BY <1>11 DEF KeysRight, Threads
  <1>19. StageRight'
    BY <1>1, <1>11, <1>16, <1>17 DEF StageRight
  <1>20. QED
    BY <1>11, <1>18, <1>19

\* One key, which occurs once, before the first edge.
LEMMA InitRight ==
  ASSUME Init
  PROVE  IInv
  <1>1. edge = 0 /\ keys = <<EmptyKey>> /\ vals = <<1>> /\ stage = "launch" /\ cap = 0 /\ answer = 0
    BY DEF Init
  <1>2. Reachable[0] = {EmptyKey} /\ Counts[0] = [key \in {EmptyKey} |-> 1]
    BY ReachableDef, CountsDef
  <1>3. Threads = {1} /\ keys[1] = EmptyKey /\ vals[1] = 1 /\ keys \in Seq({EmptyKey})
    BY <1>1 DEF Threads
  <1>4. 1 \in 0 .. Mod - 1 /\ 0 \in 0 .. Mod - 1 /\ Mod \in Nat \ {0}
    BY ModConst
  <1>5. 1 % Mod = 1
    BY <1>4, ModIdle
  <1>6. KeysRight
    <2>1. 0 \in 0 .. Len(Edges)
      BY LastType DEF LastEdge
    <2>2. vals \in [Threads -> 0 .. Mod - 1]
      BY <1>1, <1>3, <1>4
    <2>3. Counts[edge][keys[1]] = 1
      BY <1>1, <1>2, <1>3
    <2>4. QED
      BY <1>1, <1>2, <1>3, <1>5, <2>1, <2>2, <2>3 DEF KeysRight
  <1>7. StageRight
    BY <1>1, <1>4 DEF StageRight
  <1>8. QED
    BY <1>1, <1>6, <1>7 DEF IInv

\* Every step keeps the invariant.
LEMMA StepKeeps ==
  ASSUME IInv, [Next]_vars
  PROVE  IInv'
  <1>1. KeysRight /\ StageRight /\ (stage = "expand" => ExpandRight)
    BY DEF IInv
  <1>2. CASE Launch
    BY <1>1, <1>2, LaunchKeeps DEF IInv
  <1>3. ASSUME NEW i \in Threads, Thread(i) PROVE IInv'
    <2>1. stage = "expand" /\ ExpandRight /\ edge < LastEdge
      BY <1>1, <1>3 DEF Thread, StageRight, LastEdge
    <2>2. ExpandRight'
      BY <1>1, <1>3, <2>1, NoDrop, ThreadKeeps
    <2>3. UNCHANGED <<edge, keys, vals, stage, cap, answer>>
      BY <1>3 DEF Thread
    <2>4. KeysRight' /\ StageRight'
      BY <1>1, <2>3 DEF KeysRight, StageRight, Threads
    <2>5. QED
      BY <2>2, <2>4 DEF IInv
  <1>4. CASE Gather
    <2>1. stage = "expand"
      BY <1>4 DEF Gather
    <2>2. QED
      BY <1>1, <1>4, <2>1, GatherKeeps DEF IInv
  <1>5. CASE Sum
    BY <1>1, <1>5, SumKeeps DEF IInv
  <1>6. CASE UNCHANGED vars
    <2>1. UNCHANGED <<edge, keys, vals, stage, cap, table_state, table_keys, table_vals, occupied,
                      pc, take, out, slot, probe, old, answer>>
      BY <1>6 DEF vars, table, thread
    <2>2. KeysRight' /\ StageRight'
      BY <1>1, <2>1 DEF KeysRight, StageRight, Threads
    <2>3. ExpandRight => ExpandRight'
      <3>1. Threads' = Threads /\ Slots' = Slots
        BY <2>1 DEF Threads, Slots
      <3>2. TableTypes => TableTypes'
        BY <2>1, <3>1 DEF TableTypes
      <3>3. (StatesRight => StatesRight') /\ (WritersRight => WritersRight')
            /\ (ReadersRight => ReadersRight')
        BY <2>1, <3>1 DEF StatesRight, WritersRight, ReadersRight, Holds
      <3>4. (ProbesRight => ProbesRight') /\ (PathsRight => PathsRight')
        BY <2>1, <3>1 DEF ProbesRight, PathsRight, Holds, Pos, Out
      <3>5. (KeysDistinct => KeysDistinct') /\ (ListRight => ListRight')
        BY <2>1, <3>1 DEF KeysDistinct, ListRight, Holds
      <3>6. SumsHeld => SumsHeld'
        <4>1. Arrived' = Arrived
          BY <2>1, <3>1 DEF Arrived
        <4>2. QED
          BY <2>1, <3>1, <4>1 DEF SumsHeld, Total, Out, Holds
      <3>7. QED
        BY <3>2, <3>3, <3>4, <3>5, <3>6 DEF ExpandRight
    <2>4. QED
      BY <1>1, <2>1, <2>2, <2>3 DEF IInv
  <1>7. QED
    BY <1>2, <1>3, <1>4, <1>5, <1>6 DEF Next, Over

\* The inductive invariant of the hash solver holds in every state, for every grid, modulus, hash
\* function and number of resident threads.
THEOREM Invariant == Spec => []IInv
  <1>1. Init => IInv
    BY InitRight
  <1>2. IInv /\ [Next]_vars => IInv'
    BY StepKeeps
  <1>3. QED
    BY <1>1, <1>2, PTL DEF Spec

-----------------------------------------------------------------------------
(***************************************************************************)
(* The properties.                                                         *)
(***************************************************************************)
\* The invariant has the types of the variables.
LEMMA InvType == IInv => TypeOK
  <1>1. SUFFICES ASSUME IInv PROVE TypeOK
    OBVIOUS
  <1>2. KeysRight /\ StageRight /\ (stage = "expand" => ExpandRight)
    BY <1>1 DEF IInv
  <1>3. edge \in 0 .. LastEdge /\ LastEdge = Len(Edges)
    BY <1>2 DEF KeysRight, LastEdge
  <1>4. \A i \in Threads : IsKey(keys[i])
    <2>1. \A i \in Threads : keys[i] \in Reachable[edge]
      BY <1>2, ValsCong
    <2>2. QED
      BY <1>3, <2>1, KeyTyped
  <1>5. ASSUME stage = "expand"
        PROVE  /\ table_state \in [Slots -> 0 .. 2] /\ table_vals \in [Slots -> 0 .. Mod - 1]
               /\ \A s \in Slots : table_state[s] = 2 => IsKey(table_keys[s])
               /\ occupied \in Seq(Slots)
               /\ pc \in [Threads -> {"new", "load", "claim", "write", "list", "publish", "spin",
                                      "match", "read", "cas", "done"}]
               /\ take \in [Threads -> 0 .. 1]
               /\ slot \in [Threads -> Slots] /\ probe \in [Threads -> 0 .. cap - 1]
               /\ old \in [Threads -> 0 .. Mod - 1]
    <2>1. TableTypes /\ StatesRight /\ edge < LastEdge
      BY <1>2, <1>3, <1>5 DEF ExpandRight, StageRight
    <2>2. pc \in [Threads -> {"new", "load", "claim", "write", "list", "publish", "spin",
                              "match", "read", "cas", "done"}]
      BY <2>1 DEF TableTypes, Steps, Writing
    <2>3. ASSUME NEW s \in Slots, table_state[s] = 2 PROVE IsKey(table_keys[s])
      <3>1. table_keys[s] \in Reachable[edge + 1]
        BY <2>1, <2>3 DEF TableTypes, StatesRight, Holds
      <3>2. QED
        BY <1>2, <2>1, <3>1, NextTyped
    <2>4. QED
      BY <2>1, <2>2, <2>3 DEF TableTypes
  <1>6. QED
    BY <1>2, <1>3, <1>4, <1>5 DEF TypeOK, KeysRight, StageRight

\* A set that has exactly this element.
LEMMA JustOne ==
  ASSUME NEW S, NEW x \in S, \A y \in S : y = x
  PROVE  Cardinality(S) = 1
  <1>1. S = {x}
    OBVIOUS
  <1>2. QED
    BY <1>1, FS_Singleton

\* The invariant says that ready slots hold the totals.
LEMMA InvSums == IInv => SumsRight
  <1>1. SUFFICES ASSUME IInv, stage = "expand"
                 PROVE  /\ \A s \in Slots : table_state[s] = 2 => table_vals[s] = Total(table_keys[s], Arrived)
                        /\ \A x \in Arrived : \A key \in Out(x[1], x[2]) :
                              Cardinality({s \in Slots : table_state[s] # 0 /\ table_keys[s] = key}) = 1
    BY DEF SumsRight
  <1>2. KeysRight /\ ExpandRight /\ edge < LastEdge
    BY <1>1 DEF IInv, StageRight, LastEdge
  <1>3. \A s \in Slots : table_state[s] = 2 => table_vals[s] = Total(table_keys[s], Arrived)
    BY <1>2 DEF ExpandRight, StatesRight, SumsHeld
  <1>4. ASSUME NEW x \in Arrived, NEW key \in Out(x[1], x[2])
        PROVE  Cardinality({s \in Slots : table_state[s] # 0 /\ table_keys[s] = key}) = 1
    <2> DEFINE S == {s \in Slots : table_state[s] # 0 /\ table_keys[s] = key}
    <2>1. PICK s \in Slots : table_keys[s] = key
      BY <1>2 DEF ExpandRight, SumsHeld
    <2>2. key # NoKey
      <3>1. x[1] \in Threads /\ x[2] \in {0, 1}
        BY DEF Arrived
      <3>2. QED
        BY <1>2, <3>1, OutRight, NextTyped
    <2>3. s \in S
      BY <1>2, <2>1, <2>2 DEF ExpandRight, StatesRight, Holds
    <2>4. \A r \in S : r = s
      BY <1>2, <2>1, <2>2 DEF ExpandRight, KeysDistinct, Holds
    <2> HIDE DEF S
    <2>5. Cardinality(S) = 1
      BY <2>3, <2>4, JustOne
    <2>6. QED
      BY <2>5 DEF S
  <1>5. QED
    BY <1>3, <1>4

\* The invariant says who owns a claimed slot.
LEMMA InvWriter == IInv => OneWriter
  <1>1. SUFFICES ASSUME IInv, stage = "expand"
                 PROVE  /\ \A s \in Slots : table_state[s] = 1 =>
                              Cardinality({i \in Threads : pc[i] \in {"write", "list", "publish"}
                                                           /\ slot[i] = s}) = 1
                        /\ \A i \in Threads :
                              /\ pc[i] \in {"match", "read", "cas"} => table_state[slot[i]] = 2
                              /\ pc[i] \in {"write", "list", "publish"} => table_state[slot[i]] = 1
    BY DEF OneWriter
  <1>2. ExpandRight
    BY <1>1 DEF IInv
  <1>3. ASSUME NEW s \in Slots, table_state[s] = 1
        PROVE  Cardinality({i \in Threads : pc[i] \in {"write", "list", "publish"} /\ slot[i] = s}) = 1
    <2> DEFINE S == {i \in Threads : pc[i] \in {"write", "list", "publish"} /\ slot[i] = s}
    <2>1. PICK i \in Threads : pc[i] \in Writing /\ slot[i] = s
      BY <1>2, <1>3 DEF ExpandRight, WritersRight
    <2>2. i \in S /\ \A j \in S : j = i
      BY <1>2, <2>1 DEF ExpandRight, WritersRight, Writing
    <2> HIDE DEF S
    <2>3. Cardinality(S) = 1
      BY <2>2, JustOne
    <2>4. QED
      BY <2>3 DEF S
  <1>4. QED
    BY <1>2, <1>3 DEF ExpandRight, WritersRight, ReadersRight, Writing

\* The invariant bounds the slots in use.
LEMMA InvHalf == IInv => HalfEmpty
  <1>1. SUFFICES ASSUME IInv, stage = "expand" PROVE 2 * Cardinality(Taken) <= cap
    BY DEF HalfEmpty, Taken
  <1>2. KeysRight /\ ExpandRight /\ edge < LastEdge
    BY <1>1 DEF IInv, StageRight, LastEdge
  <1>3. QED
    BY <1>2, HalfRight

\* The variables of the hash solver keep their types: every value stays below the modulus, every
\* key that is read is one, and no probe leaves the table.
THEOREM TypeCorrect == Spec => []TypeOK
  BY Invariant, InvType, PTL

\* While threads race for slots, no key is in the table twice, and each ready slot holds the sum
\* of the insertions that have arrived for its key: no insertion is lost or counted twice.
THEOREM SumsCorrect == Spec => []SumsRight
  BY Invariant, InvSums, PTL

\* A claimed slot belongs to one writer until it is ready, and nobody reads its key or value
\* before.
THEOREM WriterUnique == Spec => []OneWriter
  BY Invariant, InvWriter, PTL

\* At least half of the table stays empty, whatever the hash function does.
THEOREM HalfStaysEmpty == Spec => []HalfEmpty
  BY Invariant, InvHalf, PTL

\* The program never gives up because the table is full: the exit(2) of the host code is never
\* reached, and no insertion is dropped.
THEOREM NeverFull == Spec => [](stage # "overflow")
  <1>1. IInv => stage # "overflow"
    BY DEF IInv, StageRight
  <1>2. QED
    BY <1>1, Invariant, PTL

\* The residue printed is the number of paths the sequential program counts, modulo Mod.
THEOREM AnswerCorrect == Spec => []AnswerRight
  <1>1. IInv => AnswerRight
    BY DEF IInv, StageRight, AnswerRight
  <1>2. QED
    BY <1>1, Invariant, PTL
==============================================================================
