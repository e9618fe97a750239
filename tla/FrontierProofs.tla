---------------------------- MODULE FrontierProofs ----------------------------
(***************************************************************************)
(* Proofs about the frontier program, for a grid of any size: that the     *)
(* sequential program counts the paths of the grid. They rest on lemmas    *)
(* about sums over finite sets, residues, folds, sequences and orders,     *)
(* which the proofs about the other programs use as well.                  *)
(*                                                                         *)
(* The library's induction rules take operators as arguments and are not   *)
(* used: a recursive function is shown to exist, and to have a property, by*)
(* taking the least number, or a least subset, for which it would not.     *)
(***************************************************************************)
EXTENDS FrontierDP, FiniteSetsExt, FiniteSetTheorems, WellFoundedInduction, TLAPS

\* A set of naturals that is not empty has a least element.
LEMMA NatMin ==
  ASSUME NEW T \in SUBSET Nat, T # {}
  PROVE  \E x \in T : \A y \in T : x <= y
  <1>1. PICK x \in T : \A y \in T : ~(<<y, x>> \in OpToRel(<, Nat))
    BY WFMin, NatLessThanWellFounded
  <1>2. ASSUME NEW y \in T PROVE x <= y
    <2>1. ~(<<y, x>> \in {p \in Nat \X Nat : p[1] < p[2]})
      BY <1>1, Zenon DEF OpToRel
    <2>2. x \in Nat /\ y \in Nat /\ <<y, x>> \in Nat \X Nat
      OBVIOUS
    <2>3. QED
      BY <2>1, <2>2
  <1>3. QED
    BY <1>2

\* Among subsets of a finite set there is a least one.
LEMMA SubsetMin ==
  ASSUME NEW U, IsFiniteSet(U), NEW T \in SUBSET SUBSET U, T # {}
  PROVE  \E s \in T : \A t \in T : t \subseteq s => t = s
  <1>1. T \subseteq FiniteSubsetsOf(U)
    BY FS_Subset DEF FiniteSubsetsOf
  <1>2. PICK s \in T : \A t \in T : ~(<<t, s>> \in StrictSubsetOrdering(U))
    BY <1>1, WFMin, FS_StrictSubsetOrderingWellFounded
  <1>3. ASSUME NEW t \in T, t \subseteq s PROVE t = s
    <2>1. <<t, s>> \in (SUBSET U) \X (SUBSET U)
      OBVIOUS
    <2>2. QED
      BY <1>2, <1>3, <2>1 DEF StrictSubsetOrdering
  <1>4. QED
    BY <1>3

Pick(s) == CHOOSE x \in s : TRUE

\* The element the folds of the library take first is one of the set.
LEMMA PickIn == ASSUME NEW s, s # {} PROVE Pick(s) \in s
  BY DEF Pick

Folding(g, U, b, step) ==
  \A s \in SUBSET U : g[s] = IF s = {} THEN b ELSE step[<<Pick(s), g[s \ {Pick(s)}]>>]

\* A fold over the subsets of a finite set exists: the recursive definition has a solution.
LEMMA FoldExists ==
  ASSUME NEW U, IsFiniteSet(U), NEW R, NEW b \in R, NEW step \in [U \X R -> R]
  PROVE  \E g \in [SUBSET U -> R] : Folding(g, U, b, step)
  <1> DEFINE D(n) == {s \in SUBSET U : Cardinality(s) <= n}
             Solves(g, n) == g \in [D(n) -> R] /\ \A s \in D(n) :
                g[s] = IF s = {} THEN b ELSE step[<<Pick(s), g[s \ {Pick(s)}]>>]
             Bad == {n \in Nat : ~\E g : Solves(g, n)}
  <1>1. ASSUME NEW s \in SUBSET U
        PROVE  /\ Cardinality(s) \in Nat
               /\ Cardinality(s) = 0 <=> s = {}
               /\ s # {} => /\ Pick(s) \in U
                            /\ s \ {Pick(s)} \in SUBSET U
                            /\ Cardinality(s \ {Pick(s)}) = Cardinality(s) - 1
    <2>1. IsFiniteSet(s)
      BY FS_Subset
    <2>2. Cardinality(s) \in Nat /\ (Cardinality(s) = 0 <=> s = {})
      BY <2>1, FS_CardinalityType, FS_EmptySet
    <2>3. ASSUME s # {} PROVE Pick(s) \in s /\ Cardinality(s \ {Pick(s)}) = Cardinality(s) - 1
      BY <2>1, <2>3, PickIn, FS_RemoveElement
    <2>4. QED
      BY <2>2, <2>3
  <1>2. Bad = {}
    <2>1. SUFFICES ASSUME Bad # {} PROVE FALSE
      OBVIOUS
    <2>2. PICK n \in Bad : \A m \in Bad : n <= m
      BY <2>1, NatMin
    <2>3. CASE n = 0
      <3> DEFINE g == [s \in D(0) |-> b]
      <3>1. ASSUME NEW s \in D(0) PROVE s = {}
        <4>1. Cardinality(s) \in Nat /\ Cardinality(s) <= 0 /\ (Cardinality(s) = 0 <=> s = {})
          BY <1>1
        <4>2. QED
          BY <4>1
      <3>2. Solves(g, 0)
        BY <3>1
      <3> HIDE DEF g
      <3>3. QED
        BY <3>2, <2>2, <2>3
    <2>4. CASE n # 0
      <3>1. n \in Nat /\ n - 1 \in Nat /\ ~(n <= n - 1)
        BY <2>4
      <3>2. PICK h : Solves(h, n - 1)
        BY <3>1, <2>2
      <3> DEFINE Rest(s) == step[<<Pick(s), h[s \ {Pick(s)}]>>]
                 g == [s \in D(n) |-> IF s \in D(n - 1) THEN h[s] ELSE Rest(s)]
      <3>3. ASSUME NEW s \in D(n), s # {}
            PROVE  s \ {Pick(s)} \in D(n - 1) /\ s \ {Pick(s)} \in D(n) /\ Pick(s) \in U
        <4>1. Cardinality(s) \in Nat /\ Cardinality(s) <= n /\ s \in SUBSET U
          BY <1>1
        <4>2. s \ {Pick(s)} \in SUBSET U /\ Cardinality(s \ {Pick(s)}) = Cardinality(s) - 1 /\ Pick(s) \in U
          BY <1>1, <3>3
        <4>3. QED
          BY <4>1, <4>2, <3>1
      <3>0. {} \in D(n - 1)
        <4>1. Cardinality({}) = 0
          BY FS_EmptySet
        <4>2. QED
          BY <4>1, <3>1
      <3>4. ASSUME NEW s \in D(n), s \notin D(n - 1) PROVE s # {}
        BY <3>0, <3>4
      <3>5. ASSUME NEW s \in D(n) PROVE g[s] \in R
        <4>1. CASE s \in D(n - 1)
          BY <4>1, <3>2
        <4>2. CASE s \notin D(n - 1)
          <5>1. h[s \ {Pick(s)}] \in R /\ Pick(s) \in U
            BY <4>2, <3>2, <3>3, <3>4
          <5>2. QED
            BY <4>2, <5>1
        <4>3. QED
          BY <4>1, <4>2
      <3>6. ASSUME NEW s \in D(n)
            PROVE  g[s] = IF s = {} THEN b ELSE step[<<Pick(s), g[s \ {Pick(s)}]>>]
        <4>1. CASE s = {}
          <5>1. s \in D(n - 1)
            BY <4>1, <3>0
          <5>2. QED
            BY <4>1, <5>1, <3>2
        <4>2. CASE s # {}
          <5>1. g[s \ {Pick(s)}] = h[s \ {Pick(s)}]
            BY <3>3, <4>2
          <5>2. g[s] = Rest(s)
            BY <3>2, <4>2
          <5>3. QED
            BY <4>2, <5>1, <5>2
        <4>3. QED
          BY <4>1, <4>2
      <3>7. g \in [D(n) -> R]
        BY <3>5
      <3> HIDE DEF g
      <3>8. Solves(g, n)
        BY <3>6, <3>7
      <3>9. QED
        BY <3>8, <2>2
    <2>5. QED
      BY <2>3, <2>4
  <1>3. PICK g : Solves(g, Cardinality(U))
    BY <1>1, <1>2
  <1>4. D(Cardinality(U)) = SUBSET U
    BY FS_Subset
  <1>5. QED
    BY <1>3, <1>4 DEF Folding

Summing(g, f, S) ==
  \A s \in SUBSET S : g[s] = IF s = {} THEN 0 ELSE f[Pick(s)] + g[s \ {Pick(s)}]

\* What a sum over a set is depends only on the summands.
LEMMA SummingUnique ==
  ASSUME NEW S, NEW U, IsFiniteSet(U), U \subseteq S, NEW f, NEW h, \A x \in U : f[x] = h[x],
         NEW g, NEW k, Summing(g, f, S), Summing(k, h, U)
  PROVE  g[U] = k[U]
  <1> DEFINE Bad == {s \in SUBSET U : g[s] # k[s]}
  <1>1. SUFFICES ASSUME Bad # {} PROVE FALSE
    OBVIOUS
  <1>2. PICK s \in Bad : \A t \in Bad : t \subseteq s => t = s
    <2>1. Bad \in SUBSET SUBSET U
      OBVIOUS
    <2> HIDE DEF Bad
    <2>2. QED
      BY <1>1, <2>1, SubsetMin
  <1>3. s \in SUBSET U /\ s \in SUBSET S
    OBVIOUS
  <1>4. s # {}
    BY <1>2, <1>3 DEF Summing
  <1>5. Pick(s) \in U /\ s \ {Pick(s)} \in SUBSET U /\ s \ {Pick(s)} # s
    BY <1>3, <1>4, PickIn
  <1>6. g[s \ {Pick(s)}] = k[s \ {Pick(s)}]
    BY <1>2, <1>5
  <1>7. g[s] = f[Pick(s)] + g[s \ {Pick(s)}] /\ k[s] = h[Pick(s)] + k[s \ {Pick(s)}]
    BY <1>3, <1>4 DEF Summing
  <1>8. QED
    BY <1>2, <1>5, <1>6, <1>7

\* The library's sum is the value of such a fold.
LEMMA SumIter ==
  ASSUME NEW S, IsFiniteSet(S), NEW f, \A x \in S : f[x] \in Nat
  PROVE  \E g \in [SUBSET S -> Nat] : Summing(g, f, S) /\ SumFunctionOnSet(f, S) = g[S]
  <1> DEFINE step == [p \in S \X Nat |-> f[p[1]] + p[2]]
             Iter(g) == g = [s \in SUBSET S |->
                               IF s = {} THEN 0 ELSE f[Pick(s)] + g[s \ {Pick(s)}]]
             iter == CHOOSE g : Iter(g)
  <1>1. step \in [S \X Nat -> Nat] /\ \A x \in S, n \in Nat : step[<<x, n>>] = f[x] + n
    OBVIOUS
  <1>2. PICK g \in [SUBSET S -> Nat] : Folding(g, S, 0, step)
    <2> HIDE DEF step
    <2>1. 0 \in Nat
      OBVIOUS
    <2>2. QED
      BY <1>1, <2>1, FoldExists
  <1>3. ASSUME NEW s \in SUBSET S, s # {}
        PROVE  step[<<Pick(s), g[s \ {Pick(s)}]>>] = f[Pick(s)] + g[s \ {Pick(s)}]
    <2>1. Pick(s) \in S /\ g[s \ {Pick(s)}] \in Nat
      BY <1>2, <1>3, PickIn
    <2> HIDE DEF step
    <2>2. QED
      BY <1>1, <2>1
  <1>4. Summing(g, f, S)
    BY <1>2, <1>3 DEF Summing, Folding
  <1>5. Iter(g)
    BY <1>4 DEF Summing
  <1>6. Iter(iter)
    BY <1>5
  <1>7. SumFunctionOnSet(f, S) = iter[S]
    BY DEF SumFunctionOnSet, FoldFunctionOnSet, MapThenFoldSet, Pick
  <1> HIDE DEF iter
  <1>8. Summing(iter, f, S)
    BY <1>6 DEF Summing
  <1>9. iter[S] = g[S]
    BY <1>4, <1>8, SummingUnique
  <1>10. QED
    BY <1>4, <1>7, <1>9

\* Equal summands have equal sums.
LEMMA SumExt ==
  ASSUME NEW S, IsFiniteSet(S), NEW f, NEW h, \A x \in S : f[x] \in Nat /\ f[x] = h[x]
  PROVE  SumFunctionOnSet(f, S) = SumFunctionOnSet(h, S)
  <1>1. PICK g \in [SUBSET S -> Nat] : Summing(g, f, S) /\ SumFunctionOnSet(f, S) = g[S]
    BY SumIter
  <1>2. PICK k \in [SUBSET S -> Nat] : Summing(k, h, S) /\ SumFunctionOnSet(h, S) = k[S]
    BY SumIter
  <1>3. g[S] = k[S]
    BY <1>1, <1>2, SummingUnique
  <1>4. QED
    BY <1>1, <1>2, <1>3

\* A sum of naturals is a natural.
LEMMA SumType ==
  ASSUME NEW S, IsFiniteSet(S), NEW f, \A x \in S : f[x] \in Nat
  PROVE  SumFunctionOnSet(f, S) \in Nat
  <1>1. PICK g \in [SUBSET S -> Nat] : SumFunctionOnSet(f, S) = g[S]
    BY SumIter
  <1>2. QED
    BY <1>1

\* The empty sum is zero.
LEMMA SumEmpty ==
  ASSUME NEW f
  PROVE  SumFunctionOnSet(f, {}) = 0
  <1>1. IsFiniteSet({})
    BY FS_EmptySet
  <1>2. PICK g \in [SUBSET {} -> Nat] : Summing(g, f, {}) /\ SumFunctionOnSet(f, {}) = g[{}]
    BY <1>1, SumIter
  <1>3. QED
    BY <1>2 DEF Summing

\* A sum, when the element the library takes first is taken away.
LEMMA SumPick ==
  ASSUME NEW S, IsFiniteSet(S), S # {}, NEW f, \A x \in S : f[x] \in Nat
  PROVE  SumFunctionOnSet(f, S) = f[Pick(S)] + SumFunctionOnSet(f, S \ {Pick(S)})
  <1> DEFINE R == S \ {Pick(S)}
  <1>1. IsFiniteSet(R) /\ R \subseteq S
    BY FS_RemoveElement
  <1> HIDE DEF R
  <1>2. PICK g \in [SUBSET S -> Nat] : Summing(g, f, S) /\ SumFunctionOnSet(f, S) = g[S]
    BY SumIter
  <1>3. PICK k \in [SUBSET R -> Nat] : Summing(k, f, R) /\ SumFunctionOnSet(f, R) = k[R]
    BY <1>1, SumIter
  <1>4. g[R] = k[R]
    BY <1>1, <1>2, <1>3, SummingUnique
  <1>5. g[S] = f[Pick(S)] + g[R]
    BY <1>2 DEF Summing, R
  <1>6. QED
    BY <1>2, <1>3, <1>4, <1>5 DEF R

\* A sum, when any element is taken away.
LEMMA SumRemove ==
  ASSUME NEW S, IsFiniteSet(S), NEW f, \A x \in S : f[x] \in Nat, NEW x \in S
  PROVE  SumFunctionOnSet(f, S) = f[x] + SumFunctionOnSet(f, S \ {x})
  <1> DEFINE Sum(s) == SumFunctionOnSet(f, s)
             Bad == {s \in SUBSET S : \E y \in s : Sum(s) # f[y] + Sum(s \ {y})}
  <1>1. SUFFICES ASSUME Bad # {} PROVE FALSE
    OBVIOUS
  <1>2. PICK s \in Bad : \A t \in Bad : t \subseteq s => t = s
    <2>1. Bad \in SUBSET SUBSET S
      OBVIOUS
    <2> HIDE DEF Bad
    <2>2. QED
      BY <1>1, <2>1, SubsetMin
  <1>3. PICK y \in s : Sum(s) # f[y] + Sum(s \ {y})
    OBVIOUS
  <1> DEFINE p == Pick(s)
  <1>4. s \in SUBSET S /\ p \in s
    BY <1>3, PickIn
  <1>5. ASSUME NEW t \in SUBSET S PROVE IsFiniteSet(t) /\ Sum(t) \in Nat
    <2>1. IsFiniteSet(t)
      BY FS_Subset
    <2>2. QED
      BY <2>1, SumType
  <1>6. ASSUME NEW t \in SUBSET S, t # {} PROVE Sum(t) = f[Pick(t)] + Sum(t \ {Pick(t)})
    BY <1>5, <1>6, SumPick
  <1>7. Sum(s) = f[p] + Sum(s \ {p})
    BY <1>4, <1>6
  <1>8. p # y
    BY <1>3, <1>7
  <1> DEFINE a == s \ {p}
             b == s \ {y}
  <1>9. a \in SUBSET S /\ b \in SUBSET S /\ a # s /\ b # s /\ a \subseteq s /\ b \subseteq s /\ y \in a /\ p \in b
    BY <1>4, <1>8
  <1>10. a \ {y} = b \ {p} /\ a \ {y} \in SUBSET S
    BY <1>4
  <1> HIDE DEF Sum, p
  <1>11. Sum(a) = f[y] + Sum(a \ {y}) /\ Sum(b) = f[p] + Sum(b \ {p})
    BY <1>2, <1>9
  <1>12. Sum(a) \in Nat /\ Sum(b) \in Nat /\ Sum(a \ {y}) \in Nat /\ f[p] \in Nat /\ f[y] \in Nat
    BY <1>4, <1>5, <1>9, <1>10
  <1>13. Sum(s) = f[p] + Sum(a) /\ Sum(s) # f[y] + Sum(b) /\ Sum(a \ {y}) = Sum(b \ {p})
    BY <1>3, <1>7, <1>10
  <1> HIDE DEF a, b
  <1>14. QED
    BY <1>11, <1>12, <1>13

\* A sum, when an element is added.
LEMMA SumAdd ==
  ASSUME NEW S, IsFiniteSet(S), NEW f, NEW x, x \notin S, \A y \in S \cup {x} : f[y] \in Nat
  PROVE  SumFunctionOnSet(f, S \cup {x}) = f[x] + SumFunctionOnSet(f, S)
  <1>1. IsFiniteSet(S \cup {x}) /\ (S \cup {x}) \ {x} = S
    BY FS_AddElement
  <1>2. QED
    BY <1>1, SumRemove

\* The sum over one element.
LEMMA SumSingle ==
  ASSUME NEW f, NEW x, f[x] \in Nat
  PROVE  SumFunctionOnSet(f, {x}) = f[x]
  <1>1. IsFiniteSet({x}) /\ {x} \ {x} = {}
    BY FS_Singleton
  <1>2. SumFunctionOnSet(f, {x}) = f[x] + SumFunctionOnSet(f, {x} \ {x})
    BY <1>1, SumRemove
  <1>3. QED
    BY <1>1, <1>2, SumEmpty
\* A residue is below the modulus.
LEMMA ModType == ASSUME NEW M \in Nat \ {0}, NEW a \in Int PROVE a % M \in 0 .. M - 1
  OBVIOUS
\* Division with remainder.
LEMMA ModDiv == ASSUME NEW M \in Nat \ {0}, NEW a \in Int PROVE a = M * (a \div M) + (a % M) /\ (a \div M) \in Int
  OBVIOUS
\* A larger quotient makes a difference of at least the divisor.
LEMMA MulMono == ASSUME NEW M \in Nat \ {0}, NEW q \in Int, NEW p \in Int, q < p PROVE M * q + M <= M * p
  OBVIOUS
\* The residue is unique.
LEMMA ModUnique == ASSUME NEW M \in Nat \ {0}, NEW q \in Int, NEW r \in 0 .. M - 1, NEW a \in Int, a = M * q + r
   PROVE a % M = r
  <1> DEFINE p == a \div M
  <1>1. a = M * p + (a % M) /\ p \in Int /\ a % M \in 0 .. M - 1
    BY ModDiv, ModType
  <1> HIDE DEF p
  <1>2. ~(q < p)
    <2>1. q < p => M * q + M <= M * p
      BY MulMono, <1>1
    <2>2. M * q \in Int /\ M * p \in Int
      BY <1>1
    <2> QED BY <1>1, <2>1, <2>2
  <1>3. ~(p < q)
    <2>1. p < q => M * p + M <= M * q
      BY MulMono, <1>1
    <2>2. M * q \in Int /\ M * p \in Int
      BY <1>1
    <2> QED BY <1>1, <2>1, <2>2
  <1>4. p = q
    BY <1>1, <1>2, <1>3
  <1> QED BY <1>1, <1>4
\* An addend can be reduced before the addition.
LEMMA ModAdd == ASSUME NEW M \in Nat \ {0}, NEW a \in Int, NEW b \in Int PROVE ((a % M) + b) % M = (a + b) % M
  <1> DEFINE p == a \div M
             c == (a % M) + b
             q == c \div M
  <1>1. a = M * p + (a % M) /\ p \in Int /\ a % M \in 0 .. M - 1
    BY ModDiv, ModType
  <1>2. c \in Int
    BY <1>1
  <1>3. c = M * q + (c % M) /\ q \in Int /\ c % M \in 0 .. M - 1
    <2> HIDE DEF c
    <2> QED BY ModDiv, ModType, <1>2
  <1>4. a + b = M * (p + q) + (c % M)
    <2> HIDE DEF p, q
    <2>1. M * (p + q) = M * p + M * q
      BY <1>1, <1>3
    <2>2. M * p \in Int /\ M * q \in Int /\ c % M \in Int
      BY <1>1, <1>3
    <2>3. a + b = M * p + c
      BY <1>1, <2>2
    <2> QED BY <1>3, <2>1, <2>2, <2>3
  <1>5. p + q \in Int /\ a + b \in Int
    BY <1>1, <1>3
  <1> HIDE DEF c, p, q
  <1>6. (a + b) % M = c % M
    <2> DEFINE d == a + b
               t == p + q
               r == c % M
    <2>1. d \in Int /\ t \in Int /\ r \in 0 .. M - 1 /\ d = M * t + r
      BY <1>3, <1>4, <1>5
    <2> HIDE DEF d, t, r
    <2>2. d % M = r
      BY <2>1, ModUnique
    <2>3. QED
      BY <2>2 DEF d, r
  <1> QED BY <1>6 DEF c

\* What is below the modulus is its own residue.
LEMMA ModIdle ==
  ASSUME NEW M \in Nat \ {0}, NEW a \in 0 .. M - 1
  PROVE  a % M = a
  <1>1. a = M * 0 + a /\ 0 \in Int /\ a \in Int
    OBVIOUS
  <1>2. QED
    BY <1>1, ModUnique

\* Division by M gives the only quotient and remainder.
LEMMA DivUnique ==
  ASSUME NEW M \in Nat \ {0}, NEW a \in Int, NEW c \in Int, NEW b \in 0 .. M - 1, NEW d \in 0 .. M - 1,
         M * a + b = M * c + d
  PROVE  a = c /\ b = d
  <1> DEFINE x == M * a + b
  <1>1. x \in Int /\ x = M * a + b /\ x = M * c + d
    OBVIOUS
  <1> HIDE DEF x
  <1>2. x % M = b /\ x % M = d
    BY <1>1, ModUnique
  <1>3. M * a \in Int /\ M * c \in Int /\ b = d
    BY <1>2
  <1>4. M * a = M * c
    BY <1>3
  <1>5. ~(a < c)
    <2>1. a < c => M * a + M <= M * c
      BY MulMono
    <2>2. QED
      BY <1>3, <1>4, <2>1
  <1>6. ~(c < a)
    <2>1. c < a => M * c + M <= M * a
      BY MulMono
    <2>2. QED
      BY <1>3, <1>4, <2>1
  <1>7. QED
    BY <1>3, <1>5, <1>6

Cong(M, a, b) == a % M = b % M

\* Congruent summands have congruent sums.
LEMMA CongSum ==
  ASSUME NEW M \in Nat \ {0}, NEW a \in Nat, NEW b \in Nat, NEW c \in Nat, NEW d \in Nat,
         Cong(M, a, c), Cong(M, b, d)
  PROVE  Cong(M, a + b, c + d)
  <1>0. a % M = c % M /\ b % M = d % M
    BY DEF Cong
  <1>1. a \in Int /\ b \in Int /\ c \in Int /\ d \in Int
    OBVIOUS
  <1>2. (a % M) \in Int /\ (b % M) \in Int /\ (c % M) \in Int /\ (d % M) \in Int
    BY <1>1, ModType
  <1>3. (a + b) % M = ((a % M) + b) % M
    BY <1>1, ModAdd
  <1>4. (c + d) % M = ((c % M) + d) % M
    BY <1>1, ModAdd
  <1>5. ((b % M) + (a % M)) % M = (b + (a % M)) % M
    BY <1>1, <1>2, ModAdd
  <1>6. ((d % M) + (c % M)) % M = (d + (c % M)) % M
    BY <1>1, <1>2, ModAdd
  <1>7. b + (a % M) = (a % M) + b /\ d + (c % M) = (c % M) + d
    BY <1>1, <1>2
  <1>8. QED
    BY <1>0, <1>3, <1>4, <1>5, <1>6, <1>7 DEF Cong

\* Sums over two sets whose elements correspond one to one, with congruent summands, are
\* congruent.
LEMMA SumMapMod ==
  ASSUME NEW S, IsFiniteSet(S), NEW T, IsFiniteSet(T), NEW M \in Nat \ {0},
         NEW f, \A x \in S : f[x] \in Nat,
         NEW k, \A y \in T : k[y] \in Nat,
         NEW h \in Bijection(S, T), \A x \in S : Cong(M, f[x], k[h[x]])
  PROVE  Cong(M, SumFunctionOnSet(f, S), SumFunctionOnSet(k, T))
  <1> DEFINE Img(s) == {h[x] : x \in s}
             F(s) == SumFunctionOnSet(f, s)
             K(s) == SumFunctionOnSet(k, Img(s))
             Bad == {s \in SUBSET S : ~Cong(M, F(s), K(s))}
  <1>1. /\ h \in [S -> T]
        /\ \A x, y \in S : h[x] = h[y] => x = y
        /\ \A y \in T : \E x \in S : h[x] = y
    BY DEF Bijection, Injection, Surjection, IsInjective
  <1>2. Img(S) = T
    BY <1>1
  <1>3. Bad = {}
    <2>1. SUFFICES ASSUME Bad # {} PROVE FALSE
      OBVIOUS
    <2>2. PICK s \in Bad : \A t \in Bad : t \subseteq s => t = s
      <3>1. Bad \in SUBSET SUBSET S
        OBVIOUS
      <3> HIDE DEF Bad
      <3>2. QED
        BY <2>1, <3>1, SubsetMin
    <2>3. s \in SUBSET S /\ ~Cong(M, F(s), K(s))
      OBVIOUS
    <2>4. s # {}
      <3>1. CASE s = {}
        <4>1. Img(s) = {}
          BY <3>1
        <4>2. F(s) = 0 /\ K(s) = 0
          BY <3>1, <4>1, SumEmpty
        <4>3. QED
          BY <2>3, <4>2 DEF Cong
      <3>2. QED
        BY <3>1
    <2>5. PICK x \in s : TRUE
      BY <2>4
    <2> DEFINE r == s \ {x}
    <2>6. r \in SUBSET S /\ x \in S /\ r # s /\ r \subseteq s
      BY <2>3
    <2>7. Cong(M, F(r), K(r))
      BY <2>2, <2>6
    <2>8. Img(r) = Img(s) \ {h[x]} /\ h[x] \in Img(s)
      BY <1>1, <2>3, <2>6
    <2>9. IsFiniteSet(s) /\ IsFiniteSet(r) /\ Img(s) \in SUBSET T /\ Img(r) \in SUBSET T
      BY <1>1, <2>3, <2>6, FS_Subset
    <2>10. IsFiniteSet(Img(s)) /\ IsFiniteSet(Img(r))
      BY <2>9, FS_Subset
    <2>11. F(s) = f[x] + F(r)
      BY <2>3, <2>9, SumRemove
    <2>12. K(s) = k[h[x]] + K(r)
      <3> HIDE DEF Img
      <3>1. SumFunctionOnSet(k, Img(s)) = k[h[x]] + SumFunctionOnSet(k, Img(s) \ {h[x]})
        BY <2>8, <2>9, <2>10, SumRemove
      <3>2. QED
        BY <2>8, <3>1
    <2>13. F(r) \in Nat
      BY <2>6, <2>9, SumType
    <2>14. K(r) \in Nat
      <3> HIDE DEF Img
      <3>1. QED
        BY <2>9, <2>10, SumType
    <2>15. f[x] \in Nat /\ k[h[x]] \in Nat /\ Cong(M, f[x], k[h[x]])
      BY <1>1, <2>6
    <2> DEFINE a == f[x]
               b == F(r)
               c == k[h[x]]
               d == K(r)
    <2>16. Cong(M, a + b, c + d)
      <3>1. a \in Nat /\ b \in Nat /\ c \in Nat /\ d \in Nat /\ Cong(M, a, c) /\ Cong(M, b, d)
        BY <2>7, <2>13, <2>14, <2>15
      <3> HIDE DEF a, b, c, d
      <3>2. QED
        BY <3>1, CongSum
    <2>17. QED
      BY <2>3, <2>11, <2>12, <2>16
  <1>4. Cong(M, F(S), K(S))
    BY <1>3
  <1>5. QED
    BY <1>2, <1>4

-----------------------------------------------------------------------------
\* The sequences one after the other: f[i] is the first i of them.
Concatenates(f, seqs, n) == f = [i \in 1 .. n |-> IF i = 1 THEN seqs[i] ELSE f[i - 1] \o seqs[i]]

\* FlattenSeq is such a concatenation.
LEMMA FlattenDef ==
  ASSUME NEW S, NEW n \in Nat \ {0}, NEW seqs \in [1 .. n -> Seq(S)]
  PROVE  \E f : Concatenates(f, seqs, n) /\ FlattenSeq(seqs) = f[n]
  <1> DEFINE Flat(g, m) == g = [i \in 1 .. m |-> IF i = 1 THEN seqs[i] ELSE g[i - 1] \o seqs[i]]
             Bad == {m \in 1 .. n : ~\E g : Flat(g, m)}
             Flatten == CHOOSE g : Flat(g, n)
  <1>1. Len(seqs) = n /\ seqs \in Seq(Seq(S))
    OBVIOUS
  <1>2. Bad = {}
    <3>1. SUFFICES ASSUME Bad # {} PROVE FALSE
      OBVIOUS
    <3>2. PICK m \in Bad : \A l \in Bad : m <= l
      <4> HIDE DEF Flat
      <4>1. Bad \in SUBSET Nat
        OBVIOUS
      <4> HIDE DEF Bad
      <4>2. QED
        BY <3>1, <4>1, NatMin
    <3>3. m \in 1 .. n /\ ~\E g : Flat(g, m)
      OBVIOUS
    <3>4. CASE m = 1
      <4> DEFINE g == [i \in 1 .. 1 |-> seqs[1]]
      <4>1. Flat(g, 1)
        OBVIOUS
      <4> HIDE DEF g, Flat
      <4>2. QED
        BY <3>3, <3>4, <4>1
    <3>5. CASE m # 1
      <4>1. m - 1 \in 1 .. n /\ ~(m <= m - 1)
        BY <3>3, <3>5
      <4>2. PICK h : Flat(h, m - 1)
        BY <3>2, <4>1
      <4> DEFINE g == [i \in 1 .. m |-> IF i = m THEN h[m - 1] \o seqs[m] ELSE h[i]]
      <4>3. ASSUME NEW i \in 1 .. m
            PROVE  g[i] = IF i = 1 THEN seqs[i] ELSE g[i - 1] \o seqs[i]
        <5>1. CASE i = m
          <6>1. g[i] = h[m - 1] \o seqs[m] /\ g[i - 1] = h[m - 1]
            BY <4>1, <5>1
          <6>2. QED
            BY <3>5, <5>1, <6>1
        <5>2. CASE i # m
          <6>1. i \in 1 .. m - 1 /\ g[i] = h[i]
            BY <3>3, <5>2
          <6>2. h[i] = IF i = 1 THEN seqs[i] ELSE h[i - 1] \o seqs[i]
            BY <4>2, <6>1
          <6>3. i # 1 => i - 1 \in 1 .. m /\ i - 1 # m
            BY <6>1, <3>3
          <6>4. i # 1 => g[i - 1] = h[i - 1]
            BY <6>3
          <6>5. QED
            BY <6>1, <6>2, <6>4
        <5>3. QED
          BY <5>1, <5>2
      <4>5. g = [i \in 1 .. m |-> g[i]]
        OBVIOUS
      <4>6. Flat(g, m)
        BY <4>3, <4>5
      <4> HIDE DEF g, Flat
      <4>7. QED
        BY <3>3, <4>6
    <3>6. QED
      BY <3>4, <3>5
  <1>3. Flat(Flatten, n)
    <2>1. n \in 1 .. n
      OBVIOUS
    <2>2. QED
      BY <1>2, <2>1
  <1>4. FlattenSeq(seqs) = Flatten[n]
    BY <1>1 DEF FlattenSeq
  <1> HIDE DEF Flatten
  <1>5. QED
    BY <1>3, <1>4 DEF Concatenates

\* The elements of the sequences are in s; s has no element twice; no two of the sequences share one.
AllIn(s, seqs, n) == \A x \in 1 .. n : \A j \in DOMAIN seqs[x] : \E i \in DOMAIN s : s[i] = seqs[x][j]
NoRepeats(s) == \A i, k \in DOMAIN s : s[i] = s[k] => i = k
NoneTwice(seqs, n) == \A x, y \in 1 .. n : \A j \in DOMAIN seqs[x], k \in DOMAIN seqs[y] :
                         seqs[x][j] = seqs[y][k] => x = y /\ j = k

\* FlattenSeq keeps every element, adds none, and repeats none that was there once.
LEMMA FlattenMembers ==
  ASSUME NEW S, NEW n \in Nat \ {0}, NEW seqs \in [1 .. n -> Seq(S)]
  PROVE  /\ FlattenSeq(seqs) \in Seq(S)
         /\ AllIn(FlattenSeq(seqs), seqs, n)
         /\ NoneTwice(seqs, n) => NoRepeats(FlattenSeq(seqs))
  <1>1. PICK f : Concatenates(f, seqs, n) /\ FlattenSeq(seqs) = f[n]
    BY FlattenDef
  <1>2. ASSUME NEW i \in 1 .. n PROVE f[i] = IF i = 1 THEN seqs[i] ELSE f[i - 1] \o seqs[i]
    BY <1>1 DEF Concatenates
  <1> DEFINE Once == \A x, y \in 1 .. n : \A j \in DOMAIN seqs[x], k \in DOMAIN seqs[y] :
                        seqs[x][j] = seqs[y][k] => x = y /\ j = k
             All(m) == \A x \in 1 .. m : \A j \in DOMAIN seqs[x] : \E i \in DOMAIN f[m] : f[m][i] = seqs[x][j]
             From(m) == \A i \in DOMAIN f[m] : \E x \in 1 .. m : \E j \in DOMAIN seqs[x] : f[m][i] = seqs[x][j]
             Inj(m) == \A i, k \in DOMAIN f[m] : f[m][i] = f[m][k] => i = k
             Good(m) == f[m] \in Seq(S) /\ All(m) /\ From(m) /\ (Once => Inj(m))
             Bad == {m \in 1 .. n : ~Good(m)}
  <1>3. Bad = {}
    <2>1. SUFFICES ASSUME Bad # {} PROVE FALSE
      OBVIOUS
    <2>2. PICK m \in Bad : \A l \in Bad : m <= l
      <3> HIDE DEF Good
      <3>1. Bad \in SUBSET Nat
        OBVIOUS
      <3> HIDE DEF Bad
      <3>2. QED
        BY <2>1, <3>1, NatMin
    <2>3. m \in 1 .. n /\ ~Good(m) /\ seqs[m] \in Seq(S)
      OBVIOUS
    <2>4. m # 1
      <3>1. SUFFICES ASSUME m = 1 PROVE FALSE
        OBVIOUS
      <3>2. f[1] = seqs[1] /\ 1 \in 1 .. n
        BY <1>2, <2>3, <3>1
      <3>3. All(1)
        BY <3>2
      <3>4. From(1)
        BY <3>2
      <3>5. Once => Inj(1)
        BY <3>2
      <3>6. QED
        BY <2>3, <3>1, <3>2, <3>3, <3>4, <3>5
    <2>5. m - 1 \in 1 .. n /\ ~(m <= m - 1)
      BY <2>3, <2>4
    <2>6. Good(m - 1)
      <3> HIDE DEF Good
      <3>1. QED
        BY <2>2, <2>5
    <2> DEFINE s == f[m - 1]
               t == seqs[m]
               a == Len(s)
    <2>7. f[m] = s \o t
      BY <1>2, <2>3, <2>4
    <2>8. s \in Seq(S) /\ t \in Seq(S) /\ a \in Nat /\ Len(t) \in Nat
      BY <2>3, <2>6
    <2> HIDE DEF s, t
    <2>9. /\ s \o t \in Seq(S)
          /\ DOMAIN (s \o t) = 1 .. a + Len(t)
          /\ \A i \in 1 .. a : (s \o t)[i] = s[i]
          /\ \A i \in 1 .. Len(t) : a + i \in 1 .. a + Len(t) /\ (s \o t)[a + i] = t[i]
          /\ \A i \in 1 .. a + Len(t) : i \notin 1 .. a => i - a \in 1 .. Len(t) /\ (s \o t)[i] = t[i - a]
          /\ DOMAIN s = 1 .. a /\ DOMAIN t = 1 .. Len(t)
      BY <2>8
    <2> HIDE DEF a
    <2>10. All(m)
      <3>1. SUFFICES ASSUME NEW x \in 1 .. m, NEW j \in DOMAIN seqs[x]
                     PROVE  \E i \in DOMAIN f[m] : f[m][i] = seqs[x][j]
        OBVIOUS
      <3>2. CASE x = m
        <4>1. seqs[x] = t
          BY <3>2 DEF t
        <4>2. j \in 1 .. Len(t) /\ a + j \in DOMAIN f[m] /\ f[m][a + j] = t[j]
          BY <2>7, <2>9, <4>1
        <4>3. QED
          BY <4>1, <4>2
      <3>3. CASE x # m
        <4>1. x \in 1 .. m - 1
          BY <2>3, <3>3
        <4>2. PICK i \in DOMAIN s : s[i] = seqs[x][j]
          BY <2>6, <3>1, <4>1 DEF s
        <4>3. i \in 1 .. a /\ i \in 1 .. a + Len(t)
          BY <2>8, <2>9
        <4>4. QED
          BY <2>7, <2>9, <4>2, <4>3
      <3>4. QED
        BY <3>2, <3>3
    <2>11. From(m)
      <3>1. SUFFICES ASSUME NEW i \in DOMAIN f[m]
                     PROVE  \E x \in 1 .. m : \E j \in DOMAIN seqs[x] : f[m][i] = seqs[x][j]
        OBVIOUS
      <3>2. i \in 1 .. a + Len(t)
        BY <2>7, <2>9
      <3>3. CASE i \in 1 .. a
        <4>1. PICK x \in 1 .. m - 1 : \E j \in DOMAIN seqs[x] : s[i] = seqs[x][j]
          BY <2>6, <2>9, <3>3 DEF s
        <4>2. x \in 1 .. m
          BY <2>3
        <4>3. f[m][i] = s[i]
          BY <2>7, <2>9, <3>3
        <4>4. QED
          BY <4>1, <4>2, <4>3
      <3>4. CASE i \notin 1 .. a
        <4>1. i - a \in DOMAIN t /\ f[m][i] = t[i - a]
          BY <2>7, <2>9, <3>2, <3>4
        <4>2. m \in 1 .. m /\ t = seqs[m]
          BY <2>3 DEF t
        <4>3. QED
          BY <4>1, <4>2
      <3>5. QED
        BY <3>3, <3>4
    <2>12. Once => Inj(m)
      <3>1. SUFFICES ASSUME Once, NEW i \in DOMAIN f[m], NEW k \in DOMAIN f[m], f[m][i] = f[m][k]
                     PROVE  i = k
        OBVIOUS
      <3>2. i \in 1 .. a + Len(t) /\ k \in 1 .. a + Len(t) /\ i \in Int /\ k \in Int /\ a \in Int
        BY <2>7, <2>8, <2>9
      <3>3. CASE i \in 1 .. a /\ k \in 1 .. a
        <4>1. s[i] = s[k] /\ i \in DOMAIN s /\ k \in DOMAIN s
          BY <2>7, <2>9, <3>1, <3>3
        <4>2. QED
          BY <2>6, <3>1, <4>1 DEF s
      <3>4. CASE i \notin 1 .. a /\ k \notin 1 .. a
        <4>1. seqs[m][i - a] = seqs[m][k - a] /\ i - a \in DOMAIN seqs[m] /\ k - a \in DOMAIN seqs[m]
          BY <2>7, <2>9, <3>1, <3>2, <3>4 DEF t
        <4>2. i - a = k - a
          BY <2>3, <3>1, <4>1
        <4>3. QED
          BY <3>2, <4>2
      <3>5. ASSUME NEW b \in 1 .. a, NEW c \in 1 .. a + Len(t), c \notin 1 .. a, f[m][b] = f[m][c]
            PROVE  FALSE
        <4>1. PICK x \in 1 .. m - 1 : \E j \in DOMAIN seqs[x] : s[b] = seqs[x][j]
          BY <2>6, <2>9, <3>5 DEF s
        <4>2. PICK j \in DOMAIN seqs[x] : s[b] = seqs[x][j]
          BY <4>1
        <4>3. c - a \in DOMAIN seqs[m] /\ f[m][c] = seqs[m][c - a] /\ f[m][b] = s[b]
          BY <2>7, <2>9, <3>5 DEF t
        <4>4. x \in 1 .. n /\ x # m
          BY <2>3
        <4>5. QED
          BY <2>3, <3>1, <3>5, <4>2, <4>3, <4>4
      <3>6. QED
        BY <3>1, <3>2, <3>3, <3>4, <3>5
    <2>13. f[m] \in Seq(S)
      BY <2>7, <2>9
    <2>14. QED
      BY <2>3, <2>10, <2>11, <2>12, <2>13
  <1>4. Good(n)
    <2>1. n \in 1 .. n
      OBVIOUS
    <2> HIDE DEF Good
    <2>2. QED
      BY <1>3, <2>1
  <1>5. QED
    BY <1>1, <1>4 DEF AllIn, NoneTwice, NoRepeats

\* A sequence with one more element in front.
LEMMA Prefixed ==
  ASSUME NEW U, NEW v \in U, NEW q \in Seq(U)
  PROVE  /\ <<v>> \o q \in Seq(U) /\ Len(<<v>> \o q) = Len(q) + 1 /\ (<<v>> \o q)[1] = v
         /\ \A i \in 1 .. Len(q) : (<<v>> \o q)[i + 1] = q[i]
  <1>1. <<v>> \in Seq(U) /\ Len(<<v>>) = 1 /\ <<v>>[1] = v /\ Len(q) \in Nat
    OBVIOUS
  <1>2. <<v>> \o q \in Seq(U) /\ Len(<<v>> \o q) = Len(q) + 1
    BY <1>1
  <1>3. (<<v>> \o q)[1] = v
    BY <1>1
  <1>4. ASSUME NEW i \in 1 .. Len(q) PROVE (<<v>> \o q)[i + 1] = q[i]
    <2>1. i + 1 \in 1 .. Len(q) + 1 /\ ~(i + 1 <= 1) /\ (i + 1) - 1 = i
      BY <1>1
    <2>2. QED
      BY <1>1, <2>1
  <1>5. QED
    BY <1>2, <1>3, <1>4

-----------------------------------------------------------------------------
(***************************************************************************)
(* Steps in a row, and sets put in order.                                  *)
(***************************************************************************)
\* Starting from b, one step after the other: f[i] is what the i-th step makes of f[i - 1].
Iterates(f, n, b, step) == /\ f[0] = b
                           /\ \A i \in 1 .. n : f[i] = step[<<f[i - 1], i>>]

\* Such an f exists.
LEMMA IterExists ==
  ASSUME NEW R, NEW n \in Nat, NEW b \in R, NEW step \in [R \X (1 .. n) -> R]
  PROVE  \E f \in [0 .. n -> R] : Iterates(f, n, b, step)
  <1> DEFINE Solves(f, k) == f \in [0 .. k -> R] /\ Iterates(f, k, b, step)
             Bad == {k \in 0 .. n : ~\E f : Solves(f, k)}
  <1>1. Bad = {}
    <2>1. SUFFICES ASSUME Bad # {} PROVE FALSE
      OBVIOUS
    <2>2. PICK k \in Bad : \A l \in Bad : k <= l
      <3>1. Bad \in SUBSET Nat
        OBVIOUS
      <3> HIDE DEF Bad
      <3>2. QED
        BY <2>1, <3>1, NatMin
    <2>3. CASE k = 0
      <3>1. Solves([i \in 0 .. 0 |-> b], 0)
        BY DEF Iterates
      <3>2. QED
        BY <2>2, <2>3, <3>1
    <2>4. CASE k # 0
      <3>1. k - 1 \in 0 .. n /\ ~(k <= k - 1) /\ k \in 1 .. n
        BY <2>2, <2>4
      <3>2. PICK g : Solves(g, k - 1)
        BY <2>2, <3>1
      <3> DEFINE v == step[<<g[k - 1], k>>]
                 h == [i \in 0 .. k |-> IF i = k THEN v ELSE g[i]]
      <3>3. g[k - 1] \in R
        BY <3>1, <3>2
      <3>4. v \in R
        BY <3>1, <3>3
      <3>5. h \in [0 .. k -> R]
        BY <3>1, <3>2, <3>4
      <3>6. h[0] = b
        BY <3>1, <3>2 DEF Iterates
      <3>7. ASSUME NEW i \in 1 .. k PROVE h[i] = step[<<h[i - 1], i>>]
        <4>1. h[i - 1] = g[i - 1] /\ i \in 0 .. k
          BY <3>1
        <4>2. CASE i = k
          BY <4>1, <4>2
        <4>3. CASE i # k
          <5>1. i \in 1 .. k - 1
            BY <3>1, <4>3
          <5>2. h[i] = g[i] /\ g[i] = step[<<g[i - 1], i>>]
            BY <3>2, <4>1, <4>3, <5>1 DEF Iterates
          <5>3. QED
            BY <4>1, <5>2
        <4>4. QED
          BY <4>2, <4>3
      <3> HIDE DEF h
      <3>8. Solves(h, k)
        BY <3>5, <3>6, <3>7 DEF Iterates
      <3>9. QED
        BY <2>2, <3>8
    <2>5. QED
      BY <2>3, <2>4
  <1>2. \E f : Solves(f, n)
    BY <1>1
  <1>3. QED
    BY <1>2

\* A finite set of naturals that is not empty has a greatest element.
LEMMA NatMax ==
  ASSUME NEW n \in Nat, NEW S \in SUBSET (0 .. n), S # {}
  PROVE  Max(S) \in S /\ \A x \in S : x <= Max(S)
  <1> DEFINE T == {k \in Nat : \A x \in S : x <= k}
  <1>1. PICK k \in T : \A l \in T : k <= l
    <2>1. n \in T /\ T \in SUBSET Nat
      OBVIOUS
    <2> HIDE DEF T
    <2>2. QED
      BY <2>1, NatMin
  <1>2. ASSUME k \notin S PROVE FALSE
    <2>1. PICK x \in S : TRUE
      OBVIOUS
    <2>2. x <= k /\ x # k /\ x \in Nat /\ k \in Nat
      BY <1>1, <1>2, <2>1
    <2>3. ASSUME NEW y \in S PROVE y <= k - 1
      <3>1. y <= k /\ y # k /\ y \in Nat
        BY <1>1, <1>2
      <3>2. QED
        BY <2>2, <3>1
    <2>4. k - 1 \in T
      BY <2>2, <2>3
    <2>5. QED
      BY <1>1, <2>2, <2>4
  <1>3. k \in S /\ \A x \in S : k >= x
    BY <1>1, <1>2
  <1>4. QED
    BY <1>3 DEF Max

\* A function on 1 .. n is a sequence.
LEMMA IsSeq ==
  ASSUME NEW S, NEW n \in Nat, NEW s \in [1 .. n -> S]
  PROVE  s \in Seq(S) /\ Len(s) = n
  OBVIOUS

\* The elements of S, each at the place that so many come before.
Counted(S, R) ==
    [i \in 1 .. Cardinality(S) |->
        CHOOSE x \in S : Cardinality({y \in S : <<y, x>> \in R}) = i - 1]

StrictOrder(S, R) ==
  /\ \A x \in S : <<x, x>> \notin R
  /\ \A x, y, z \in S : <<x, y>> \in R /\ <<y, z>> \in R => <<x, z>> \in R
  /\ \A x, y \in S : x = y \/ <<x, y>> \in R \/ <<y, x>> \in R

\* s names each element of S, once.
Enumerates(s, S) ==
  /\ s \in Seq(S)
  /\ \A x \in S : \E i \in 1 .. Len(s) : s[i] = x
  /\ \A i, j \in 1 .. Len(s) : s[i] = s[j] => i = j

\* Counting how many come before each element puts a set in order, when of any two one comes first.
LEMMA Sorts ==
  ASSUME NEW S, IsFiniteSet(S), NEW R, StrictOrder(S, R), NEW s, s = Counted(S, R)
  PROVE  Enumerates(s, S) /\ \A i, j \in 1 .. Len(s) : i < j => <<s[i], s[j]>> \in R
  <1> DEFINE n == Cardinality(S)
             Before(x) == {y \in S : <<y, x>> \in R}
             pos == [x \in S |-> Cardinality(Before(x))]
  <1>0. /\ \A x \in S : <<x, x>> \notin R
        /\ \A x, y, z \in S : <<x, y>> \in R /\ <<y, z>> \in R => <<x, z>> \in R
        /\ \A x, y \in S : x = y \/ <<x, y>> \in R \/ <<y, x>> \in R
    BY DEF StrictOrder
  <1>1. n \in Nat
    BY FS_CardinalityType
  <1>2. ASSUME NEW x \in S PROVE pos[x] \in 0 .. n - 1 /\ IsFiniteSet(Before(x))
    <2>1. IsFiniteSet(S \ {x}) /\ Cardinality(S \ {x}) = n - 1
      BY FS_RemoveElement
    <2>2. Before(x) \in SUBSET (S \ {x})
      BY <1>0
    <2> HIDE DEF Before
    <2>3. IsFiniteSet(Before(x)) /\ Cardinality(Before(x)) <= n - 1
      BY <2>1, <2>2, FS_Subset
    <2>4. Cardinality(Before(x)) \in Nat
      BY <2>3, FS_CardinalityType
    <2> HIDE DEF n
    <2>5. QED
      BY <1>1, <2>3, <2>4
  <1>3. ASSUME NEW x \in S, NEW y \in S, <<x, y>> \in R PROVE pos[x] < pos[y]
    <2>1. Before(x) \in SUBSET Before(y) /\ x \in Before(y) /\ x \notin Before(x)
      BY <1>0, <1>3
    <2> HIDE DEF Before
    <2>2. Before(x) \in SUBSET (Before(y) \ {x})
      BY <2>1
    <2>3. IsFiniteSet(Before(y) \ {x}) /\ Cardinality(Before(y) \ {x}) = Cardinality(Before(y)) - 1
      BY <1>2, <2>1, FS_RemoveElement
    <2>4. Cardinality(Before(x)) <= Cardinality(Before(y)) - 1
      BY <2>2, <2>3, FS_Subset
    <2>5. pos[x] \in Int /\ pos[y] \in Int
      BY <1>2
    <2>6. QED
      BY <2>4, <2>5
  <1> HIDE DEF Before
  <1>4. pos \in [S -> 0 .. n - 1]
    BY <1>2
  <1>5. \A x, y \in S : pos[x] = pos[y] => x = y
    <2>1. ASSUME NEW x \in S, NEW y \in S, pos[x] = pos[y], x # y PROVE FALSE
      <3>1. pos[x] \in Int /\ pos[y] \in Int
        BY <1>2
      <3>2. pos[x] < pos[y] \/ pos[y] < pos[x]
        BY <1>0, <1>3, <2>1
      <3> HIDE DEF pos
      <3>3. QED
        BY <2>1, <3>1, <3>2
    <2>2. QED
      BY <2>1
  <1>6. \A k \in 0 .. n - 1 : \E x \in S : pos[x] = k
    <2> HIDE DEF pos
    <2>1. pos \in Injection(S, 0 .. n - 1)
      BY <1>4, <1>5 DEF Injection, IsInjective
    <2>2. IsFiniteSet(0 .. n - 1) /\ Cardinality(0 .. n - 1) = n
      <3> HIDE DEF n
      <3>1. 0 \in Int /\ n - 1 \in Int
        BY <1>1
      <3>2. IsFiniteSet(0 .. n - 1) /\ Cardinality(0 .. n - 1) = IF 0 > n - 1 THEN 0 ELSE (n - 1) - 0 + 1
        BY <3>1, FS_Interval
      <3>3. QED
        BY <1>1, <3>2
    <2>3. pos \in Surjection(S, 0 .. n - 1)
      BY <2>1, <2>2, FS_Injection
    <2>4. QED
      BY <2>3 DEF Surjection
  <1>7. s = [i \in 1 .. n |-> CHOOSE x \in S : Cardinality(Before(x)) = i - 1]
    BY DEF Before, Counted
  <1> HIDE DEF n
  <1>8. ASSUME NEW i \in 1 .. n PROVE s[i] \in S /\ pos[s[i]] = i - 1
    <2>1. i - 1 \in 0 .. n - 1
      BY <1>1
    <2>2. PICK x \in S : pos[x] = i - 1
      BY <1>6, <2>1
    <2>3. Cardinality(Before(x)) = i - 1
      BY <2>2
    <2>4. s[i] = CHOOSE y \in S : Cardinality(Before(y)) = i - 1
      BY <1>7
    <2>5. s[i] \in S /\ Cardinality(Before(s[i])) = i - 1
      BY <2>3, <2>4
    <2>6. QED
      BY <2>5
  <1> HIDE DEF pos
  <1>9. s \in Seq(S) /\ Len(s) = n
    <2>1. s \in [1 .. n -> S]
      BY <1>7, <1>8
    <2>2. QED
      BY <1>1, <2>1, IsSeq
  <1>10. ASSUME NEW x \in S PROVE \E i \in 1 .. n : s[i] = x
    <2>1. pos[x] \in 0 .. n - 1
      BY <1>4
    <2>2. pos[x] + 1 \in 1 .. n /\ (pos[x] + 1) - 1 = pos[x]
      BY <1>1, <2>1
    <2>3. s[pos[x] + 1] \in S /\ pos[s[pos[x] + 1]] = pos[x]
      BY <1>8, <2>2
    <2>4. QED
      BY <1>5, <2>2, <2>3
  <1>11. ASSUME NEW i \in 1 .. n, NEW j \in 1 .. n, i < j PROVE <<s[i], s[j]>> \in R
    <2>1. s[i] \in S /\ s[j] \in S /\ pos[s[i]] = i - 1 /\ pos[s[j]] = j - 1
      BY <1>8
    <2>2. pos[s[i]] < pos[s[j]]
      BY <1>11, <2>1
    <2>3. ~(pos[s[j]] < pos[s[i]]) /\ s[i] # s[j]
      BY <1>11, <2>1
    <2>4. QED
      BY <1>0, <1>3, <2>1, <2>3 DEF pos
  <1>12. ASSUME NEW i \in 1 .. n, NEW j \in 1 .. n, s[i] = s[j] PROVE i = j
    <2>1. pos[s[i]] = i - 1 /\ pos[s[j]] = j - 1
      BY <1>8 DEF pos
    <2>2. QED
      BY <1>12, <2>1
  <1>13. QED
    BY <1>9, <1>10, <1>11, <1>12 DEF Enumerates
-----------------------------------------------------------------------------
(***************************************************************************)
(* Sizes of finite sets.                                                   *)
(***************************************************************************)
\* A one-to-one correspondence keeps the size.
LEMMA SameSize ==
  ASSUME NEW A, NEW B, IsFiniteSet(B), NEW g \in [B -> A],
         \A x, y \in B : g[x] = g[y] => x = y, \A z \in A : \E x \in B : g[x] = z
  PROVE  IsFiniteSet(A) /\ Cardinality(A) = Cardinality(B)
  <1>1. g \in Injection(B, A) /\ g \in Surjection(B, A)
    BY DEF Injection, Surjection, IsInjective
  <1>2. ExistsBijection(B, A)
    BY <1>1 DEF ExistsBijection, Bijection
  <1>3. QED
    BY <1>2, FS_Bijection

\* A set of at most one element has one at most.
LEMMA AtMost1 ==
  ASSUME NEW I, IsFiniteSet(I), Cardinality(I) <= 1, NEW i \in I, NEW j \in I
  PROVE  i = j
  <1>1. SUFFICES ASSUME i # j PROVE FALSE
    OBVIOUS
  <1>2. IsFiniteSet({i, j}) /\ Cardinality({i, j}) = 2
    <2>1. IsFiniteSet({i}) /\ Cardinality({i}) = 1 /\ {i, j} = {i} \cup {j}
      BY FS_Singleton
    <2>2. j \notin {i}
      BY <1>1
    <2>3. IsFiniteSet({i} \cup {j}) /\ Cardinality({i} \cup {j}) = Cardinality({i}) + 1
      BY <2>1, <2>2, FS_AddElement
    <2>4. QED
      BY <2>1, <2>3
  <1>3. Cardinality({i, j}) <= Cardinality(I) /\ Cardinality(I) \in Nat
    BY FS_Subset, FS_CardinalityType
  <1>4. QED
    BY <1>2, <1>3

\* A set of at most two elements has no third.
LEMMA AtMost2 ==
  ASSUME NEW I, IsFiniteSet(I), Cardinality(I) <= 2, NEW a \in I, NEW b \in I, a # b, NEW i \in I
  PROVE  i = a \/ i = b
  <1>1. IsFiniteSet(I \ {a}) /\ Cardinality(I \ {a}) = Cardinality(I) - 1 /\ Cardinality(I) \in Nat
    BY FS_RemoveElement, FS_CardinalityType
  <1>2. CASE i # a
    <2>1. i \in I \ {a} /\ b \in I \ {a} /\ Cardinality(I \ {a}) <= 1
      BY <1>1, <1>2
    <2>2. QED
      BY <1>1, <2>1, AtMost1
  <1>3. QED
    BY <1>2

\* An element of a set that has not one element alone has another beside it.
LEMMA AnotherOne ==
  ASSUME NEW I, IsFiniteSet(I), Cardinality(I) # 1, NEW i \in I
  PROVE  \E j \in I : j # i
  <1>1. SUFFICES ASSUME \A j \in I : j = i PROVE FALSE
    OBVIOUS
  <1>2. I = {i}
    BY <1>1
  <1>3. QED
    BY <1>2, FS_Singleton

\* What a union has in common with a set.
LEMMA UnionCap ==
  ASSUME NEW J, NEW E, NEW B
  PROVE  (E \cup UNION J) \cap B = (E \cap B) \cup UNION {C \cap B : C \in J}
  <1>1. ASSUME NEW C \in J, NEW x \in C, x \in B PROVE x \in UNION {D \cap B : D \in J}
    <2>1. C \cap B \in {D \cap B : D \in J} /\ x \in C \cap B
      BY <1>1
    <2>2. QED
      BY <2>1
  <1>2. ASSUME NEW D \in {C \cap B : C \in J}, NEW x \in D PROVE x \in B /\ x \in UNION J
    <2>1. PICK C \in J : D = C \cap B
      OBVIOUS
    <2>2. QED
      BY <1>2, <2>1
  <1>3. ASSUME NEW x \in (E \cup UNION J) \cap B PROVE x \in (E \cap B) \cup UNION {C \cap B : C \in J}
    <2>1. CASE x \in E
      BY <2>1
    <2>2. CASE x \notin E
      <3>1. PICK C \in J : x \in C
        BY <2>2
      <3>2. QED
        BY <1>1, <3>1
    <2>3. QED
      BY <2>1, <2>2
  <1>4. ASSUME NEW x \in (E \cap B) \cup UNION {C \cap B : C \in J} PROVE x \in (E \cup UNION J) \cap B
    <2>1. CASE x \in E /\ x \in B
      BY <2>1
    <2>2. CASE ~(x \in E /\ x \in B)
      <3>1. PICK D \in {C \cap B : C \in J} : x \in D
        BY <2>2
      <3>2. QED
        BY <1>2, <3>1
    <2>3. QED
      BY <2>1, <2>2
  <1>5. QED
    BY <1>3, <1>4

\* The union of a family of sets.
Together(F, D) == UNION {F[x] : x \in D}

\* The sizes of disjoint sets add up to the size of their union.
LEMMA SumCards ==
  ASSUME NEW D, IsFiniteSet(D), NEW F, \A x \in D : IsFiniteSet(F[x]),
         \A x, y \in D : x # y => F[x] \cap F[y] = {},
         NEW c, \A x \in D : c[x] = Cardinality(F[x])
  PROVE  /\ IsFiniteSet(Together(F, D))
         /\ SumFunctionOnSet(c, D) = Cardinality(Together(F, D))
  <1> DEFINE All(s) == UNION {F[x] : x \in s}
             Good(s) == IsFiniteSet(All(s)) /\ SumFunctionOnSet(c, s) = Cardinality(All(s))
             Bad == {s \in SUBSET D : ~Good(s)}
  <1>1. \A x \in D : c[x] \in Nat
    BY FS_CardinalityType
  <1>2. Bad = {}
    <2>1. SUFFICES ASSUME Bad # {} PROVE FALSE
      OBVIOUS
    <2>2. PICK s \in Bad : \A t \in Bad : t \subseteq s => t = s
      <3>1. Bad \in SUBSET SUBSET D
        OBVIOUS
      <3> HIDE DEF Bad
      <3>2. QED
        BY <2>1, <3>1, SubsetMin
    <2>3. s \in SUBSET D /\ ~Good(s)
      OBVIOUS
    <2>4. CASE s = {}
      <3>1. All(s) = {}
        BY <2>4
      <3>2. Good(s)
        BY <2>4, <3>1, FS_EmptySet, SumEmpty
      <3>3. QED
        BY <2>3, <3>2
    <2>5. CASE s # {}
      <3>1. PICK x \in s : TRUE
        BY <2>5
      <3> DEFINE r == s \ {x}
      <3>2. r \in SUBSET D /\ ~(s \subseteq r) /\ r \subseteq s
        BY <2>3, <3>1
      <3>3. Good(r)
        <4> HIDE DEF Good, r
        <4>1. QED
          BY <2>2, <3>2
      <3>4. IsFiniteSet(s) /\ \A y \in s : c[y] \in Nat
        BY <1>1, <2>3, FS_Subset
      <3>5. SumFunctionOnSet(c, s) = c[x] + SumFunctionOnSet(c, r)
        BY <3>1, <3>4, SumRemove
      <3>6. All(s) = All(r) \cup F[x]
        <4>1. s = r \cup {x}
          BY <3>1
        <4> HIDE DEF r
        <4>2. QED
          BY <4>1
      <3>7. All(r) \cap F[x] = {}
        <4>1. ASSUME NEW y \in r PROVE F[y] \cap F[x] = {}
          BY <2>3, <3>1
        <4> HIDE DEF r
        <4>2. QED
          BY <4>1
      <3>8. IsFiniteSet(F[x]) /\ c[x] = Cardinality(F[x]) /\ Cardinality(F[x]) \in Nat
        BY <1>1, <2>3, <3>1
      <3>9. IsFiniteSet(All(r)) /\ Cardinality(All(r)) \in Nat /\ SumFunctionOnSet(c, r) = Cardinality(All(r))
        BY <3>3, FS_CardinalityType
      <3> HIDE DEF All, r
      <3>10. /\ IsFiniteSet(All(r) \cup F[x])
             /\ Cardinality(All(r) \cup F[x]) = Cardinality(All(r)) + Cardinality(F[x]) - Cardinality({})
        <4>1. ASSUME NEW X, NEW Y, IsFiniteSet(X), IsFiniteSet(Y), X \cap Y = {}
              PROVE  /\ IsFiniteSet(X \cup Y)
                     /\ Cardinality(X \cup Y) = Cardinality(X) + Cardinality(Y) - Cardinality({})
          <5>1. Cardinality(X \cup Y) = Cardinality(X) + Cardinality(Y) - Cardinality(X \cap Y)
            BY <4>1, FS_Union
          <5>2. QED
            BY <4>1, <5>1, FS_Union
        <4>2. QED
          BY <3>7, <3>8, <3>9, <4>1
      <3>11. Good(s)
        BY <3>5, <3>6, <3>8, <3>9, <3>10, FS_EmptySet
      <3>12. QED
        BY <2>3, <3>11
    <2>6. QED
      BY <2>4, <2>5
  <1>3. Good(D)
    <2> HIDE DEF Good
    <2>1. QED
      BY <1>2
  <1>4. QED
    BY <1>3 DEF Together

-----------------------------------------------------------------------------
(***************************************************************************)
(* The grid: its edges join the neighbours, each pair once.                *)
(***************************************************************************)
\* y is the right or the lower neighbour of x.
Follows(x, y) == \/ y = x + 1 /\ (x % W) + 1 < W
                 \/ y = x + W /\ x + W \in V

\* The two ends of an edge.
Ends(i) == {Edges[i][1], Edges[i][2]}

\* grid_edges lists every pair of neighbours of the grid once, the smaller vertex first, and
\* nothing else.
LEMMA EdgesAre ==
  /\ Edges \in Seq(V \X V)
  /\ \A i \in DOMAIN Edges : Edges[i] \in V \X V /\ Edges[i][1] < Edges[i][2] /\ Follows(Edges[i][1], Edges[i][2])
  /\ \A x, y \in V : Follows(x, y) => \E i \in DOMAIN Edges : Edges[i] = <<x, y>>
  /\ \A i, k \in DOMAIN Edges : Edges[i] = Edges[k] => i = k
  <1> DEFINE P == {uv \in V \X V : uv[1] < uv[2] /\ Follows(uv[1], uv[2])}
             right(x) == IF ((x - 1) % W) + 1 < W THEN <<<<x - 1, x>>>> ELSE <<>>
             below(x) == IF (x - 1) + W \in V THEN <<<<x - 1, x - 1 + W>>>> ELSE <<>>
             rows == [x \in 1 .. W * W |-> right(x) \o below(x)]
             n == W * W
  <1>1. W \in Nat /\ W > 1 /\ n \in Nat \ {0} /\ V = 0 .. n - 1
    <2>1. W \in Nat /\ W > 1
      BY WAssumption
    <2>2. W * W \in Nat /\ W * W # 0
      BY <2>1
    <2>3. QED
      BY <2>1, <2>2 DEF V
  <1>2. ASSUME NEW x \in 1 .. n PROVE right(x) \in Seq(P)
    <2>1. x - 1 \in V /\ x \in Int /\ x - 1 \in Int /\ x - 1 < x /\ x = (x - 1) + 1
      BY <1>1
    <2>2. CASE ((x - 1) % W) + 1 < W
      <3>1. x # n
        <4>1. SUFFICES ASSUME x = n PROVE FALSE
          OBVIOUS
        <4>2. n - 1 = W * (W - 1) + (W - 1)
          BY <1>1
        <4>3. W - 1 \in Int /\ W - 1 \in 0 .. W - 1 /\ x - 1 = W * (W - 1) + (W - 1) /\ W \in Nat \ {0}
          BY <1>1, <4>1, <4>2
        <4>4. (x - 1) % W = W - 1
          <5> DEFINE a == x - 1
                     r == W - 1
          <5>1. a \in Int /\ r \in Int /\ r \in 0 .. W - 1 /\ a = W * r + r /\ W \in Nat \ {0}
            BY <2>1, <4>3
          <5> HIDE DEF a, r
          <5>2. a % W = r
            BY <5>1, ModUnique
          <5>3. QED
            BY <5>2 DEF a, r
        <4>5. QED
          BY <1>1, <2>2, <4>4
      <3>2. x \in V
        BY <1>1, <3>1
      <3>3. Follows(x - 1, x)
        BY <2>1, <2>2 DEF Follows
      <3>4. <<x - 1, x>> \in P
        BY <2>1, <3>2, <3>3
      <3> HIDE DEF P
      <3>5. QED
        BY <2>2, <3>4
    <2>3. QED
      BY <2>2
  <1>3. ASSUME NEW x \in 1 .. n PROVE below(x) \in Seq(P)
    <2>1. x - 1 \in V /\ x - 1 < x - 1 + W
      BY <1>1
    <2>2. CASE (x - 1) + W \in V
      <3>1. Follows(x - 1, x - 1 + W)
        BY <2>2 DEF Follows
      <3>2. <<x - 1, x - 1 + W>> \in P
        BY <2>1, <2>2, <3>1
      <3> HIDE DEF P
      <3>3. QED
        BY <2>2, <3>2
    <2>3. QED
      BY <2>2
  <1>4. rows \in [1 .. n -> Seq(P)]
    <2>1. ASSUME NEW x \in 1 .. n PROVE right(x) \o below(x) \in Seq(P)
      <3>1. right(x) \in Seq(P) /\ below(x) \in Seq(P)
        BY <1>2, <1>3
      <3> HIDE DEF right, below, P
      <3>2. QED
        BY <3>1
    <2> HIDE DEF right, below, P
    <2>2. QED
      BY <2>1
  <1>5. Edges = FlattenSeq(rows)
    BY DEF Edges
  <1>6. ASSUME NEW x \in 1 .. n
        PROVE  /\ \A j \in DOMAIN rows[x] : j \in 1 .. 2 /\ rows[x][j][1] = x - 1
               /\ 1 \in DOMAIN rows[x] /\ 2 \in DOMAIN rows[x] => rows[x][1] # rows[x][2]
               /\ right(x) # <<>> => 1 \in DOMAIN rows[x] /\ rows[x][1] = <<x - 1, x>>
               /\ below(x) # <<>> => \E j \in DOMAIN rows[x] : rows[x][j] = <<x - 1, x - 1 + W>>
    <2>1. rows[x] = right(x) \o below(x)
      OBVIOUS
    <2>2. x # x - 1 + W
      BY <1>1
    <2>3. right(x) = <<>> \/ right(x) = <<<<x - 1, x>>>>
      OBVIOUS
    <2>4. below(x) = <<>> \/ below(x) = <<<<x - 1, x - 1 + W>>>>
      OBVIOUS
    <2> DEFINE r == rows[x]
               a == <<x - 1, x>>
               b == <<x - 1, x - 1 + W>>
    <2>5. a # b /\ a[1] = x - 1 /\ b[1] = x - 1
      BY <2>2
    <2>6. CASE right(x) = <<>> /\ below(x) = <<>>
      <3>1. r = <<>>
        BY <2>1, <2>6
      <3>2. QED
        BY <2>6, <3>1
    <2>7. CASE right(x) = <<a>> /\ below(x) = <<>>
      <3> HIDE DEF a, b, rows, right, below
      <3>1. r = <<a>>
        BY <2>1, <2>7
      <3>2. QED
        BY <2>5, <2>7, <3>1 DEF a, b
    <2>8. CASE right(x) = <<>> /\ below(x) = <<b>>
      <3> HIDE DEF a, b, rows, right, below
      <3>1. r = <<b>>
        BY <2>1, <2>8
      <3>2. QED
        BY <2>5, <2>8, <3>1 DEF a, b
    <2>9. CASE right(x) = <<a>> /\ below(x) = <<b>>
      <3>1. /\ right(x) \in Seq({a, b}) /\ Len(right(x)) = 1 /\ right(x)[1] = a
            /\ below(x) \in Seq({a, b}) /\ Len(below(x)) = 1 /\ below(x)[1] = b
        <4> HIDE DEF a, b, rows, right, below
        <4>1. QED
          BY <2>9
      <3> HIDE DEF a, b, rows, right, below
      <3>2. DOMAIN r = 1 .. 2 /\ r[1] = a /\ r[2] = b
        <4>1. ASSUME NEW S, NEW s \in Seq(S), NEW t \in Seq(S), Len(s) = 1, Len(t) = 1
              PROVE  DOMAIN (s \o t) = 1 .. 2 /\ (s \o t)[1] = s[1] /\ (s \o t)[2] = t[1]
          <5>1. /\ DOMAIN (s \o t) = 1 .. Len(s) + Len(t)
                /\ \A i \in 1 .. Len(s) : (s \o t)[i] = s[i]
                /\ \A i \in 1 .. Len(t) : (s \o t)[Len(s) + i] = t[i]
            OBVIOUS
          <5>2. 1 \in 1 .. Len(s) /\ 1 \in 1 .. Len(t) /\ Len(s) + Len(t) = 2 /\ Len(s) + 1 = 2
            BY <4>1
          <5>3. (s \o t)[1] = s[1] /\ (s \o t)[Len(s) + 1] = t[1]
            BY <5>1, <5>2
          <5>4. QED
            BY <5>1, <5>2, <5>3
        <4> HIDE DEF r
        <4>2. QED
          BY <2>1, <3>1, <4>1 DEF r
      <3>3. QED
        BY <2>5, <2>9, <3>2 DEF a, b
    <2>10. QED
      BY <2>3, <2>4, <2>6, <2>7, <2>8, <2>9
  <1>7. ASSUME NEW x \in 1 .. n, NEW y \in 1 .. n, NEW j \in DOMAIN rows[x], NEW k \in DOMAIN rows[y],
               rows[x][j] = rows[y][k]
        PROVE  x = y /\ j = k
    <2> HIDE DEF rows
    <2>1. rows[x][j][1] = x - 1 /\ rows[y][k][1] = y - 1
      BY <1>6
    <2>2. x - 1 = y - 1
      BY <1>7, <2>1
    <2>3. x = y
      BY <2>2
    <2>4. j \in 1 .. 2 /\ k \in 1 .. 2
      BY <1>6
    <2>5. j = 1 \/ j = 2
      BY <2>4
    <2>6. k = 1 \/ k = 2
      BY <2>4
    <2>7. QED
      BY <1>6, <1>7, <2>3, <2>5, <2>6
  <1>8. Edges \in Seq(P)
    <2> HIDE DEF n, rows, P
    <2>1. n \in Nat \ {0}
      BY <1>1
    <2>2. QED
      BY <1>4, <1>5, <2>1, FlattenMembers
  <1>9. /\ \A x \in 1 .. n : \A j \in DOMAIN rows[x] : \E i \in DOMAIN Edges : Edges[i] = rows[x][j]
        /\ \A i, k \in DOMAIN Edges : Edges[i] = Edges[k] => i = k
    <2> HIDE DEF n, rows, P
    <2>1. NoneTwice(rows, n)
      BY <1>7 DEF NoneTwice
    <2>2. n \in Nat \ {0}
      BY <1>1
    <2>3. AllIn(FlattenSeq(rows), rows, n) /\ NoRepeats(FlattenSeq(rows))
      BY <1>4, <2>1, <2>2, FlattenMembers
    <2>4. QED
      BY <1>5, <2>3 DEF AllIn, NoRepeats
  <1>10. ASSUME NEW x \in V, NEW y \in V, Follows(x, y)
         PROVE  \E i \in DOMAIN Edges : Edges[i] = <<x, y>>
    <2>1. x + 1 \in 1 .. n /\ (x + 1) - 1 = x
      BY <1>1
    <2> DEFINE z == x + 1
    <2>2. CASE y = x + 1 /\ (x % W) + 1 < W
      <3>1. right(z) # <<>>
        BY <2>1, <2>2
      <3> HIDE DEF rows, right
      <3>2. 1 \in DOMAIN rows[z] /\ rows[z][1] = <<z - 1, z>>
        BY <1>6, <2>1, <3>1
      <3>3. rows[z][1] = <<x, y>>
        BY <2>1, <2>2, <3>2
      <3> HIDE DEF z, n
      <3>4. z \in 1 .. n
        BY <2>1 DEF z
      <3>5. \E i \in DOMAIN Edges : Edges[i] = rows[z][1]
        BY <1>9, <3>2, <3>4
      <3>6. QED
        BY <3>3, <3>5
    <2>3. CASE y = x + W /\ x + W \in V
      <3>1. below(z) # <<>>
        BY <2>1, <2>3
      <3> HIDE DEF rows, below
      <3>2. PICK j \in DOMAIN rows[z] : rows[z][j] = <<z - 1, z - 1 + W>>
        BY <1>6, <2>1, <3>1
      <3>3. rows[z][j] = <<x, y>>
        BY <2>1, <2>3, <3>2
      <3> HIDE DEF z, n
      <3>4. z \in 1 .. n
        BY <2>1 DEF z
      <3>5. \E i \in DOMAIN Edges : Edges[i] = rows[z][j]
        BY <1>9, <3>2, <3>4
      <3>6. QED
        BY <3>3, <3>5
    <2>4. QED
      BY <1>10, <2>2, <2>3 DEF Follows
  <1>11. ASSUME NEW i \in DOMAIN Edges
         PROVE  Edges[i] \in V \X V /\ Edges[i][1] < Edges[i][2] /\ Follows(Edges[i][1], Edges[i][2])
    <2> HIDE DEF P
    <2>1. Edges[i] \in P
      BY <1>8
    <2>2. QED
      BY <2>1 DEF P
  <1>12. Edges \in Seq(V \X V)
    BY <1>8
  <1>13. QED
    BY <1>9, <1>10, <1>11, <1>12

\* No two edges have the same ends.
LEMMA EndsOnce ==
  /\ \A i \in DOMAIN Edges : Ends(i) \subseteq V /\ Edges[i][1] # Edges[i][2]
  /\ \A i, k \in DOMAIN Edges : Ends(i) = Ends(k) => i = k
  <1>1. ASSUME NEW i \in DOMAIN Edges
        PROVE  Edges[i] = <<Edges[i][1], Edges[i][2]>> /\ Edges[i][1] \in V /\ Edges[i][2] \in V /\ Edges[i][1] < Edges[i][2]
    BY EdgesAre
  <1>2. \A x \in V : x \in Int
    BY WAssumption DEF V
  <1>3. ASSUME NEW i \in DOMAIN Edges, NEW k \in DOMAIN Edges, Ends(i) = Ends(k)
        PROVE  i = k
    <2>1. \/ Edges[i][1] = Edges[k][1] /\ Edges[i][2] = Edges[k][2]
          \/ Edges[i][1] = Edges[k][2] /\ Edges[i][2] = Edges[k][1]
      BY <1>1, <1>3 DEF Ends
    <2>2. ~(Edges[i][1] = Edges[k][2] /\ Edges[i][2] = Edges[k][1])
      BY <1>1, <1>2
    <2>3. Edges[i] = Edges[k]
      BY <1>1, <2>1, <2>2
    <2>4. QED
      BY <2>3, EdgesAre
  <1>4. QED
    BY <1>1, <1>2, <1>3 DEF Ends

\* The edges of the grid join different vertices of it.
LEMMA EdgesType ==
  /\ Edges \in Seq(V \X V)
  /\ \A e \in DOMAIN Edges : Edges[e][1] # Edges[e][2]
  BY EdgesAre, EndsOnce

-----------------------------------------------------------------------------
(***************************************************************************)
(* The frontier dynamic program: Reachable and Counts exist, there are     *)
(* finitely many keys, each over its frontier, and a decision leads to at  *)
(* most one.                                                               *)
(***************************************************************************)
LastEdge == Len(Edges)
Decisions(ks) == ks \X {0, 1}
NextKeys(ks, e) == UNION {transition_one(x[1], e, x[2]) : x \in Decisions(ks)}

\* How many edges there are.
LEMMA LastType == LastEdge \in Nat /\ DOMAIN Edges = 1 .. LastEdge
  BY EdgesType DEF LastEdge

\* The recursive function Reachable exists and satisfies its definition.
LEMMA ReachableDef ==
  /\ DOMAIN Reachable = 0 .. LastEdge
  /\ Reachable[0] = {EmptyKey}
  /\ \A e \in 1 .. LastEdge : Reachable[e] = NextKeys(Reachable[e - 1], e)
  <1> DEFINE Good(g, n) == g = [e \in 0 .. n |-> IF e = 0 THEN {EmptyKey} ELSE NextKeys(g[e - 1], e)]
             Bad == {n \in Nat : ~\E g : Good(g, n)}
  <1>1. Bad = {}
    <2>1. SUFFICES ASSUME Bad # {} PROVE FALSE
      OBVIOUS
    <2>2. PICK n \in Bad : \A m \in Bad : n <= m
      <3> HIDE DEF Good
      <3>1. Bad \in SUBSET Nat
        OBVIOUS
      <3> HIDE DEF Bad
      <3>2. QED
        BY <2>1, <3>1, NatMin
    <2>3. n \in Nat /\ ~\E g : Good(g, n)
      OBVIOUS
    <2>4. CASE n = 0
      <3> DEFINE g == [e \in 0 .. 0 |-> {EmptyKey}]
      <3>1. Good(g, 0)
        OBVIOUS
      <3> HIDE DEF g, Good
      <3>2. QED
        BY <2>3, <2>4, <3>1
    <2>5. CASE n # 0
      <3>1. n - 1 \in Nat /\ ~(n <= n - 1)
        BY <2>3, <2>5
      <3>2. PICK h : Good(h, n - 1)
        BY <2>2, <3>1
      <3> DEFINE g == [e \in 0 .. n |-> IF e = n THEN NextKeys(h[n - 1], n) ELSE h[e]]
      <3>3. ASSUME NEW e \in 0 .. n PROVE g[e] = IF e = 0 THEN {EmptyKey} ELSE NextKeys(g[e - 1], e)
        <4>1. CASE e = n
          BY <2>3, <2>5, <4>1
        <4>2. CASE e # n
          <5>1. e \in 0 .. n - 1
            BY <2>3, <4>2
          <5>2. g[e] = h[e] /\ h[e] = IF e = 0 THEN {EmptyKey} ELSE NextKeys(h[e - 1], e)
            BY <3>2, <4>2, <5>1
          <5>3. e # 0 => e - 1 \in 0 .. n /\ e - 1 # n
            BY <5>1, <2>3
          <5>4. e # 0 => g[e - 1] = h[e - 1]
            BY <5>3
          <5>5. QED
            BY <5>2, <5>4
        <4>3. QED
          BY <4>1, <4>2
      <3>4. g = [e \in 0 .. n |-> g[e]]
        OBVIOUS
      <3>5. Good(g, n)
        BY <3>3, <3>4
      <3> HIDE DEF g, Good
      <3>6. QED
        BY <2>3, <3>5
    <2>6. QED
      BY <2>4, <2>5
  <1>2. \E g : Good(g, LastEdge)
    BY <1>1, LastType
  <1>3. Good(Reachable, LastEdge)
    BY <1>2 DEF Reachable, LastEdge, NextKeys, Decisions
  <1>4. 0 \in 0 .. LastEdge /\ \A e \in 1 .. LastEdge : e \in 0 .. LastEdge /\ e # 0
    BY LastType
  <1>5. \A e \in 0 .. LastEdge : Reachable[e] = IF e = 0 THEN {EmptyKey} ELSE NextKeys(Reachable[e - 1], e)
    BY <1>3
  <1>6. DOMAIN Reachable = 0 .. LastEdge
    BY <1>3
  <1>7. QED
    BY <1>4, <1>5, <1>6

\* The recursive function Counts exists and satisfies its definition.
LEMMA CountsDef ==
  /\ DOMAIN Counts = 0 .. LastEdge
  /\ Counts[0] = [key \in {EmptyKey} |-> 1]
  /\ \A e \in 1 .. LastEdge : Counts[e] = NextCounts(Counts[e - 1], e)
  <1> DEFINE Good(g, n) == g = [e \in 0 .. n |-> IF e = 0 THEN [key \in {EmptyKey} |-> 1] ELSE NextCounts(g[e - 1], e)]
             Bad == {n \in Nat : ~\E g : Good(g, n)}
  <1>1. Bad = {}
    <2>1. SUFFICES ASSUME Bad # {} PROVE FALSE
      OBVIOUS
    <2>2. PICK n \in Bad : \A m \in Bad : n <= m
      <3> HIDE DEF Good
      <3>1. Bad \in SUBSET Nat
        OBVIOUS
      <3> HIDE DEF Bad
      <3>2. QED
        BY <2>1, <3>1, NatMin
    <2>3. n \in Nat /\ ~\E g : Good(g, n)
      OBVIOUS
    <2>4. CASE n = 0
      <3> DEFINE g == [e \in 0 .. 0 |-> [key \in {EmptyKey} |-> 1]]
      <3>1. Good(g, 0)
        OBVIOUS
      <3> HIDE DEF g, Good
      <3>2. QED
        BY <2>3, <2>4, <3>1
    <2>5. CASE n # 0
      <3>1. n - 1 \in Nat /\ ~(n <= n - 1)
        BY <2>3, <2>5
      <3>2. PICK h : Good(h, n - 1)
        BY <2>2, <3>1
      <3> DEFINE g == [e \in 0 .. n |-> IF e = n THEN NextCounts(h[n - 1], n) ELSE h[e]]
      <3>3. ASSUME NEW e \in 0 .. n PROVE g[e] = IF e = 0 THEN [key \in {EmptyKey} |-> 1] ELSE NextCounts(g[e - 1], e)
        <4>1. CASE e = n
          BY <2>3, <2>5, <4>1
        <4>2. CASE e # n
          <5>1. e \in 0 .. n - 1
            BY <2>3, <4>2
          <5>2. g[e] = h[e] /\ h[e] = IF e = 0 THEN [key \in {EmptyKey} |-> 1] ELSE NextCounts(h[e - 1], e)
            BY <3>2, <4>2, <5>1
          <5>3. e # 0 => e - 1 \in 0 .. n /\ e - 1 # n
            BY <5>1, <2>3
          <5>4. e # 0 => g[e - 1] = h[e - 1]
            BY <5>3
          <5>5. QED
            BY <5>2, <5>4
        <4>3. QED
          BY <4>1, <4>2
      <3>4. g = [e \in 0 .. n |-> g[e]]
        OBVIOUS
      <3>5. Good(g, n)
        BY <3>3, <3>4
      <3> HIDE DEF g, Good
      <3>6. QED
        BY <2>3, <3>5
    <2>6. QED
      BY <2>4, <2>5
  <1>2. \E g : Good(g, LastEdge)
    BY <1>1, LastType
  <1>3. Good(Counts, LastEdge)
    BY <1>2 DEF Counts, LastEdge
  <1>4. 0 \in 0 .. LastEdge /\ \A e \in 1 .. LastEdge : e \in 0 .. LastEdge /\ e # 0
    BY LastType
  <1>5. \A e \in 0 .. LastEdge : Counts[e] = IF e = 0 THEN [key \in {EmptyKey} |-> 1] ELSE NextCounts(Counts[e - 1], e)
    BY <1>3
  <1>6. DOMAIN Counts = 0 .. LastEdge
    BY <1>3
  <1>7. QED
    BY <1>4, <1>5, <1>6

-----------------------------------------------------------------------------
Comps(D) == [members : SUBSET D, ends : SUBSET {Start, Target}]
KeyOver(D) == [done : BOOLEAN, deg : [D -> 0 .. 2], comps : SUBSET Comps(D)]

AtMostOne(S) == \A x, y \in S : x = y

\* The frontier starts empty, and an edge adds to it nothing but its two ends.
LEMMA ActiveType ==
  /\ Active[0] = {}
  /\ \A e \in 0 .. LastEdge : Active[e] \subseteq V
  /\ \A e \in 1 .. LastEdge : Active[e] \subseteq Active[e - 1] \cup {Edges[e][1], Edges[e][2]}
  <1>1. \A x : Touching(x) \subseteq 1 .. LastEdge
    BY LastType DEF Touching
  <1>2. \A e \in 0 .. LastEdge : Active[e] = {x \in V : (\E i \in Touching(x) : i <= e)
                                                 /\ (\E i \in Touching(x) : i > e)}
    BY DEF Active, LastEdge
  <1>3. 0 \in 0 .. LastEdge
    BY LastType
  <1>4. Active[0] = {}
    BY <1>1, <1>2, <1>3
  <1>5. ASSUME NEW e \in 1 .. LastEdge, NEW x \in Active[e], x \notin {Edges[e][1], Edges[e][2]}
        PROVE  x \in Active[e - 1]
    <2>1. e \in 0 .. LastEdge /\ e - 1 \in 0 .. LastEdge
      BY LastType
    <2>2. x \in V
      BY <1>2, <2>1
    <2>3. PICK i \in Touching(x) : i <= e
      BY <1>2, <2>1
    <2>4. PICK j \in Touching(x) : j > e
      BY <1>2, <2>1
    <2>5. i # e
      BY <1>5, <2>3 DEF Touching
    <2>6. i \in 1 .. LastEdge /\ j \in 1 .. LastEdge
      BY <1>1
    <2>7. i <= e - 1 /\ j > e - 1
      BY <2>3, <2>4, <2>5, <2>6
    <2>8. QED
      BY <1>2, <2>1, <2>2, <2>7
  <1>6. QED
    BY <1>2, <1>4, <1>5

\* An edge that is left out: a key over the frontier and the ends of the edge.
LEMMA SkipType ==
  ASSUME NEW D, NEW key \in KeyOver(D), NEW u, NEW v
  PROVE  SkipEdge(key, u, v) \in KeyOver(D \cup {u, v})
  <1> DEFINE deg == [x \in D \cup {u, v} |-> IF x \in D THEN key.deg[x] ELSE 0]
  <1>1. key.deg \in [D -> 0 .. 2] /\ key.comps \in SUBSET Comps(D) /\ key.done \in BOOLEAN
    BY DEF KeyOver
  <1>2. deg \in [D \cup {u, v} -> 0 .. 2]
    BY <1>1
  <1>3. SkipEdge(key, u, v) = [key EXCEPT !.deg = deg]
    BY <1>1 DEF SkipEdge
  <1>4. SkipEdge(key, u, v) = [done |-> key.done, deg |-> deg, comps |-> key.comps]
    <2> HIDE DEF deg
    <2>1. QED
      BY <1>3 DEF KeyOver
  <1>5. key.comps \in SUBSET Comps(D \cup {u, v})
    BY <1>1 DEF Comps
  <1> HIDE DEF deg
  <1>6. QED
    BY <1>1, <1>2, <1>4, <1>5 DEF KeyOver

\* An edge that is taken: no key, or one over the frontier and the ends of the edge. No degree
\* exceeds 2.
LEMMA TakeType ==
  ASSUME NEW D, NEW key \in KeyOver(D), NEW u, NEW v, u # v
  PROVE  TakeEdge(key, u, v) \subseteq KeyOver(D \cup {u, v}) /\ AtMostOne(TakeEdge(key, u, v))
  <1> DEFINE E == D \cup {u, v}
             deg == [x \in E |-> IF x \in D THEN key.deg[x] ELSE 0]
             joined == {c \in key.comps : c.members \cap {u, v} # {}}
             merged == [members |-> {u, v} \cup UNION {c.members : c \in joined},
                        ends |-> ({u, v} \cap {Start, Target}) \cup UNION {c.ends : c \in joined}]
             deg2 == [deg EXCEPT ![u] = @ + 1, ![v] = @ + 1]
             new == [done |-> FALSE, deg |-> deg2, comps |-> (key.comps \ joined) \cup {merged}]
             bad == key.done \/ deg[u] >= MaxDegree(u) \/ deg[v] >= MaxDegree(v)
                    \/ \E c \in joined : {u, v} \subseteq c.members
  <1>1. key.deg \in [D -> 0 .. 2] /\ key.comps \in SUBSET Comps(D) /\ key.done \in BOOLEAN
    BY DEF KeyOver
  <1>2. DOMAIN key.deg = D
    BY <1>1
  <1>3. TakeEdge(key, u, v) = IF bad THEN {} ELSE {new}
    BY <1>2 DEF TakeEdge
  <1>4. deg \in [E -> 0 .. 2]
    BY <1>1
  <1>5. ~bad => deg2 \in [E -> 0 .. 2]
    <2>1. u \in E /\ v \in E
      OBVIOUS
    <2> HIDE DEF deg, E
    <2>2. SUFFICES ASSUME ~bad PROVE deg2 \in [E -> 0 .. 2]
      OBVIOUS
    <2>3. deg[u] \in 0 .. 2 /\ deg[v] \in 0 .. 2 /\ deg[u] < 2 /\ deg[v] < 2
      BY <1>4, <2>1, <2>2 DEF MaxDegree
    <2>4. QED
      BY <1>4, <2>1, <2>3
  <1>6. merged \in Comps(E)
    <2>1. \A c \in joined : c.members \subseteq D /\ c.ends \subseteq {Start, Target}
      BY <1>1 DEF Comps
    <2>2. {u, v} \cup UNION {c.members : c \in joined} \in SUBSET E
      BY <2>1
    <2>3. ({u, v} \cap {Start, Target}) \cup UNION {c.ends : c \in joined} \in SUBSET {Start, Target}
      BY <2>1
    <2> HIDE DEF E, joined
    <2>4. QED
      BY <2>2, <2>3 DEF Comps
  <1>7. key.comps \in SUBSET Comps(E)
    BY <1>1 DEF Comps
  <1>8. (key.comps \ joined) \cup {merged} \in SUBSET Comps(E)
    <2> HIDE DEF joined, merged, E
    <2>1. QED
      BY <1>6, <1>7
  <1> DEFINE cc == (key.comps \ joined) \cup {merged}
  <1> HIDE DEF deg2, merged, joined, bad, deg
  <1>9. ~bad => new \in KeyOver(E)
    <2>1. SUFFICES ASSUME ~bad PROVE new \in KeyOver(E)
      OBVIOUS
    <2>2. deg2 \in [E -> 0 .. 2] /\ cc \in SUBSET Comps(E) /\ new = [done |-> FALSE, deg |-> deg2, comps |-> cc]
      BY <1>5, <1>8, <2>1
    <2> HIDE DEF E, cc, new
    <2>3. QED
      BY <2>2 DEF KeyOver
  <1> HIDE DEF new, E
  <1>10. QED
    BY <1>3, <1>9 DEF AtMostOne, E

\* Vertices that leave the frontier: no key, or one over what remains.
LEMMA ForgetType ==
  ASSUME NEW D, NEW key \in KeyOver(D), NEW after \in SUBSET D
  PROVE  Forget(key, after) \subseteq KeyOver(after) /\ AtMostOne(Forget(key, after))
  <1> DEFINE gone == DOMAIN key.deg \ after
             dead == {c \in key.comps : c.members \subseteq gone}
             bad == \/ \E x \in gone : IF x \in {Start, Target} THEN key.deg[x] # 1 ELSE key.deg[x] = 1
                    \/ \E c \in dead : c.ends # {Start, Target}
             deg == [x \in after |-> key.deg[x]]
             done == key.done \/ dead # {}
             comps == {[c EXCEPT !.members = @ \cap after] : c \in key.comps \ dead}
             new == [done |-> done, deg |-> deg, comps |-> comps]
  <1>1. key.deg \in [D -> 0 .. 2] /\ key.comps \in SUBSET Comps(D) /\ key.done \in BOOLEAN
    BY DEF KeyOver
  <1>2. Forget(key, after) = IF bad THEN {} ELSE {new}
    BY DEF Forget
  <1>3. deg \in [after -> 0 .. 2]
    BY <1>1
  <1>4. comps \in SUBSET Comps(after)
    <2>1. ASSUME NEW c \in Comps(D) PROVE [c EXCEPT !.members = @ \cap after] \in Comps(after)
      BY DEF Comps
    <2> HIDE DEF dead
    <2>2. QED
      BY <1>1, <2>1
  <1>5. done \in BOOLEAN
    OBVIOUS
  <1> HIDE DEF bad, deg, done, comps
  <1>6. new \in KeyOver(after)
    BY <1>3, <1>4, <1>5 DEF KeyOver
  <1> HIDE DEF new
  <1>7. QED
    BY <1>2, <1>6 DEF AtMostOne

\* transition_one leads to at most one key, which is over the next frontier.
LEMMA TransitionType ==
  ASSUME NEW e \in 1 .. LastEdge, NEW key \in KeyOver(Active[e - 1]), NEW t \in {0, 1}
  PROVE  transition_one(key, e, t) \subseteq KeyOver(Active[e]) /\ AtMostOne(transition_one(key, e, t))
  <1> DEFINE u == Edges[e][1]
             v == Edges[e][2]
             mid == IF t = 1 THEN TakeEdge(key, u, v) ELSE {SkipEdge(key, u, v)}
             D == Active[e - 1] \cup {u, v}
  <1>1. u # v
    BY EdgesType, LastType
  <1>2. Active[e] \in SUBSET D
    BY ActiveType
  <1>3. transition_one(key, e, t) = UNION {Forget(k, Active[e]) : k \in mid}
    BY DEF transition_one
  <1> HIDE DEF u, v
  <1>4. mid \subseteq KeyOver(D) /\ AtMostOne(mid)
    BY <1>1, TakeType, SkipType DEF AtMostOne
  <1> HIDE DEF mid, D
  <1>5. \A k \in mid : Forget(k, Active[e]) \subseteq KeyOver(Active[e]) /\ AtMostOne(Forget(k, Active[e]))
    BY <1>2, <1>4, ForgetType
  <1>6. QED
    BY <1>3, <1>4, <1>5 DEF AtMostOne

\* A set of at most one element is finite.
LEMMA AtMostOneFinite ==
  ASSUME NEW S, AtMostOne(S)
  PROVE  IsFiniteSet(S)
  <1>1. CASE S = {}
    BY <1>1, FS_EmptySet
  <1>2. CASE S # {}
    <2>1. PICK x \in S : TRUE
      BY <1>2
    <2>2. S = {x}
      BY <2>1 DEF AtMostOne
    <2>3. QED
      BY <2>2, FS_Singleton
  <1>3. QED
    BY <1>1, <1>2

\* The image of a finite set is finite.
LEMMA ImageFinite ==
  ASSUME NEW S, IsFiniteSet(S), NEW f
  PROVE  IsFiniteSet({f[x] : x \in S})
  <1> DEFINE T == {f[x] : x \in S}
             g == [x \in S |-> f[x]]
  <1>1. g \in Surjection(S, T)
    BY DEF Surjection
  <1> HIDE DEF T, g
  <1>2. IsFiniteSet(T)
    BY <1>1, FS_Surjection
  <1>3. QED
    BY <1>2 DEF T

\* After e edges there are finitely many keys, all over the frontier after e edges.
LEMMA ReachableType ==
  \A e \in 0 .. LastEdge : Reachable[e] \subseteq KeyOver(Active[e]) /\ IsFiniteSet(Reachable[e])
  <1> DEFINE Good(e) == Reachable[e] \subseteq KeyOver(Active[e]) /\ IsFiniteSet(Reachable[e])
             Bad == {e \in 0 .. LastEdge : ~Good(e)}
  <1>1. SUFFICES ASSUME Bad # {} PROVE FALSE
    OBVIOUS
  <1>2. PICK e \in Bad : \A d \in Bad : e <= d
    <2> HIDE DEF Good
    <2>1. Bad \in SUBSET Nat
      BY LastType
    <2> HIDE DEF Bad
    <2>2. QED
      BY <1>1, <2>1, NatMin
  <1>3. e \in 0 .. LastEdge /\ ~Good(e)
    OBVIOUS
  <1>4. e # 0
    <2>1. EmptyKey \in KeyOver({})
      BY DEF EmptyKey, KeyOver, Comps
    <2>2. IsFiniteSet({EmptyKey})
      BY FS_Singleton
    <2>3. Good(0)
      BY <2>1, <2>2, ReachableDef, ActiveType
    <2>4. QED
      BY <1>3, <2>3
  <1>5. e \in 1 .. LastEdge /\ e - 1 \in 0 .. LastEdge /\ ~(e <= e - 1)
    BY <1>3, <1>4, LastType
  <1>6. Good(e - 1)
    BY <1>2, <1>5
  <1> DEFINE R == Reachable[e - 1]
             D == R \X {0, 1}
             next == [x \in D |-> transition_one(x[1], e, x[2])]
  <1>7. Reachable[e] = UNION {next[x] : x \in D}
    <2>1. Reachable[e] = UNION {transition_one(x[1], e, x[2]) : x \in D}
      BY <1>5, ReachableDef DEF NextKeys, Decisions
    <2>2. QED
      BY <2>1
  <1>8. \A x \in D : next[x] \subseteq KeyOver(Active[e]) /\ IsFiniteSet(next[x])
    <2>1. ASSUME NEW x \in D PROVE next[x] \subseteq KeyOver(Active[e]) /\ IsFiniteSet(next[x])
      <3>1. x[1] \in KeyOver(Active[e - 1]) /\ x[2] \in {0, 1}
        BY <1>6
      <3>2. next[x] = transition_one(x[1], e, x[2])
        OBVIOUS
      <3>3. next[x] \subseteq KeyOver(Active[e]) /\ AtMostOne(next[x])
        BY <1>5, <3>1, <3>2, TransitionType
      <3>4. QED
        BY <3>3, AtMostOneFinite
    <2>2. QED
      BY <2>1
  <1>9. IsFiniteSet(D)
    <2>1. IsFiniteSet({0, 1})
      <3>1. IsFiniteSet({0}) /\ {0} \cup {1} = {0, 1}
        BY FS_Singleton
      <3>2. QED
        BY <3>1, FS_AddElement
    <2>2. IsFiniteSet(R)
      BY <1>6
    <2> HIDE DEF R
    <2>3. QED
      BY <2>1, <2>2, FS_Product
  <1> HIDE DEF next, D
  <1>10. IsFiniteSet({next[x] : x \in D})
    BY <1>9, ImageFinite
  <1>11. IsFiniteSet(UNION {next[x] : x \in D})
    <2> DEFINE T == {next[x] : x \in D}
    <2>1. IsFiniteSet(T) /\ \A s \in T : IsFiniteSet(s)
      BY <1>8, <1>10
    <2> HIDE DEF T
    <2>2. IsFiniteSet(UNION T)
      BY <2>1, FS_UNION
    <2>3. QED
      BY <2>2 DEF T
  <1>12. Good(e)
    BY <1>7, <1>8, <1>11
  <1>13. QED
    BY <1>3, <1>12

-----------------------------------------------------------------------------
\* The sequential program's table has a natural number for each key.
LEMMA CountsType ==
  \A e \in 0 .. LastEdge : Counts[e] \in [Reachable[e] -> Nat]
  <1> DEFINE Good(e) == Counts[e] \in [Reachable[e] -> Nat]
             Bad == {e \in 0 .. LastEdge : ~Good(e)}
  <1>1. SUFFICES ASSUME Bad # {} PROVE FALSE
    OBVIOUS
  <1>2. PICK e \in Bad : \A d \in Bad : e <= d
    <2> HIDE DEF Good
    <2>1. Bad \in SUBSET Nat
      BY LastType
    <2> HIDE DEF Bad
    <2>2. QED
      BY <1>1, <2>1, NatMin
  <1>3. e \in 0 .. LastEdge /\ ~Good(e)
    OBVIOUS
  <1>4. e # 0
    <2>1. Good(0)
      BY ReachableDef, CountsDef
    <2>2. QED
      BY <1>3, <2>1
  <1>5. e \in 1 .. LastEdge /\ e - 1 \in 0 .. LastEdge /\ ~(e <= e - 1)
    BY <1>3, <1>4, LastType
  <1>6. Good(e - 1)
    BY <1>2, <1>5
  <1> DEFINE R == Reachable[e - 1]
             c == Counts[e - 1]
             Leads(key) == {y \in Decisions(R) : key \in transition_one(y[1], e, y[2])}
             f(key) == [x \in Leads(key) |-> c[x[1]]]
  <1>7. IsFiniteSet(Decisions(R))
    <2>1. IsFiniteSet({0, 1})
      <3>1. IsFiniteSet({0}) /\ {0} \cup {1} = {0, 1}
        BY FS_Singleton
      <3>2. QED
        BY <3>1, FS_AddElement
    <2>2. IsFiniteSet(R)
      BY <1>5, ReachableType
    <2> HIDE DEF R
    <2>3. QED
      BY <2>1, <2>2, FS_Product DEF Decisions
  <1>8. ASSUME NEW key PROVE SumFunction(f(key)) \in Nat
    <2> DEFINE S == Leads(key)
               g == f(key)
    <2>1. IsFiniteSet(S)
      BY <1>7, FS_Subset
    <2>2. \A x \in S : g[x] \in Nat
      BY <1>6 DEF Decisions
    <2>3. DOMAIN g = S
      OBVIOUS
    <2> HIDE DEF S, g
    <2>4. SumFunctionOnSet(g, DOMAIN g) \in Nat
      BY <2>1, <2>2, <2>3, SumType
    <2>5. QED
      BY <2>4 DEF SumFunction, g
  <1>9. Counts[e] = [key \in Reachable[e] |-> SumFunction(f(key))]
    BY <1>5, CountsDef DEF NextCounts, Decisions
  <1> HIDE DEF f
  <1>10. Good(e)
    BY <1>8, <1>9
  <1>11. QED
    BY <1>3, <1>10

-----------------------------------------------------------------------------
(***************************************************************************)
(* What a key says of the edges chosen so far: View(S, K, A) is the key of *)
(* the edges S, whose components are K, for the frontier A. Taking an      *)
(* edge, leaving it out and forgetting the vertices behind the frontier    *)
(* keep it so (TakeView, SkipView, ForgetView).                            *)
(***************************************************************************)
Terminals == {Start, Target}

\* How many edges of S end at x.
Deg(S, x) == Cardinality(S \cap Touching(x))

\* No edge of S leaves D.
Sealed(S, D) == \A i \in S : Edges[i][1] \in D <=> Edges[i][2] \in D

\* K holds the components of the graph with the edges S, the isolated vertices left out.
Components(S, K) ==
    /\ \A C \in K : C \subseteq V /\ C # {}
    /\ \A C, D \in K : C \cap D # {} => C = D
    /\ \A i \in S : \E C \in K : Ends(i) \subseteq C
    /\ \A C \in K : \A x \in C : \E i \in S : x \in Ends(i)
    /\ \A C \in K : \A D \in SUBSET C : D # {} /\ Sealed(S, D) => D = C

\* The components with edge e added.
Joined(K, e) == {C \in K : C \cap Ends(e) # {}}
Merge(K, e) == (K \ Joined(K, e)) \cup {Ends(e) \cup UNION Joined(K, e)}

\* The key that stands for the edges S with the frontier A.
Outline(C, A) == [members |-> C \cap A, ends |-> C \cap Terminals]
View(S, K, A) == [done |-> \E C \in K : C \cap A = {},
                  deg |-> [x \in A |-> Deg(S, x)],
                  comps |-> {Outline(C, A) : C \in {D \in K : D \cap A # {}}}]

\* Without edges there are none.
LEMMA NoComponents == Components({}, {})
  BY DEF Components

\* No edge leaves a component.
LEMMA ComponentClosed ==
  ASSUME NEW S, NEW K, Components(S, K), NEW C \in K
  PROVE  Sealed(S, C)
  <1>1. ASSUME NEW i \in S PROVE Edges[i][1] \in C <=> Edges[i][2] \in C
    <2>1. PICK D \in K : Ends(i) \subseteq D
      BY DEF Components
    <2>2. \A x \in Ends(i) : x \in C => C = D
      BY <2>1 DEF Components
    <2>3. QED
      BY <2>1, <2>2 DEF Ends
  <1>2. QED
    BY <1>1 DEF Sealed

\* An edge joins the components of its ends.
LEMMA ComponentsJoin ==
  ASSUME NEW S, NEW K, Components(S, K), NEW e \in DOMAIN Edges
  PROVE  Components(S \cup {e}, Merge(K, e))
  <1> DEFINE J == Joined(K, e)
             M == Ends(e) \cup UNION J
             L == K \ J
             T == S \cup {e}
  <1>1. Ends(e) \subseteq V /\ Ends(e) = {Edges[e][1], Edges[e][2]}
    BY EndsOnce DEF Ends
  <1>2. Merge(K, e) = L \cup {M} /\ J = {C \in K : C \cap Ends(e) # {}}
    BY DEF Merge, Joined
  <1> HIDE DEF J
  <1>3. \A C \in L \cup {M} : C \subseteq V /\ C # {}
    BY <1>1, <1>2 DEF Components
  <1>4. \A C \in L : C \cap M = {}
    <2>1. SUFFICES ASSUME NEW C \in L, NEW x \in C, x \in M PROVE FALSE
      OBVIOUS
    <2>2. x \notin Ends(e)
      BY <1>2
    <2>3. PICK D \in J : x \in D
      BY <2>1, <2>2
    <2>4. C = D
      BY <1>2, <2>3 DEF Components
    <2>5. QED
      BY <2>3, <2>4
  <1>5. \A C, D \in L \cup {M} : C \cap D # {} => C = D
    <2>1. \A C, D \in L : C \cap D # {} => C = D
      BY DEF Components
    <2> HIDE DEF L, M
    <2>2. QED
      BY <1>4, <2>1
  <1>6. \A i \in T : \E C \in L \cup {M} : Ends(i) \subseteq C
    <2>1. SUFFICES ASSUME NEW i \in S PROVE \E C \in L \cup {M} : Ends(i) \subseteq C
      OBVIOUS
    <2>2. PICK C \in K : Ends(i) \subseteq C
      BY DEF Components
    <2>3. QED
      BY <2>2
  <1>7. \A C \in L \cup {M} : \A x \in C : \E i \in T : x \in Ends(i)
    <2>1. \A C \in K : \A x \in C : \E i \in S : x \in Ends(i)
      BY DEF Components
    <2>2. QED
      BY <1>2, <2>1
  <1>8. ASSUME NEW C \in L, NEW D \in SUBSET C, D # {}, Sealed(T, D) PROVE D = C
    <2>1. Sealed(S, D)
      BY <1>8 DEF Sealed
    <2>2. QED
      BY <1>8, <2>1 DEF Components
  <1>9. ASSUME NEW D \in SUBSET M, D # {}, Sealed(T, D) PROVE D = M
    <2>1. Sealed(S, D) /\ (Edges[e][1] \in D <=> Edges[e][2] \in D)
      BY <1>9 DEF Sealed
    <2>2. ASSUME NEW C \in J, C \cap D # {} PROVE C \subseteq D
      <3>1. C \in K
        BY <1>2
      <3>2. Sealed(S, C)
        BY <3>1, ComponentClosed
      <3>3. Sealed(S, C \cap D)
        BY <2>1, <3>2 DEF Sealed
      <3>4. C \cap D = C
        BY <2>2, <3>1, <3>3 DEF Components
      <3>5. QED
        BY <3>4
    <2>3. Ends(e) \cap D # {}
      <3>1. PICK x \in D : x \in M
        BY <1>9
      <3>2. CASE x \in Ends(e)
        BY <3>2
      <3>3. CASE x \notin Ends(e)
        <4>1. PICK C \in J : x \in C
          BY <3>1, <3>3
        <4>2. C \subseteq D /\ C \cap Ends(e) # {}
          BY <1>2, <2>2, <4>1
        <4>3. QED
          BY <4>2
      <3>4. QED
        BY <3>2, <3>3
    <2>4. Ends(e) \subseteq D
      BY <1>1, <2>1, <2>3
    <2>5. \A C \in J : C \subseteq D
      BY <1>2, <2>2, <2>4
    <2>6. QED
      BY <2>4, <2>5
  <1> HIDE DEF L, M, T
  <1>10. QED
    BY <1>2, <1>3, <1>5, <1>6, <1>7, <1>8, <1>9 DEF Components, T

\* Degrees count one more at the ends of an added edge.
LEMMA DegStep ==
  ASSUME NEW S \in SUBSET DOMAIN Edges, NEW e \in DOMAIN Edges, e \notin S, NEW x
  PROVE  /\ Deg(S, x) \in Nat
         /\ Deg(S \cup {e}, x) = IF x \in Ends(e) THEN Deg(S, x) + 1 ELSE Deg(S, x)
  <1> DEFINE D == S \cap Touching(x)
  <1>1. IsFiniteSet(DOMAIN Edges)
    BY LastType, FS_Interval
  <1>2. IsFiniteSet(D)
    BY <1>1, FS_Subset
  <1>3. Cardinality(D) \in Nat
    BY <1>2, FS_CardinalityType
  <1>4. e \notin D /\ (e \in Touching(x) <=> x \in Ends(e))
    BY DEF Touching, Ends
  <1>5. CASE x \in Ends(e)
    <2>1. (S \cup {e}) \cap Touching(x) = D \cup {e}
      BY <1>4, <1>5
    <2> HIDE DEF D
    <2>2. Cardinality(D \cup {e}) = Cardinality(D) + 1
      BY <1>2, <1>4, FS_AddElement
    <2>3. QED
      BY <1>3, <1>5, <2>1, <2>2 DEF Deg, D
  <1>6. CASE x \notin Ends(e)
    <2>1. (S \cup {e}) \cap Touching(x) = D
      BY <1>4, <1>6
    <2>2. QED
      BY <1>3, <1>6, <2>1 DEF Deg
  <1>7. QED
    BY <1>5, <1>6

-----------------------------------------------------------------------------
\* Every end of e that an edge of S touches is on the frontier A.
Shown(S, A, e) == \A x \in Ends(e) : (\E i \in S : x \in Ends(i)) => x \in A

\* Leaving an edge out changes what a key sees by the ends of the edge.
LEMMA SkipView ==
  ASSUME NEW S \in SUBSET DOMAIN Edges, NEW K, Components(S, K), NEW A \in SUBSET V,
         NEW e \in DOMAIN Edges, e \notin S, Shown(S, A, e)
  PROVE  SkipEdge(View(S, K, A), Edges[e][1], Edges[e][2]) = View(S, K, A \cup Ends(e))
  <1> DEFINE u == Edges[e][1]
             v == Edges[e][2]
             B == A \cup Ends(e)
             key == View(S, K, A)
  <1>1. Ends(e) = {u, v}
    BY DEF Ends
  <1>2. \A C \in K : C \cap B = C \cap A
    BY DEF Components, Shown
  <1>3. \A x \in B \ A : Deg(S, x) = 0
    <2>1. SUFFICES ASSUME NEW x \in B \ A PROVE Deg(S, x) = 0
      OBVIOUS
    <2>2. S \cap Touching(x) = {}
      BY DEF Shown, Touching, Ends
    <2>3. QED
      BY <2>2, FS_EmptySet DEF Deg
  <1>4. DOMAIN key.deg = A /\ \A x \in A : key.deg[x] = Deg(S, x)
    BY DEF View
  <1>5. [x \in DOMAIN key.deg \cup {u, v} |-> IF x \in DOMAIN key.deg THEN key.deg[x] ELSE 0]
          = [x \in B |-> Deg(S, x)]
    <2>1. \A x \in B : (IF x \in A THEN key.deg[x] ELSE 0) = Deg(S, x)
      BY <1>3, <1>4
    <2> HIDE DEF key
    <2>2. QED
      BY <1>1, <1>4, <2>1
  <1>6. key.comps = {Outline(C, B) : C \in {D \in K : D \cap B # {}}}
    <2>1. \A C \in K : Outline(C, B) = Outline(C, A)
      BY <1>2 DEF Outline
    <2>2. {D \in K : D \cap B # {}} = {D \in K : D \cap A # {}}
      BY <1>2
    <2> HIDE DEF B
    <2>3. QED
      BY <2>1, <2>2 DEF View
  <1>7. key.done = \E C \in K : C \cap B = {}
    BY <1>2 DEF View
  <1>8. SkipEdge(key, u, v) = [done |-> key.done, deg |-> [x \in B |-> Deg(S, x)], comps |-> key.comps]
    <2> DEFINE d == [x \in DOMAIN key.deg \cup {u, v} |-> IF x \in DOMAIN key.deg THEN key.deg[x] ELSE 0]
    <2>1. SkipEdge(key, u, v) = [key EXCEPT !.deg = d]
      BY DEF SkipEdge
    <2>2. key = [done |-> key.done, deg |-> key.deg, comps |-> key.comps]
      BY DEF View
    <2>3. d = [x \in B |-> Deg(S, x)]
      BY <1>5
    <2> HIDE DEF d, key
    <2>4. QED
      BY <2>1, <2>2, <2>3
  <1>9. QED
    BY <1>6, <1>7, <1>8 DEF View

\* Edge e cannot be taken: the path is whole, a degree is used up, or a cycle would close.
TakeRefused(S, K, A, e) ==
    \/ \E C \in K : C \cap A = {}
    \/ \E x \in Ends(e) : Deg(S, x) >= MaxDegree(x)
    \/ \E C \in K : Ends(e) \subseteq C

\* Taking an edge: refused after a whole path, above a degree, or when it would close a cycle.
LEMMA TakeView ==
  ASSUME NEW S \in SUBSET DOMAIN Edges, NEW K, Components(S, K), NEW A \in SUBSET V,
         NEW e \in DOMAIN Edges, e \notin S, Shown(S, A, e)
  PROVE  /\ TakeRefused(S, K, A, e) => TakeEdge(View(S, K, A), Edges[e][1], Edges[e][2]) = {}
         /\ ~TakeRefused(S, K, A, e) => TakeEdge(View(S, K, A), Edges[e][1], Edges[e][2])
                                          = {View(S \cup {e}, Merge(K, e), A \cup Ends(e))}
  <1> DEFINE u == Edges[e][1]
             v == Edges[e][2]
             B == A \cup Ends(e)
             key == View(S, K, A)
             deg == [x \in DOMAIN key.deg \cup {u, v} |-> IF x \in DOMAIN key.deg THEN key.deg[x] ELSE 0]
             joined == {c \in key.comps : c.members \cap {u, v} # {}}
             merged == [members |-> {u, v} \cup UNION {c.members : c \in joined},
                        ends |-> ({u, v} \cap {Start, Target}) \cup UNION {c.ends : c \in joined}]
             bad == key.done \/ deg[u] >= MaxDegree(u) \/ deg[v] >= MaxDegree(v)
                      \/ \E c \in joined : {u, v} \subseteq c.members
             deg2 == [deg EXCEPT ![u] = @ + 1, ![v] = @ + 1]
             new == [done |-> FALSE, deg |-> deg2, comps |-> (key.comps \ joined) \cup {merged}]
             J == Joined(K, e)
             M == Ends(e) \cup UNION J
  <1>1. Ends(e) = {u, v} /\ u # v
    BY EndsOnce DEF Ends
  <1>2. TakeEdge(key, u, v) = IF bad THEN {} ELSE {new}
    BY DEF TakeEdge
  <1>3. \A C \in K : C \cap Ends(e) \subseteq A
    BY DEF Components, Shown
  <1>4. deg = [x \in B |-> Deg(S, x)]
    <2>1. SkipEdge(key, u, v) = View(S, K, B)
      BY SkipView
    <2>2. SkipEdge(key, u, v).deg = deg
      BY DEF SkipEdge, View
    <2>3. View(S, K, B).deg = [x \in B |-> Deg(S, x)]
      BY DEF View
    <2> HIDE DEF deg, key, B
    <2>4. QED
      BY <2>1, <2>2, <2>3
  <1>5. key.done = (\E C \in K : C \cap A = {})
    BY DEF View
  <1>6. key.comps = {Outline(C, A) : C \in {D \in K : D \cap A # {}}}
    BY DEF View
  <1> HIDE DEF key
  <1>7. \A C \in J : C \in K /\ C \cap A # {} /\ C \cap Ends(e) # {}
    BY <1>3 DEF Joined
  <1>8. joined = {Outline(C, A) : C \in J}
    <2>1. \A C \in K : Outline(C, A).members \cap {u, v} = C \cap Ends(e)
      BY <1>1, <1>3 DEF Outline
    <2>2. ASSUME NEW c \in joined PROVE c \in {Outline(C, A) : C \in J}
      <3>1. PICK C \in K : c = Outline(C, A)
        BY <1>6
      <3>2. C \in J
        BY <2>1, <3>1 DEF Joined
      <3>3. QED
        BY <3>1, <3>2
    <2>3. ASSUME NEW C \in J PROVE Outline(C, A) \in joined
      <3>1. Outline(C, A) \in key.comps
        BY <1>6, <1>7
      <3>2. Outline(C, A).members \cap {u, v} # {}
        BY <1>7, <2>1
      <3>3. QED
        BY <3>1, <3>2
    <2> HIDE DEF joined, J
    <2>4. QED
      BY <2>2, <2>3
  <1>9. key.comps \ joined = {Outline(C, A) : C \in {D \in K \ J : D \cap A # {}}}
    <2>1. ASSUME NEW C \in K PROVE Outline(C, A).members \cap {u, v} = C \cap Ends(e)
      BY <1>1, <1>3 DEF Outline
    <2>2. ASSUME NEW c \in key.comps, c \notin joined PROVE c \in {Outline(C, A) : C \in {D \in K \ J : D \cap A # {}}}
      <3>1. PICK C \in K : c = Outline(C, A) /\ C \cap A # {}
        BY <1>6, <2>2
      <3>2. C \notin J
        BY <2>1, <2>2, <3>1 DEF Joined
      <3> HIDE DEF J
      <3>3. QED
        BY <3>1, <3>2
    <2>3. ASSUME NEW C \in K, C \notin J, C \cap A # {} PROVE Outline(C, A) \in key.comps /\ Outline(C, A) \notin joined
      <3>1. C \cap Ends(e) = {}
        BY <2>3 DEF Joined
      <3>2. QED
        BY <1>6, <2>1, <2>3, <3>1
    <2> HIDE DEF joined, J
    <2>4. QED
      BY <2>2, <2>3
  <1>10. bad <=> TakeRefused(S, K, A, e)
    <2>1. deg[u] = Deg(S, u) /\ deg[v] = Deg(S, v)
      BY <1>1, <1>4
    <2>2. (\E x \in Ends(e) : Deg(S, x) >= MaxDegree(x))
            <=> (deg[u] >= MaxDegree(u) \/ deg[v] >= MaxDegree(v))
      BY <1>1, <2>1
    <2>3. (\E c \in joined : {u, v} \subseteq c.members) <=> \E C \in K : Ends(e) \subseteq C
      <3>1. ASSUME NEW C \in J, {u, v} \subseteq Outline(C, A).members PROVE Ends(e) \subseteq C /\ C \in K
        BY <1>1, <1>7, <3>1 DEF Outline
      <3>2. ASSUME NEW C \in K, Ends(e) \subseteq C PROVE C \in J /\ {u, v} \subseteq Outline(C, A).members
        BY <1>1, <1>3, <3>2 DEF Outline, Joined
      <3> HIDE DEF joined, J
      <3>3. QED
        BY <1>8, <3>1, <3>2
    <2> HIDE DEF joined, deg
    <2>4. QED
      BY <1>5, <2>2, <2>3 DEF TakeRefused
  <1>11. ASSUME ~bad PROVE new = View(S \cup {e}, Merge(K, e), B)
    <2>1. \A C \in K : C \cap A # {}
      BY <1>5, <1>11
    <2>2. Merge(K, e) = (K \ J) \cup {M}
      BY DEF Merge
    <2>3. \A C \in K \ J : C \cap B = C \cap A
      BY DEF Joined
    <2>4. M \cap B = {u, v} \cup UNION {c.members : c \in joined}
      <3>1. \A C \in J : Outline(C, A).members = C \cap A
        BY DEF Outline
      <3>2. UNION {c.members : c \in joined} = UNION {C \cap A : C \in J}
        <4> HIDE DEF joined, J
        <4>1. QED
          BY <1>8, <3>1
      <3>3. M \cap B = (Ends(e) \cap B) \cup UNION {C \cap B : C \in J}
        BY UnionCap
      <3>4. \A C \in J : C \cap B \subseteq (C \cap A) \cup Ends(e)
        OBVIOUS
      <3>5. \A C \in J : C \cap A \subseteq C \cap B
        OBVIOUS
      <3>6. Ends(e) \cap B = Ends(e)
        OBVIOUS
      <3> HIDE DEF joined, J, M, B
      <3>7. M \cap B = Ends(e) \cup UNION {C \cap A : C \in J}
        <4> DEFINE X == UNION {C \cap A : C \in J}
                   Y == UNION {C \cap B : C \in J}
        <4>1. ASSUME NEW x \in X PROVE x \in Y
          <5>1. PICK C \in J : x \in C \cap A
            OBVIOUS
          <5>2. x \in C \cap B
            BY <3>5, <5>1
          <5>3. QED
            BY <5>2
        <4>2. ASSUME NEW x \in Y PROVE x \in X \cup Ends(e)
          <5>1. PICK C \in J : x \in C \cap B
            OBVIOUS
          <5>2. x \in C \cap A \/ x \in Ends(e)
            BY <3>4, <5>1
          <5>3. QED
            BY <5>2
        <4> HIDE DEF X, Y
        <4>3. M \cap B = Ends(e) \cup Y
          BY <3>3, <3>6 DEF Y
        <4>4. QED
          BY <4>1, <4>2, <4>3 DEF X
      <3>8. QED
        BY <1>1, <3>2, <3>7
    <2>5. M \cap Terminals = ({u, v} \cap {Start, Target}) \cup UNION {c.ends : c \in joined}
      <3>1. \A C \in J : Outline(C, A).ends = C \cap Terminals
        BY DEF Outline
      <3>2. UNION {c.ends : c \in joined} = UNION {C \cap Terminals : C \in J}
        <4> HIDE DEF joined, J
        <4>1. QED
          BY <1>8, <3>1
      <3>3. M \cap Terminals = (Ends(e) \cap Terminals) \cup UNION {C \cap Terminals : C \in J}
        BY UnionCap
      <3> HIDE DEF joined, J, M
      <3>4. QED
        BY <1>1, <3>2, <3>3 DEF Terminals
    <2>6. merged = Outline(M, B)
      <3> HIDE DEF joined, M, B
      <3>1. QED
        BY <2>4, <2>5 DEF Outline
    <2>7. M \cap B # {}
      BY <1>1
    <2>8. {Outline(C, B) : C \in {D \in Merge(K, e) : D \cap B # {}}} = (key.comps \ joined) \cup {merged}
      <3>1. \A C \in K \ J : Outline(C, B) = Outline(C, A)
        BY <2>3 DEF Outline
      <3> HIDE DEF joined, merged, M, B, J
      <3>2. {D \in Merge(K, e) : D \cap B # {}} = {D \in K \ J : D \cap A # {}} \cup {M}
        BY <2>2, <2>3, <2>7
      <3>3. QED
        BY <1>9, <2>6, <3>1, <3>2
    <2>9. deg2 = [x \in B |-> Deg(S \cup {e}, x)]
      <3>1. \A x \in B : Deg(S, x) \in Nat /\ Deg(S \cup {e}, x) = IF x \in {u, v} THEN Deg(S, x) + 1 ELSE Deg(S, x)
        BY <1>1, DegStep
      <3>2. u \in B /\ v \in B
        BY <1>1
      <3> HIDE DEF deg, B, u, v
      <3>3. QED
        BY <1>1, <1>4, <3>1, <3>2
    <2>10. ~\E C \in Merge(K, e) : C \cap B = {}
      BY <2>1, <2>2, <2>3, <2>7
    <2> HIDE DEF deg2, joined, merged, J, M, B
    <2>11. QED
      BY <2>8, <2>9, <2>10 DEF View
  <1> HIDE DEF bad, new
  <1>12. QED
    BY <1>2, <1>10, <1>11 DEF key

\* Forgetting the vertices that have left the frontier.
LEMMA ForgetView ==
  ASSUME NEW S, NEW K, Components(S, K), NEW A, NEW B \in SUBSET A
  PROVE  Forget(View(S, K, A), B)
           = IF \/ \E x \in A \ B : IF x \in Terminals THEN Deg(S, x) # 1 ELSE Deg(S, x) = 1
                \/ \E C \in K : C \cap A # {} /\ C \cap B = {} /\ C \cap Terminals # Terminals
             THEN {}
             ELSE {View(S, K, B)}
  <1> DEFINE key == View(S, K, A)
             gone == DOMAIN key.deg \ B
             dead == {c \in key.comps : c.members \subseteq gone}
             bad == \/ \E x \in gone : IF x \in {Start, Target} THEN key.deg[x] # 1 ELSE key.deg[x] = 1
                    \/ \E c \in dead : c.ends # {Start, Target}
             deg == [x \in B |-> key.deg[x]]
             done == key.done \/ dead # {}
             comps == {[c EXCEPT !.members = @ \cap B] : c \in key.comps \ dead}
             new == [done |-> done, deg |-> deg, comps |-> comps]
  <1>1. Forget(key, B) = IF bad THEN {} ELSE {new}
    BY DEF Forget
  <1>2. DOMAIN key.deg = A /\ \A x \in A : key.deg[x] = Deg(S, x)
    BY DEF View
  <1>3. key.done = (\E C \in K : C \cap A = {})
    BY DEF View
  <1>4. key.comps = {Outline(C, A) : C \in {D \in K : D \cap A # {}}}
    BY DEF View
  <1> HIDE DEF key
  <1>5. gone = A \ B
    BY <1>2
  <1>6. \A C \in K : Outline(C, A).members \subseteq gone <=> C \cap B = {}
    BY <1>5 DEF Outline
  <1> HIDE DEF gone
  <1>7. ASSUME NEW c PROVE c \in dead <=> \E C \in K : C \cap A # {} /\ C \cap B = {} /\ c = Outline(C, A)
    <2>1. ASSUME c \in dead PROVE \E C \in K : C \cap A # {} /\ C \cap B = {} /\ c = Outline(C, A)
      <3>1. PICK C \in K : C \cap A # {} /\ c = Outline(C, A)
        BY <1>4, <2>1
      <3>2. C \cap B = {}
        BY <1>6, <2>1, <3>1
      <3>3. QED
        BY <3>1, <3>2
    <2>2. ASSUME NEW C \in K, C \cap A # {}, C \cap B = {}, c = Outline(C, A) PROVE c \in dead
      BY <1>4, <1>6, <2>2
    <2> HIDE DEF dead
    <2>3. QED
      BY <2>1, <2>2
  <1>8. ASSUME NEW c PROVE c \in key.comps \ dead <=> \E C \in K : C \cap B # {} /\ c = Outline(C, A)
    <2>1. ASSUME c \in key.comps, c \notin dead PROVE \E C \in K : C \cap B # {} /\ c = Outline(C, A)
      <3>1. PICK C \in K : C \cap A # {} /\ c = Outline(C, A)
        BY <1>4, <2>1
      <3>2. QED
        BY <1>6, <2>1, <3>1
    <2>2. ASSUME NEW C \in K, C \cap B # {}, c = Outline(C, A) PROVE c \in key.comps /\ c \notin dead
      <3>1. C \cap A # {}
        BY <2>2
      <3>2. QED
        BY <1>4, <1>6, <2>2, <3>1
    <2> HIDE DEF dead
    <2>3. QED
      BY <2>1, <2>2
  <1> HIDE DEF dead
  <1>9. bad = (\/ \E x \in A \ B : IF x \in Terminals THEN Deg(S, x) # 1 ELSE Deg(S, x) = 1
               \/ \E C \in K : C \cap A # {} /\ C \cap B = {} /\ C \cap Terminals # Terminals)
    <2>1. (\E x \in gone : IF x \in {Start, Target} THEN key.deg[x] # 1 ELSE key.deg[x] = 1)
            <=> (\E x \in A \ B : IF x \in Terminals THEN Deg(S, x) # 1 ELSE Deg(S, x) = 1)
      BY <1>2, <1>5 DEF Terminals
    <2>2. (\E c \in dead : c.ends # {Start, Target})
            <=> (\E C \in K : C \cap A # {} /\ C \cap B = {} /\ C \cap Terminals # Terminals)
      <3>1. \A C : Outline(C, A).ends = C \cap Terminals
        BY DEF Outline
      <3>2. QED
        BY <1>7, <3>1 DEF Terminals
    <2>3. QED
      BY <2>1, <2>2
  <1>10. done = (\E C \in K : C \cap B = {})
    <2>1. dead # {} <=> \E C \in K : C \cap A # {} /\ C \cap B = {}
      BY <1>7
    <2>2. \A C \in K : C \cap A = {} => C \cap B = {}
      OBVIOUS
    <2>3. QED
      BY <1>3, <2>1, <2>2
  <1>11. deg = [x \in B |-> Deg(S, x)]
    BY <1>2
  <1>12. comps = {Outline(C, B) : C \in {D \in K : D \cap B # {}}}
    <2>1. ASSUME NEW C PROVE [Outline(C, A) EXCEPT !.members = @ \cap B] = Outline(C, B)
      <3>1. (C \cap A) \cap B = C \cap B
        OBVIOUS
      <3>2. QED
        BY <3>1 DEF Outline
    <2>2. ASSUME NEW c \in key.comps \ dead PROVE [c EXCEPT !.members = @ \cap B] \in {Outline(C, B) : C \in {D \in K : D \cap B # {}}}
      <3>1. PICK C \in K : C \cap B # {} /\ c = Outline(C, A)
        BY <1>8
      <3>2. [c EXCEPT !.members = @ \cap B] = Outline(C, B)
        BY <2>1, <3>1
      <3>3. QED
        BY <3>1, <3>2
    <2>3. ASSUME NEW C \in K, C \cap B # {} PROVE Outline(C, B) \in comps
      <3>1. Outline(C, A) \in key.comps \ dead
        BY <1>8, <2>3
      <3>2. QED
        BY <2>1, <3>1
    <2>4. QED
      BY <2>2, <2>3
  <1> HIDE DEF bad, done, deg, comps
  <1>13. new = View(S, K, B)
    BY <1>10, <1>11, <1>12 DEF View
  <1> HIDE DEF new
  <1>14. QED
    BY <1>1, <1>9, <1>13 DEF key

-----------------------------------------------------------------------------
-----------------------------------------------------------------------------
CompsOf(S) == CHOOSE K : Components(S, K)

\* A set of edges has at most one set of components.
LEMMA ComponentsUnique ==
  ASSUME NEW S, NEW K, NEW L, Components(S, K), Components(S, L)
  PROVE  K = L
  <1>1. ASSUME NEW P, NEW Q, Components(S, P), Components(S, Q), NEW C \in P PROVE C \in Q
    <2>1. PICK x \in C : TRUE
      BY <1>1 DEF Components
    <2>2. PICK i \in S : x \in Ends(i)
      BY <1>1 DEF Components
    <2>3. PICK D \in Q : Ends(i) \subseteq D
      BY <1>1 DEF Components
    <2>4. Sealed(S, C) /\ Sealed(S, D)
      BY <1>1, ComponentClosed
    <2>5. C \cap D # {} /\ Sealed(S, C \cap D)
      BY <2>1, <2>2, <2>3, <2>4 DEF Sealed
    <2>6. C \cap D = C
      <3>1. \A E \in SUBSET C : E # {} /\ Sealed(S, E) => E = C
        BY <1>1 DEF Components
      <3>2. QED
        BY <2>5, <3>1
    <2>7. C \cap D = D
      <3>1. \A E \in SUBSET D : E # {} /\ Sealed(S, E) => E = D
        BY <1>1, <2>3 DEF Components
      <3>2. QED
        BY <2>5, <3>1
    <2>8. QED
      BY <2>6, <2>7
  <1>2. QED
    BY <1>1

\* Every set of edges has its components.
LEMMA CompsOfRight ==
  ASSUME NEW S \in SUBSET DOMAIN Edges
  PROVE  Components(S, CompsOf(S))
  <1> DEFINE Bad == {s \in SUBSET S : ~\E K : Components(s, K)}
  <1>1. IsFiniteSet(S)
    BY LastType, FS_Interval, FS_Subset
  <1>2. Bad = {}
    <2>1. SUFFICES ASSUME Bad # {} PROVE FALSE
      OBVIOUS
    <2>2. PICK s \in Bad : \A t \in Bad : t \subseteq s => t = s
      <3>1. Bad \in SUBSET SUBSET S
        OBVIOUS
      <3> HIDE DEF Bad
      <3>2. QED
        BY <1>1, <2>1, <3>1, SubsetMin
    <2>3. s \in SUBSET S /\ ~\E K : Components(s, K)
      OBVIOUS
    <2>4. s # {}
      BY <2>3, NoComponents
    <2>5. PICK e \in s : TRUE
      BY <2>4
    <2>6. s \ {e} \in SUBSET S /\ s \ {e} \subseteq s /\ s \ {e} # s /\ s = (s \ {e}) \cup {e} /\ e \in DOMAIN Edges
      BY <2>3, <2>5
    <2>7. PICK K : Components(s \ {e}, K)
      BY <2>2, <2>6
    <2>8. Components((s \ {e}) \cup {e}, Merge(K, e))
      BY <2>6, <2>7, ComponentsJoin
    <2>9. QED
      BY <2>3, <2>6, <2>8
  <1>3. \E K : Components(S, K)
    BY <1>2
  <1>4. QED
    BY <1>3 DEF CompsOf

LEMMA CompsOfJoin ==
  ASSUME NEW S \in SUBSET DOMAIN Edges, NEW e \in DOMAIN Edges
  PROVE  CompsOf(S \cup {e}) = Merge(CompsOf(S), e)
  <1>1. Components(S \cup {e}, Merge(CompsOf(S), e))
    BY CompsOfRight, ComponentsJoin
  <1>2. Components(S \cup {e}, CompsOf(S \cup {e}))
    BY CompsOfRight
  <1>3. QED
    BY <1>1, <1>2, ComponentsUnique

-----------------------------------------------------------------------------
\* The key of a choice S among the first e edges.
KeyOf(e, S) == View(S, CompsOf(S), Active[e])

\* The step that decides edge e as S does.
Step(e, S) == transition_one(KeyOf(e - 1, S \ {e}), e, IF e \in S THEN 1 ELSE 0)

\* The edge e is decided while its ends that were touched are on the frontier.
LEMMA EndsShown ==
  ASSUME NEW e \in 1 .. LastEdge, NEW S \in SUBSET (1 .. e - 1)
  PROVE  /\ S \in SUBSET DOMAIN Edges /\ e \in DOMAIN Edges /\ e \notin S
         /\ Shown(S, Active[e - 1], e)
  <1>1. DOMAIN Edges = 1 .. LastEdge /\ LastEdge \in Nat
    BY LastType
  <1>2. S \in SUBSET DOMAIN Edges /\ e \in DOMAIN Edges /\ e \notin S
    BY <1>1
  <1>3. ASSUME NEW x \in Ends(e), NEW i \in S, x \in Ends(i) PROVE x \in Active[e - 1]
    <2>1. i \in Touching(x) /\ e \in Touching(x)
      BY <1>2, <1>3 DEF Touching, Ends
    <2>2. x \in V
      BY <1>2, EndsOnce
    <2>3. i <= e - 1 /\ e > e - 1 /\ e - 1 \in 0 .. Len(Edges)
      BY <1>1 DEF LastEdge
    <2>4. QED
      BY <2>1, <2>2, <2>3 DEF Active
  <1>4. QED
    BY <1>2, <1>3 DEF Shown

\* What transition_one refuses, when S is chosen: an edge that is taken after a whole path,
\* above a degree or to close a cycle; a vertex that is left with the degree of no path; a
\* component that is left and is not a whole path.
RefusesEdge(e, T) == TakeRefused(T, CompsOf(T), Active[e - 1], e)

Leaves(e) == (Active[e - 1] \cup Ends(e)) \ Active[e]

RefusesVertex(e, S) == \E x \in Leaves(e) : IF x \in Terminals THEN Deg(S, x) # 1 ELSE Deg(S, x) = 1

RefusesComponent(e, S) ==
    \E C \in CompsOf(S) : /\ C \cap (Active[e - 1] \cup Ends(e)) # {} /\ C \cap Active[e] = {}
                          /\ C \cap Terminals # Terminals

Refuses(e, S) == (e \in S /\ RefusesEdge(e, S \ {e})) \/ RefusesVertex(e, S) \/ RefusesComponent(e, S)

LEMMA StepKey ==
  ASSUME NEW e \in 1 .. LastEdge, NEW S \in SUBSET (1 .. e)
  PROVE  Step(e, S) = IF Refuses(e, S) THEN {} ELSE {KeyOf(e, S)}
  <1> DEFINE T == S \ {e}
             A == Active[e - 1]
             B == A \cup Ends(e)
             K == CompsOf(S)
             u == Edges[e][1]
             v == Edges[e][2]
  <1>1. T \in SUBSET (1 .. e - 1)
    BY LastType
  <1>2. T \in SUBSET DOMAIN Edges /\ e \in DOMAIN Edges /\ e \notin T /\ Shown(T, A, e)
    BY <1>1, EndsShown
  <1>3. A \in SUBSET V /\ Active[e] \in SUBSET B
    <2>1. e - 1 \in 0 .. LastEdge
      BY LastType
    <2>2. QED
      BY <2>1, ActiveType DEF Ends
  <1>4. Components(T, CompsOf(T)) /\ Components(S, K)
    <2>1. S \in SUBSET DOMAIN Edges
      BY LastType
    <2>2. QED
      BY <1>2, <2>1, CompsOfRight
  <1>5. Forget(View(S, K, B), Active[e]) = IF RefusesVertex(e, S) \/ RefusesComponent(e, S) THEN {} ELSE {KeyOf(e, S)}
    <2> DEFINE bad == \/ \E x \in B \ Active[e] : IF x \in Terminals THEN Deg(S, x) # 1 ELSE Deg(S, x) = 1
                      \/ \E C \in K : C \cap B # {} /\ C \cap Active[e] = {} /\ C \cap Terminals # Terminals
    <2>1. bad <=> (RefusesVertex(e, S) \/ RefusesComponent(e, S))
      BY DEF RefusesVertex, RefusesComponent, Leaves
    <2>2. Forget(View(S, K, B), Active[e]) = IF bad THEN {} ELSE {View(S, K, Active[e])}
      BY <1>3, <1>4, ForgetView
    <2> HIDE DEF bad
    <2>3. QED
      BY <2>1, <2>2 DEF KeyOf
  <1>6. CASE e \in S
    <2>1. S = T \cup {e}
      BY <1>6
    <2>2. K = Merge(CompsOf(T), e)
      <3> HIDE DEF T
      <3>1. QED
        BY <1>2, <2>1, CompsOfJoin
    <2>3. TakeEdge(KeyOf(e - 1, T), u, v) = IF RefusesEdge(e, T) THEN {} ELSE {View(T \cup {e}, Merge(CompsOf(T), e), B)}
      <3> HIDE DEF T
      <3>1. /\ TakeRefused(T, CompsOf(T), A, e) => TakeEdge(View(T, CompsOf(T), A), u, v) = {}
            /\ ~TakeRefused(T, CompsOf(T), A, e)
                 => TakeEdge(View(T, CompsOf(T), A), u, v) = {View(T \cup {e}, Merge(CompsOf(T), e), B)}
        BY <1>2, <1>3, <1>4, TakeView
      <3>2. QED
        BY <3>1 DEF KeyOf, RefusesEdge
    <2>4. Step(e, S) = UNION {Forget(k, Active[e]) : k \in TakeEdge(KeyOf(e - 1, T), u, v)}
      BY <1>6 DEF Step, transition_one
    <2> HIDE DEF T, B, K, u, v, A
    <2>5. CASE RefusesEdge(e, T)
      <3>1. Refuses(e, S)
        BY <1>6, <2>5 DEF Refuses, T
      <3>2. Step(e, S) = {}
        BY <2>3, <2>4, <2>5
      <3>3. QED
        BY <3>1, <3>2
    <2>6. CASE ~RefusesEdge(e, T)
      <3>1. Refuses(e, S) <=> RefusesVertex(e, S) \/ RefusesComponent(e, S)
        BY <2>6 DEF Refuses, T
      <3>2. TakeEdge(KeyOf(e - 1, T), u, v) = {View(S, K, B)}
        BY <2>1, <2>2, <2>3, <2>6
      <3>3. Step(e, S) = Forget(View(S, K, B), Active[e])
        BY <2>4, <3>2
      <3>4. QED
        BY <1>5, <3>1, <3>3
    <2>7. QED
      BY <2>5, <2>6
  <1>7. CASE e \notin S
    <2>1. S = T
      BY <1>7
    <2>2. SkipEdge(KeyOf(e - 1, T), u, v) = View(T, CompsOf(T), B)
      <3> HIDE DEF T
      <3>1. QED
        BY <1>2, <1>3, <1>4, SkipView DEF KeyOf
    <2>3. Step(e, S) = UNION {Forget(k, Active[e]) : k \in {SkipEdge(KeyOf(e - 1, T), u, v)}}
      BY <1>7 DEF Step, transition_one
    <2>4. Refuses(e, S) <=> RefusesVertex(e, S) \/ RefusesComponent(e, S)
      BY <1>7 DEF Refuses
    <2> HIDE DEF T, B, u, v, A
    <2>5. Step(e, S) = Forget(View(S, K, B), Active[e])
      BY <2>1, <2>2, <2>3
    <2>6. QED
      BY <1>5, <2>4, <2>5
  <1>8. QED
    BY <1>6, <1>7

-----------------------------------------------------------------------------
(***************************************************************************)
(* Which choices of edges lead to a key: those no step refuses. Two        *)
(* choices that lead to the same key are kept apart, so the ways of a key  *)
(* are a number of choices (CountsWays), and the total is how many choices *)
(* come through with the whole path done (TotalWholes).                    *)
(***************************************************************************)
\* The choices among the first e edges that no step refuses, and those of them with a given key.
Alive(e) == {S \in SUBSET (1 .. e) : \A d \in 1 .. e : ~Refuses(d, S \cap (1 .. d))}
Ways(e, key) == {S \in Alive(e) : KeyOf(e, S) = key}

\* A choice is alive when what it says of the earlier edges is, and the last edge is not refused.
LEMMA AliveStep ==
  ASSUME NEW e \in 1 .. LastEdge, NEW S
  PROVE  S \in Alive(e) <=> S \in SUBSET (1 .. e) /\ S \ {e} \in Alive(e - 1) /\ ~Refuses(e, S)
  <1>1. LastEdge \in Nat
    BY LastType
  <1>2. ASSUME S \in SUBSET (1 .. e)
        PROVE  /\ S \ {e} \in SUBSET (1 .. e - 1)
               /\ S \cap (1 .. e) = S
               /\ \A d \in 1 .. e - 1 : d \in 1 .. e /\ (S \ {e}) \cap (1 .. d) = S \cap (1 .. d)
               /\ \A d \in 1 .. e : d = e \/ d \in 1 .. e - 1
               /\ e \in 1 .. e
    <2>1. S \ {e} \in SUBSET (1 .. e - 1)
      BY <1>1, <1>2
    <2>2. S \cap (1 .. e) = S
      BY <1>2
    <2>3. ASSUME NEW d \in 1 .. e - 1 PROVE d \in 1 .. e /\ (S \ {e}) \cap (1 .. d) = S \cap (1 .. d)
      <3>1. d \in 1 .. e /\ e \notin 1 .. d
        BY <1>1
      <3>2. QED
        BY <3>1
    <2>4. \A d \in 1 .. e : d = e \/ d \in 1 .. e - 1
      BY <1>1
    <2>5. e \in 1 .. e
      BY <1>1
    <2>6. QED
      BY <2>1, <2>2, <2>3, <2>4, <2>5
  <1>3. ASSUME S \in SUBSET (1 .. e)
        PROVE  (\A d \in 1 .. e : ~Refuses(d, S \cap (1 .. d)))
                 <=> (\A d \in 1 .. e - 1 : ~Refuses(d, (S \ {e}) \cap (1 .. d))) /\ ~Refuses(e, S)
    <2>1. \A d \in 1 .. e - 1 : d \in 1 .. e /\ (S \ {e}) \cap (1 .. d) = S \cap (1 .. d)
      BY <1>2, <1>3
    <2>2. S \cap (1 .. e) = S /\ e \in 1 .. e /\ \A d \in 1 .. e : d = e \/ d \in 1 .. e - 1
      BY <1>2, <1>3
    <2>3. QED
      BY <2>1, <2>2
  <1>4. QED
    BY <1>2, <1>3 DEF Alive

\* At the start there is one choice.
LEMMA KeyOfNone == KeyOf(0, {}) = EmptyKey /\ Alive(0) = {{}}
  <1>1. CompsOf({}) = {}
    <2>1. {} \in SUBSET DOMAIN Edges
      OBVIOUS
    <2>2. QED
      BY <2>1, CompsOfRight, NoComponents, ComponentsUnique
  <1>2. Active[0] = {}
    BY ActiveType
  <1>3. View({}, {}, {}) = EmptyKey
    <2>1. [x \in {} |-> Deg({}, x)] = [x \in {} |-> 0]
      OBVIOUS
    <2>2. {Outline(C, {}) : C \in {D \in {} : D \cap {} # {}}} = {}
      OBVIOUS
    <2>3. QED
      BY <2>1, <2>2 DEF View, EmptyKey
  <1>4. Alive(0) = {{}}
    <2>1. 1 .. 0 = {}
      OBVIOUS
    <2>2. QED
      BY <2>1 DEF Alive
  <1>5. QED
    BY <1>1, <1>2, <1>3, <1>4 DEF KeyOf

\* There are finitely many choices.
LEMMA WaysFinite == \A e \in 0 .. LastEdge : IsFiniteSet(Alive(e)) /\ \A key : IsFiniteSet(Ways(e, key))
  <1>1. SUFFICES ASSUME NEW e \in 0 .. LastEdge PROVE IsFiniteSet(Alive(e)) /\ \A key : IsFiniteSet(Ways(e, key))
    OBVIOUS
  <1>2. IsFiniteSet(1 .. e)
    BY LastType, FS_Interval
  <1>3. IsFiniteSet(SUBSET (1 .. e))
    BY <1>2, FS_SUBSET
  <1>4. IsFiniteSet(Alive(e))
    BY <1>3, FS_Subset DEF Alive
  <1>5. QED
    BY <1>4, FS_Subset DEF Ways

(***************************************************************************)
(* The table of the sequential program counts the choices that lead to a   *)
(* key, each once.                                                         *)
(***************************************************************************)
LEMMA CountsWays ==
  \A e \in 0 .. LastEdge : /\ \A S \in Alive(e) : KeyOf(e, S) \in Reachable[e]
                           /\ \A key \in Reachable[e] : Counts[e][key] = Cardinality(Ways(e, key))
  <1> DEFINE Good(e) == /\ \A S \in Alive(e) : KeyOf(e, S) \in Reachable[e]
                        /\ \A key \in Reachable[e] : Counts[e][key] = Cardinality(Ways(e, key))
             Bad == {e \in 0 .. LastEdge : ~Good(e)}
  <1>1. SUFFICES ASSUME Bad # {} PROVE FALSE
    OBVIOUS
  <1>2. PICK e \in Bad : \A d \in Bad : e <= d
    <2> HIDE DEF Good
    <2>1. Bad \in SUBSET Nat
      BY LastType
    <2> HIDE DEF Bad
    <2>2. QED
      BY <1>1, <2>1, NatMin
  <1>3. e \in 0 .. LastEdge /\ ~Good(e)
    OBVIOUS
  <1>4. e # 0
    <2>1. SUFFICES ASSUME e = 0 PROVE FALSE
      OBVIOUS
    <2>2. Ways(0, EmptyKey) = {{}}
      BY KeyOfNone DEF Ways
    <2>3. Cardinality({{}}) = 1
      BY FS_Singleton
    <2>4. Reachable[0] = {EmptyKey} /\ Counts[0][EmptyKey] = 1
      BY ReachableDef, CountsDef
    <2>5. Good(0)
      BY <2>2, <2>3, <2>4, KeyOfNone
    <2>6. QED
      BY <1>3, <2>1, <2>5
  <1>5. e \in 1 .. LastEdge /\ e - 1 \in 0 .. LastEdge /\ ~(e <= e - 1)
    BY <1>3, <1>4, LastType
  <1>6. Good(e - 1)
    <2> HIDE DEF Good
    <2>1. QED
      BY <1>2, <1>5
  <1> DEFINE R == Reachable[e - 1]
             c == Counts[e - 1]
             Bit(S) == IF e \in S THEN 1 ELSE 0
             From(S) == <<KeyOf(e - 1, S \ {e}), Bit(S)>>
  <1>7. ASSUME NEW S \in Alive(e)
        PROVE  /\ S \ {e} \in Alive(e - 1) /\ From(S) \in Decisions(R)
               /\ transition_one(From(S)[1], e, From(S)[2]) = {KeyOf(e, S)}
    <2>1. S \in SUBSET (1 .. e) /\ S \ {e} \in Alive(e - 1) /\ ~Refuses(e, S)
      BY <1>5, AliveStep
    <2>2. Step(e, S) = {KeyOf(e, S)}
      BY <1>5, <2>1, StepKey
    <2>3. KeyOf(e - 1, S \ {e}) \in R
      BY <1>6, <2>1
    <2>4. QED
      BY <2>1, <2>2, <2>3 DEF Step, Decisions
  <1>8. ASSUME NEW T \in Alive(e - 1), NEW t \in {0, 1}, NEW key \in transition_one(KeyOf(e - 1, T), e, t)
        PROVE  \E S \in Ways(e, key) : S \ {e} = T /\ Bit(S) = t
    <2> DEFINE S == IF t = 1 THEN T \cup {e} ELSE T
    <2>1. T \in SUBSET (1 .. e - 1)
      BY DEF Alive
    <2>2. e \notin T /\ S \in SUBSET (1 .. e) /\ S \ {e} = T /\ Bit(S) = t
      <3>1. e \notin T
        BY <1>5, <2>1, LastType
      <3>2. S \in SUBSET (1 .. e)
        BY <1>5, <2>1, LastType
      <3>3. QED
        BY <3>1, <3>2
    <2> HIDE DEF S
    <2>3. Step(e, S) = transition_one(KeyOf(e - 1, T), e, t)
      BY <2>2 DEF Step
    <2>4. ~Refuses(e, S) /\ key = KeyOf(e, S)
      BY <1>5, <1>8, <2>2, <2>3, StepKey
    <2>5. S \in Alive(e)
      BY <1>5, <2>2, <2>4, AliveStep
    <2>6. QED
      BY <2>2, <2>4, <2>5 DEF Ways
  <1>9. ASSUME NEW S \in Alive(e) PROVE KeyOf(e, S) \in Reachable[e]
    <2>1. Reachable[e] = UNION {transition_one(x[1], e, x[2]) : x \in Decisions(R)}
      BY <1>5, ReachableDef DEF NextKeys
    <2> HIDE DEF From
    <2>2. QED
      BY <1>7, <2>1
  <1>10. ASSUME NEW key \in Reachable[e] PROVE Counts[e][key] = Cardinality(Ways(e, key))
    <2> DEFINE D == {y \in Decisions(R) : key \in transition_one(y[1], e, y[2])}
               F == [y \in D |-> {S \in Ways(e, key) : From(S) = y}]
               f == [x \in D |-> c[x[1]]]
    <2>1. Counts[e][key] = SumFunctionOnSet(f, D)
      <3>1. Counts[e] = NextCounts(c, e)
        BY <1>5, CountsDef
      <3>2. Counts[e][key] = SumFunction(f)
        BY <3>1 DEF NextCounts, Decisions
      <3>3. DOMAIN f = D
        OBVIOUS
      <3> HIDE DEF f, D
      <3>4. QED
        BY <3>2, <3>3 DEF SumFunction
    <2>2. IsFiniteSet(D)
      <3>1. IsFiniteSet({0, 1})
        <4>1. IsFiniteSet({0}) /\ {0} \cup {1} = {0, 1}
          BY FS_Singleton
        <4>2. QED
          BY <4>1, FS_AddElement
      <3>2. IsFiniteSet(R)
        BY <1>5, ReachableType
      <3>3. IsFiniteSet(Decisions(R))
        <4> HIDE DEF R
        <4>1. QED
          BY <3>1, <3>2, FS_Product DEF Decisions
      <3>4. QED
        BY <3>3, FS_Subset
    <2>3. ASSUME NEW y \in D PROVE IsFiniteSet(F[y]) /\ f[y] = Cardinality(F[y])
      <3> DEFINE A == Ways(e - 1, y[1])
                 B == F[y]
                 g == [S \in B |-> S \ {e}]
      <3>1. y[1] \in R /\ y[2] \in {0, 1} /\ y = <<y[1], y[2]>> /\ key \in transition_one(y[1], e, y[2])
        BY DEF Decisions
      <3>2. B = {S \in Ways(e, key) : From(S) = y}
        OBVIOUS
      <3> HIDE DEF F
      <3>3. ASSUME NEW S \in B PROVE S \ {e} \in A /\ Bit(S) = y[2]
        <4>1. S \in Alive(e) /\ From(S) = y
          BY <3>2 DEF Ways
        <4>2. S \ {e} \in Alive(e - 1)
          BY <1>7, <4>1
        <4>3. QED
          BY <4>1, <4>2 DEF Ways
      <3>4. ASSUME NEW T \in A PROVE \E S \in B : S \ {e} = T
        <4>1. T \in Alive(e - 1) /\ KeyOf(e - 1, T) = y[1]
          BY DEF Ways
        <4>2. PICK S \in Ways(e, key) : S \ {e} = T /\ Bit(S) = y[2]
          BY <1>8, <3>1, <4>1
        <4>3. From(S) = y
          BY <3>1, <4>1, <4>2
        <4>4. QED
          BY <3>2, <4>2, <4>3
      <3>5. ASSUME NEW S \in B, NEW T \in B, S \ {e} = T \ {e} PROVE S = T
        <4>1. e \in S <=> e \in T
          <5> HIDE DEF A, B
          <5>1. Bit(S) = y[2] /\ Bit(T) = y[2]
            BY <3>3
          <5>2. QED
            BY <5>1
        <4>2. \A x : x \in S <=> x \in T
          BY <3>5, <4>1
        <4>3. QED
          BY <4>2
      <3>6. IsFiniteSet(B)
        BY <1>5, <1>3, <3>2, WaysFinite, FS_Subset
      <3>7. g \in [B -> A]
        <4> HIDE DEF A, B
        <4>1. ASSUME NEW S \in B PROVE S \ {e} \in A
          BY <3>3
        <4>2. QED
          BY <4>1
      <3> HIDE DEF A, B
      <3>8. Cardinality(A) = Cardinality(B)
        <4>1. \A S, T \in B : g[S] = g[T] => S = T
          BY <3>5
        <4>2. \A T \in A : \E S \in B : g[S] = T
          BY <3>4
        <4> HIDE DEF g
        <4>3. QED
          BY <3>6, <3>7, <4>1, <4>2, SameSize
      <3>9. f[y] = Cardinality(A)
        <4>1. c[y[1]] = Cardinality(Ways(e - 1, y[1]))
          BY <1>6, <3>1
        <4>2. QED
          BY <4>1 DEF A
      <3>10. QED
        BY <3>6, <3>8, <3>9 DEF B
    <2>4. \A x, y \in D : x # y => F[x] \cap F[y] = {}
      OBVIOUS
    <2>5. Together(F, D) = Ways(e, key)
      <3>1. ASSUME NEW S \in Ways(e, key) PROVE S \in Together(F, D)
        <4>1. S \in Alive(e) /\ KeyOf(e, S) = key
          BY DEF Ways
        <4>2. From(S) \in D
          <5> HIDE DEF From
          <5>1. QED
            BY <1>7, <4>1
        <4> HIDE DEF From, D
        <4>3. S \in F[From(S)]
          BY <4>2
        <4>4. QED
          BY <4>2, <4>3 DEF Together
      <3>2. \A y \in D : F[y] \subseteq Ways(e, key)
        OBVIOUS
      <3> HIDE DEF F, D
      <3>3. QED
        BY <3>1, <3>2 DEF Together
    <2> HIDE DEF D, F, f
    <2>6. SumFunctionOnSet(f, D) = Cardinality(Together(F, D))
      <3>1. \A x \in D : IsFiniteSet(F[x])
        BY <2>3
      <3>2. \A x \in D : f[x] = Cardinality(F[x])
        BY <2>3
      <3>3. QED
        BY <2>2, <2>4, <3>1, <3>2, SumCards
    <2>7. QED
      BY <2>1, <2>5, <2>6
  <1>11. QED
    BY <1>3, <1>9, <1>10

\* The choices of edges that the program counts in its total.
Wholes == {S \in Alive(LastEdge) : CompsOf(S) # {}}

\* Nothing is on the frontier after the last edge.
LEMMA ActiveLast == Active[LastEdge] = {} /\ LastEdge \in 0 .. LastEdge
  <1>1. LastEdge \in 0 .. LastEdge
    BY LastType
  <1>2. Active[LastEdge] = {x \in V : (\E i \in Touching(x) : i <= LastEdge) /\ (\E i \in Touching(x) : i > LastEdge)}
    BY <1>1 DEF Active, LastEdge
  <1>3. \A x : \A i \in Touching(x) : ~(i > LastEdge)
    BY LastType DEF Touching
  <1>4. QED
    BY <1>1, <1>2, <1>3

\* The program prints how many choices end as one whole path or more.
LEMMA TotalWholes == PathTotal = Cardinality(Wholes)
  <1> DEFINE D == {key \in Reachable[LastEdge] : key.done}
             c == Counts[LastEdge]
             F == [key \in D |-> Ways(LastEdge, key)]
  <1>1. PathTotal = SumFunctionOnSet(c, D)
    BY DEF PathTotal, LastEdge
  <1>2. LastEdge \in 0 .. LastEdge
    BY ActiveLast
  <1>3. IsFiniteSet(D)
    BY <1>2, ReachableType, FS_Subset
  <1>4. \A key \in D : IsFiniteSet(F[key]) /\ c[key] = Cardinality(F[key])
    BY <1>2, WaysFinite, CountsWays
  <1>5. \A x, y \in D : x # y => F[x] \cap F[y] = {}
    BY DEF Ways
  <1>6. Together(F, D) = Wholes
    <2>1. ASSUME NEW S \in Alive(LastEdge)
          PROVE  KeyOf(LastEdge, S) \in Reachable[LastEdge] /\ (KeyOf(LastEdge, S).done <=> CompsOf(S) # {})
      <3>1. KeyOf(LastEdge, S).done = \E C \in CompsOf(S) : C \cap {} = {}
        BY ActiveLast DEF KeyOf, View
      <3>2. QED
        BY <1>2, <3>1, CountsWays
    <2>2. ASSUME NEW S \in Wholes PROVE S \in Together(F, D)
      <3>1. S \in Alive(LastEdge) /\ CompsOf(S) # {}
        BY DEF Wholes
      <3>2. KeyOf(LastEdge, S) \in D
        BY <2>1, <3>1
      <3>3. S \in F[KeyOf(LastEdge, S)]
        BY <3>1, <3>2 DEF Ways
      <3> HIDE DEF F, D
      <3>4. QED
        BY <3>2, <3>3 DEF Together
    <2>3. ASSUME NEW key \in D, NEW S \in F[key] PROVE S \in Wholes
      <3>1. S \in Alive(LastEdge) /\ KeyOf(LastEdge, S) = key
        BY <2>3 DEF Ways
      <3>2. QED
        BY <2>1, <3>1 DEF Wholes
    <2> HIDE DEF F, D
    <2>4. QED
      BY <2>2, <2>3 DEF Together
  <1> HIDE DEF D, c, F
  <1>7. SumFunctionOnSet(c, D) = Cardinality(Together(F, D))
    <2>1. \A x \in D : IsFiniteSet(F[x])
      BY <1>4
    <2>2. \A x \in D : c[x] = Cardinality(F[x])
      BY <1>4
    <2>3. QED
      BY <1>3, <1>5, <2>1, <2>2, SumCards
  <1>8. QED
    BY <1>1, <1>6, <1>7

-----------------------------------------------------------------------------
\* What has been decided of a vertex no later edge touches is decided for good.
LEMMA DegSettled ==
  ASSUME NEW S \in SUBSET DOMAIN Edges, NEW d \in 0 .. LastEdge, NEW x, \A i \in S \cap Touching(x) : i <= d
  PROVE  Deg(S \cap (1 .. d), x) = Deg(S, x)
  <1>1. (S \cap (1 .. d)) \cap Touching(x) = S \cap Touching(x)
    BY LastType
  <1>2. QED
    BY <1>1 DEF Deg

\* A component no later edge touches is a component for good.
LEMMA ComponentSettled ==
  ASSUME NEW S \in SUBSET DOMAIN Edges, NEW T \in SUBSET S, NEW C \in SUBSET V,
         \A i \in S : Ends(i) \cap C # {} => i \in T
  PROVE  /\ C \in CompsOf(S) => C \in CompsOf(T)
         /\ C \in CompsOf(T) => Sealed(S, C)
  <1>1. Components(S, CompsOf(S)) /\ Components(T, CompsOf(T))
    BY CompsOfRight
  <1>2. ASSUME C \in CompsOf(S) PROVE C \in CompsOf(T)
    <2>1. PICK x \in C : TRUE
      BY <1>1, <1>2 DEF Components
    <2>2. PICK i \in S : x \in Ends(i)
      BY <1>1, <1>2, <2>1 DEF Components
    <2>3. i \in T
      BY <2>1, <2>2
    <2>4. PICK D \in CompsOf(T) : Ends(i) \subseteq D
      BY <1>1, <2>3 DEF Components
    <2>5. Sealed(S, C) /\ Sealed(T, C)
      BY <1>1, <1>2, ComponentClosed DEF Sealed
    <2>6. Sealed(T, D)
      BY <1>1, ComponentClosed
    <2>7. D \subseteq C
      <3>1. \A E \in SUBSET D : E # {} /\ Sealed(T, E) => E = D
        BY <1>1 DEF Components
      <3>2. C \cap D # {} /\ Sealed(T, C \cap D)
        BY <2>1, <2>2, <2>4, <2>5, <2>6 DEF Sealed
      <3>3. C \cap D = D
        BY <3>1, <3>2
      <3>4. QED
        BY <3>3
    <2>8. Sealed(S, D)
      <3>1. ASSUME NEW j \in S PROVE Edges[j][1] \in D <=> Edges[j][2] \in D
        <4>1. CASE j \in T
          BY <2>6, <4>1 DEF Sealed
        <4>2. CASE j \notin T
          BY <2>7, <4>2 DEF Ends
        <4>3. QED
          BY <4>1, <4>2
      <3>2. QED
        BY <3>1 DEF Sealed
    <2>9. D = C
      <3>1. \A E \in SUBSET C : E # {} /\ Sealed(S, E) => E = C
        BY <1>1, <1>2 DEF Components
      <3>2. D # {}
        BY <2>2, <2>4
      <3>3. QED
        BY <2>7, <2>8, <3>1, <3>2
    <2>10. QED
      BY <2>9
  <1>3. ASSUME C \in CompsOf(T) PROVE Sealed(S, C)
    <2>1. Sealed(T, C)
      BY <1>1, <1>3, ComponentClosed
    <2>2. ASSUME NEW j \in S PROVE Edges[j][1] \in C <=> Edges[j][2] \in C
      <3>1. CASE j \in T
        BY <2>1, <3>1 DEF Sealed
      <3>2. CASE j \notin T
        BY <3>2 DEF Ends
      <3>3. QED
        BY <3>1, <3>2
    <2>3. QED
      BY <2>2 DEF Sealed
  <1>4. QED
    BY <1>2, <1>3

\* The last of a set of edges.
LEMMA LastOf ==
  ASSUME NEW I \in SUBSET DOMAIN Edges, I # {}
  PROVE  \E d \in I : d \in 1 .. LastEdge /\ \A i \in I : i <= d
  <1>1. LastEdge \in Nat /\ I \in SUBSET (0 .. LastEdge) /\ I \in SUBSET (1 .. LastEdge)
    BY LastType
  <1>2. Max(I) \in I /\ \A i \in I : i <= Max(I)
    BY <1>1, NatMax
  <1>3. QED
    BY <1>1, <1>2

\* What a choice that is never refused looks like: the degrees of paths, and every component
\* holds both terminals.
LEMMA AliveShape ==
  ASSUME NEW S \in Alive(LastEdge)
  PROVE  /\ S \in SUBSET DOMAIN Edges
         /\ \A x \in V : Deg(S, x) \in Nat /\ Deg(S, x) <= MaxDegree(x)
         /\ \A x \in V \ Terminals : Deg(S, x) # 1
         /\ \A C \in CompsOf(S) : Terminals \subseteq C
  <1>1. S \in SUBSET DOMAIN Edges /\ LastEdge \in Nat /\ DOMAIN Edges = 1 .. LastEdge
    BY LastType DEF Alive
  <1>2. ASSUME NEW d \in 1 .. LastEdge PROVE ~Refuses(d, S \cap (1 .. d))
    BY DEF Alive
  <1>3. ASSUME NEW x \in V, S \cap Touching(x) = {} PROVE Deg(S, x) = 0
    BY <1>3, FS_EmptySet DEF Deg
  <1>4. ASSUME NEW x \in V PROVE Deg(S, x) \in Nat /\ Deg(S, x) <= MaxDegree(x)
    <2>1. CASE S \cap Touching(x) = {}
      BY <1>3, <2>1 DEF MaxDegree
    <2>2. CASE S \cap Touching(x) # {}
      <3>1. PICK d \in S \cap Touching(x) : d \in 1 .. LastEdge /\ \A i \in S \cap Touching(x) : i <= d
        <4>1. S \cap Touching(x) \in SUBSET DOMAIN Edges
          BY <1>1
        <4>2. QED
          BY <2>2, <4>1, LastOf
      <3> DEFINE T == S \cap (1 .. d)
                 U == T \ {d}
      <3>2. d \in T /\ x \in Ends(d) /\ d \in DOMAIN Edges /\ U \in SUBSET DOMAIN Edges /\ T = U \cup {d} /\ d \notin U
        BY <1>1, <3>1 DEF Touching, Ends
      <3>3. ~TakeRefused(U, CompsOf(U), Active[d - 1], d)
        <4> HIDE DEF U
        <4>1. ~Refuses(d, T)
          BY <1>2, <3>1
        <4>2. QED
          BY <3>2, <4>1 DEF Refuses, RefusesEdge, U
      <3>4. ~(Deg(U, x) >= MaxDegree(x))
        BY <3>2, <3>3 DEF TakeRefused
      <3>5. Deg(S, x) = Deg(T, x)
        <4>1. d \in 0 .. LastEdge
          BY <3>1
        <4>2. QED
          BY <1>1, <3>1, <4>1, DegSettled
      <3> HIDE DEF T, U
      <3>6. Deg(U, x) \in Nat /\ Deg(T, x) = Deg(U, x) + 1
        BY <3>2, DegStep
      <3>7. MaxDegree(x) \in Nat
        BY DEF MaxDegree
      <3>8. QED
        BY <3>4, <3>5, <3>6, <3>7
    <2>3. QED
      BY <2>1, <2>2
  <1>5. ASSUME NEW x \in V \ Terminals PROVE Deg(S, x) # 1
    <2>1. CASE S \cap Touching(x) = {}
      BY <1>3, <2>1
    <2>2. CASE S \cap Touching(x) # {}
      <3>1. PICK d \in Touching(x) : d \in 1 .. LastEdge /\ \A i \in Touching(x) : i <= d
        <4>1. Touching(x) \in SUBSET DOMAIN Edges /\ Touching(x) # {}
          BY <2>2 DEF Touching
        <4>2. QED
          BY <4>1, LastOf
      <3>2. d \in 0 .. LastEdge /\ x \in Ends(d)
        BY <3>1 DEF Touching, Ends
      <3>3. x \notin Active[d]
        <4>1. \A i \in Touching(x) : ~(i > d)
          BY <1>1, <3>1 DEF Touching
        <4>2. QED
          BY <3>2, <4>1 DEF Active, LastEdge
      <3>4. x \in Leaves(d)
        BY <3>2, <3>3 DEF Leaves
      <3>5. Deg(S \cap (1 .. d), x) # 1
        BY <1>2, <3>1, <3>4 DEF Refuses, RefusesVertex
      <3>6. QED
        BY <1>1, <3>1, <3>2, <3>5, DegSettled
    <2>3. QED
      BY <2>1, <2>2
  <1>6. ASSUME NEW C \in CompsOf(S) PROVE Terminals \subseteq C
    <2>1. Components(S, CompsOf(S))
      BY <1>1, CompsOfRight
    <2>2. C \subseteq V /\ C # {}
      BY <2>1 DEF Components
    <2>3. \A x \in C : \E i \in S : x \in Ends(i)
      BY <2>1 DEF Components
    <2> DEFINE I == {i \in DOMAIN Edges : Ends(i) \cap C # {}}
    <2>4. PICK d \in I : d \in 1 .. LastEdge /\ \A i \in I : i <= d
      <3>1. I # {}
        BY <1>1, <2>2, <2>3
      <3>2. I \in SUBSET DOMAIN Edges
        OBVIOUS
      <3> HIDE DEF I
      <3>3. QED
        BY <3>1, <3>2, LastOf
    <2> DEFINE T == S \cap (1 .. d)
    <2>5. C \in CompsOf(T)
      <3>1. \A i \in S : Ends(i) \cap C # {} => i \in T
        BY <1>1, <2>4
      <3>2. T \in SUBSET S
        OBVIOUS
      <3> HIDE DEF T
      <3>3. QED
        BY <1>1, <2>2, <3>1, <3>2, ComponentSettled
    <2>6. C \cap Active[d] = {}
      <3>1. ASSUME NEW x \in C, NEW i \in Touching(x) PROVE ~(i > d)
        <4>1. i \in I
          BY DEF Touching, Ends
        <4>2. QED
          BY <1>1, <2>4, <4>1
      <3>2. d \in 0 .. Len(Edges)
        BY <2>4 DEF LastEdge
      <3>3. QED
        BY <3>1, <3>2 DEF Active
    <2>7. C \cap (Active[d - 1] \cup Ends(d)) # {}
      BY <2>4
    <2>8. ~RefusesComponent(d, T)
      BY <1>2, <2>4 DEF Refuses
    <2> HIDE DEF T, I
    <2>9. C \cap Terminals = Terminals
      BY <2>5, <2>6, <2>7, <2>8 DEF RefusesComponent
    <2>10. QED
      BY <2>9
  <1>7. QED
    BY <1>1, <1>4, <1>5, <1>6

-----------------------------------------------------------------------------
(***************************************************************************)
(* These choices are the paths: the edges of one are those of a single     *)
(* trail from corner to corner (WholeIsPath), and no step refuses the      *)
(* edges of a path (PathIsWhole).                                          *)
(***************************************************************************)
\* The sequences of different vertices from the first corner on that follow edges of S; those that
\* end in the other corner; the edges such a sequence follows.
Trails(S) == {p \in Seq(V) : /\ p # <<>> /\ p[1] = Start /\ NoRepeats(p)
                             /\ \A j \in 1 .. Len(p) - 1 : \E i \in S : Ends(i) = {p[j], p[j + 1]}}
NumberPaths == {p \in Trails(DOMAIN Edges) : p[Len(p)] = Target}

EdgeAt(p, j) == CHOOSE i \in DOMAIN Edges : Ends(i) = {p[j], p[j + 1]}
EdgeSet(p) == {i \in DOMAIN Edges : \E j \in 1 .. Len(p) - 1 : Ends(i) = {p[j], p[j + 1]}}

\* The edges at x, in S.
LEMMA AtVertex ==
  ASSUME NEW S \in SUBSET DOMAIN Edges, NEW x
  PROVE  IsFiniteSet(S \cap Touching(x)) /\ \A i \in S : i \in Touching(x) <=> x \in Ends(i)
  <1>1. IsFiniteSet(S)
    BY LastType, FS_Interval, FS_Subset
  <1>2. QED
    BY <1>1, FS_Subset DEF Touching, Ends

\* The edges a trail follows are different, and each touches two of its vertices.
LEMMA TrailEdges ==
  ASSUME NEW S \in SUBSET DOMAIN Edges, NEW p \in Trails(S)
  PROVE  /\ p \in Seq(V) /\ Len(p) \in Nat \ {0} /\ DOMAIN p = 1 .. Len(p) /\ p[1] = Start /\ NoRepeats(p)
         /\ \A j \in 1 .. Len(p) - 1 : /\ EdgeAt(p, j) \in S /\ Ends(EdgeAt(p, j)) = {p[j], p[j + 1]}
                                       /\ j \in 1 .. Len(p) /\ j + 1 \in 1 .. Len(p)
                                       /\ \A i \in DOMAIN Edges : Ends(i) = {p[j], p[j + 1]} => i = EdgeAt(p, j)
         /\ EdgeSet(p) = {EdgeAt(p, j) : j \in 1 .. Len(p) - 1}
         /\ \A j \in 1 .. Len(p) - 1, k \in 1 .. Len(p) : p[k] \in Ends(EdgeAt(p, j)) => k = j \/ k = j + 1
         /\ \A j, k \in 1 .. Len(p) - 1 : EdgeAt(p, j) = EdgeAt(p, k) => j = k
  <1>1. p \in Seq(V) /\ Len(p) \in Nat \ {0} /\ DOMAIN p = 1 .. Len(p) /\ p[1] = Start /\ NoRepeats(p)
    BY DEF Trails
  <1>2. ASSUME NEW j \in 1 .. Len(p) - 1
        PROVE  /\ EdgeAt(p, j) \in S /\ Ends(EdgeAt(p, j)) = {p[j], p[j + 1]}
               /\ j \in 1 .. Len(p) /\ j + 1 \in 1 .. Len(p)
               /\ \A i \in DOMAIN Edges : Ends(i) = {p[j], p[j + 1]} => i = EdgeAt(p, j)
    <2>1. PICK i \in S : Ends(i) = {p[j], p[j + 1]}
      BY DEF Trails
    <2>2. EdgeAt(p, j) \in DOMAIN Edges /\ Ends(EdgeAt(p, j)) = {p[j], p[j + 1]}
      BY <2>1 DEF EdgeAt
    <2>3. \A k \in DOMAIN Edges : Ends(k) = {p[j], p[j + 1]} => k = EdgeAt(p, j)
      BY <2>2, EndsOnce
    <2>4. j \in 1 .. Len(p) /\ j + 1 \in 1 .. Len(p)
      BY <1>1
    <2>5. EdgeAt(p, j) \in S
      BY <2>1, <2>3
    <2>6. QED
      BY <2>2, <2>3, <2>4, <2>5
  <1>3. EdgeSet(p) = {EdgeAt(p, j) : j \in 1 .. Len(p) - 1}
    <2>1. ASSUME NEW i \in EdgeSet(p) PROVE i \in {EdgeAt(p, j) : j \in 1 .. Len(p) - 1}
      BY <1>2 DEF EdgeSet
    <2>2. ASSUME NEW j \in 1 .. Len(p) - 1 PROVE EdgeAt(p, j) \in EdgeSet(p)
      BY <1>2 DEF EdgeSet
    <2>3. QED
      BY <2>1, <2>2
  <1>4. ASSUME NEW j \in 1 .. Len(p) - 1, NEW k \in 1 .. Len(p), p[k] \in Ends(EdgeAt(p, j))
        PROVE  k = j \/ k = j + 1
    <2>1. p[k] = p[j] \/ p[k] = p[j + 1]
      BY <1>2, <1>4
    <2>2. QED
      BY <1>1, <1>2, <2>1 DEF NoRepeats
  <1>5. ASSUME NEW j \in 1 .. Len(p) - 1, NEW k \in 1 .. Len(p) - 1, EdgeAt(p, j) = EdgeAt(p, k)
        PROVE  j = k
    <2>1. p[j] \in Ends(EdgeAt(p, k)) /\ p[k] \in Ends(EdgeAt(p, j))
      BY <1>2, <1>5
    <2>2. (j = k \/ j = k + 1) /\ (k = j \/ k = j + 1)
      BY <1>2, <1>4, <2>1
    <2>3. QED
      BY <2>2
  <1>6. QED
    BY <1>1, <1>2, <1>3, <1>4, <1>5

\* A trail is made longer by an edge to a vertex it has not visited.
LEMMA TrailGrows ==
  ASSUME NEW S \in SUBSET DOMAIN Edges, NEW p \in Trails(S), NEW z \in V, NEW i \in S,
         Ends(i) = {p[Len(p)], z}, \A k \in 1 .. Len(p) : p[k] # z
  PROVE  \E q \in Trails(S) : Len(q) = Len(p) + 1
  <1> DEFINE q == Append(p, z)
             n == Len(p)
  <1>1. p \in Seq(V) /\ n \in Nat \ {0} /\ DOMAIN p = 1 .. n /\ p[1] = Start /\ NoRepeats(p)
    BY TrailEdges
  <1>2. /\ q \in Seq(V) /\ Len(q) = n + 1 /\ DOMAIN q = 1 .. n + 1
        /\ \A k \in 1 .. n : q[k] = p[k]
        /\ q[n + 1] = z
    BY <1>1
  <1> HIDE DEF q, n
  <1>3. q # <<>> /\ q[1] = Start
    BY <1>1, <1>2
  <1>4. NoRepeats(q)
    <2>1. ASSUME NEW j \in 1 .. n + 1, NEW k \in 1 .. n + 1, q[j] = q[k] PROVE j = k
      <3>1. j \in 1 .. n \/ j = n + 1
        BY <1>1
      <3>2. k \in 1 .. n \/ k = n + 1
        BY <1>1
      <3>3. QED
        BY <1>1, <1>2, <2>1, <3>1, <3>2 DEF NoRepeats, n
    <2>2. QED
      BY <1>2, <2>1 DEF NoRepeats
  <1>5. ASSUME NEW j \in 1 .. (n + 1) - 1 PROVE \E l \in S : Ends(l) = {q[j], q[j + 1]}
    <2>1. CASE j = n
      <3>1. q[j] = p[n] /\ q[j + 1] = z
        BY <1>1, <1>2, <2>1
      <3>2. QED
        BY <3>1 DEF n
    <2>2. CASE j # n
      <3>1. j \in 1 .. n - 1 /\ j \in 1 .. n /\ j + 1 \in 1 .. n
        BY <1>1, <2>2
      <3>2. PICK l \in S : Ends(l) = {p[j], p[j + 1]}
        BY <3>1 DEF Trails, n
      <3>3. QED
        BY <1>2, <3>1, <3>2
    <2>3. QED
      BY <2>1, <2>2
  <1>6. q \in Trails(S)
    BY <1>2, <1>3, <1>4, <1>5 DEF Trails
  <1>7. QED
    BY <1>2, <1>6 DEF n

\* There is a longest trail.
LEMMA LongestTrail ==
  ASSUME NEW S \in SUBSET DOMAIN Edges
  PROVE  \E p \in Trails(S) : \A q \in Trails(S) : Len(q) <= Len(p)
  <1> DEFINE L == {Len(p) : p \in Trails(S)}
             n == Cardinality(V)
  <1>1. IsFiniteSet(V) /\ n \in Nat
    <2>1. W * W - 1 \in Int
      BY WAssumption
    <2>2. QED
      BY <2>1, FS_Interval, FS_CardinalityType DEF V
  <1>2. ASSUME NEW p \in Trails(S) PROVE Len(p) \in 0 .. n
    <2> DEFINE m == Len(p)
    <2>1. p \in [1 .. m -> V] /\ m \in Nat /\ \A j, k \in 1 .. m : p[j] = p[k] => j = k
      BY TrailEdges DEF NoRepeats
    <2> HIDE DEF m
    <2>2. p \in Injection(1 .. m, V)
      BY <2>1 DEF Injection, IsInjective
    <2>3. Cardinality(1 .. m) <= n /\ IsFiniteSet(1 .. m)
      BY <1>1, <2>2, FS_Injection
    <2>4. Cardinality(1 .. m) = m
      BY <2>1, FS_Interval
    <2>5. QED
      BY <1>1, <2>1, <2>3, <2>4 DEF m
  <1>3. <<Start>> \in Trails(S)
    <2>1. Start \in V
      BY WAssumption DEF Start, V
    <2>2. <<Start>> \in Seq(V) /\ <<Start>> # <<>> /\ <<Start>>[1] = Start /\ Len(<<Start>>) = 1 /\ DOMAIN <<Start>> = 1 .. 1
      BY <2>1
    <2>3. NoRepeats(<<Start>>)
      BY <2>2 DEF NoRepeats
    <2>4. 1 .. Len(<<Start>>) - 1 = {}
      BY <2>2
    <2>5. QED
      BY <2>2, <2>3, <2>4 DEF Trails
  <1>4. L \in SUBSET (0 .. n) /\ L # {}
    BY <1>2, <1>3
  <1> HIDE DEF L, n
  <1>5. Max(L) \in L /\ \A x \in L : x <= Max(L)
    BY <1>1, <1>4, NatMax
  <1>6. QED
    BY <1>5 DEF L

-----------------------------------------------------------------------------
\* The grid has two different corners.
LEMMA TerminalsType == Start \in V /\ Target \in V /\ Start # Target /\ Terminals = {Start, Target}
  <1>1. W \in Nat /\ W > 1 /\ W * W \in Nat /\ W * W > 1
    BY WAssumption
  <1>2. QED
    BY <1>1 DEF Start, Target, V, Terminals

(***************************************************************************)
(* A choice that is counted is one path: the longest trail along its edges *)
(* can only end in the other corner, no chosen edge leaves it, and nothing *)
(* else is chosen, as every component holds both corners.                  *)
(***************************************************************************)
LEMMA ShapeIsPath ==
  ASSUME NEW S \in SUBSET DOMAIN Edges,
         \A x \in V : Deg(S, x) \in Nat /\ Deg(S, x) <= MaxDegree(x),
         \A x \in V \ Terminals : Deg(S, x) # 1,
         \A C \in CompsOf(S) : Terminals \subseteq C,
         CompsOf(S) # {}
  PROVE  \E p \in NumberPaths : EdgeSet(p) = S
  <1>1. /\ S \in SUBSET DOMAIN Edges
        /\ \A x \in V : Deg(S, x) \in Nat /\ Deg(S, x) <= MaxDegree(x)
        /\ \A x \in V \ Terminals : Deg(S, x) # 1
        /\ \A C \in CompsOf(S) : Terminals \subseteq C
        /\ CompsOf(S) # {}
    OBVIOUS
  <1>2. Components(S, CompsOf(S))
    BY <1>1, CompsOfRight
  <1>3. PICK C \in CompsOf(S) : TRUE
    BY <1>1
  <1>4. PICK p \in Trails(S) : \A q \in Trails(S) : Len(q) <= Len(p)
    BY <1>1, LongestTrail
  <1> DEFINE n == Len(p)
             E(j) == EdgeAt(p, j)
             I(x) == S \cap Touching(x)
  <1>5. p \in Seq(V) /\ n \in Nat \ {0} /\ DOMAIN p = 1 .. n /\ p[1] = Start /\ NoRepeats(p)
    BY <1>1, TrailEdges
  <1>5a. n \in Int /\ n >= 1
    BY <1>5
  <1>6. \A j \in 1 .. n - 1 : /\ E(j) \in S /\ Ends(E(j)) = {p[j], p[j + 1]}
                              /\ j \in 1 .. n /\ j + 1 \in 1 .. n
                              /\ \A i \in DOMAIN Edges : Ends(i) = {p[j], p[j + 1]} => i = E(j)
    BY <1>1, TrailEdges
  <1>7. \A j, k \in 1 .. n - 1 : E(j) = E(k) => j = k
    BY <1>1, TrailEdges
  <1> HIDE DEF E
  <1>8. ASSUME NEW x \in V
        PROVE  IsFiniteSet(I(x)) /\ Cardinality(I(x)) <= MaxDegree(x) /\ (x \notin Terminals => Cardinality(I(x)) # 1)
    BY <1>1, AtVertex DEF Deg
  <1>9. \A x : \A i \in S : i \in I(x) <=> x \in Ends(i)
    BY <1>1, AtVertex
  <1>10. \A k \in 1 .. n : p[k] \in V
    BY <1>5
  <1>11. Start \in V /\ Target \in V /\ Start # Target /\ Terminals = {Start, Target}
    BY TerminalsType
  <1> HIDE DEF I
  \* At a vertex inside the trail there is no other edge.
  <1>12. ASSUME NEW k \in 1 .. n - 1, NEW i \in S, p[k] \in Ends(i)
         PROVE  \E j \in 1 .. n - 1 : i = E(j) /\ (j = k \/ j + 1 = k)
    <2>1. k \in 1 .. n /\ E(k) \in I(p[k]) /\ i \in I(p[k]) /\ p[k] \in V
      BY <1>6, <1>9, <1>10, <1>12
    <2>2. CASE k = 1
      <3>1. Cardinality(I(p[k])) <= 1
        BY <1>5, <1>8, <1>11, <2>1, <2>2 DEF MaxDegree
      <3>2. i = E(k)
        BY <1>8, <2>1, <3>1, AtMost1
      <3>3. QED
        BY <3>2
    <2>3. CASE k # 1
      <3>1. k - 1 \in 1 .. n - 1 /\ k - 1 # k /\ (k - 1) + 1 = k
        BY <1>5, <2>3
      <3>2. E(k - 1) \in I(p[k])
        BY <1>6, <1>9, <3>1
      <3>3. E(k - 1) # E(k)
        BY <1>7, <3>1
      <3>4. Cardinality(I(p[k])) <= 2
        <4>1. Cardinality(I(p[k])) \in Nat
          BY <1>8, <2>1, FS_CardinalityType
        <4>2. QED
          BY <1>8, <2>1, <4>1 DEF MaxDegree
      <3>5. i = E(k - 1) \/ i = E(k)
        BY <1>8, <2>1, <3>2, <3>3, <3>4, AtMost2
      <3>6. QED
        BY <3>1, <3>5
    <2>4. QED
      BY <2>2, <2>3
  \* An edge at the last vertex leads back, or to the last but one.
  <1>13. ASSUME NEW i \in S, p[n] \in Ends(i), \A j \in 1 .. n - 1 : i # E(j)
         PROVE  FALSE
    <2>1. PICK z \in V : Ends(i) = {p[n], z} /\ z # p[n]
      <3>1. Ends(i) = {Edges[i][1], Edges[i][2]} /\ Ends(i) \subseteq V /\ Edges[i][1] # Edges[i][2]
        BY <1>1, EndsOnce DEF Ends
      <3>2. QED
        BY <1>13, <3>1
    <2>2. ASSUME NEW k \in 1 .. n, p[k] = z PROVE FALSE
      <3>1. k \in 1 .. n - 1
        BY <1>5, <2>1, <2>2
      <3>2. QED
        BY <1>12, <1>13, <2>1, <2>2, <3>1
    <2>3. \E q \in Trails(S) : Len(q) = Len(p) + 1
      BY <1>1, <2>1, <2>2, TrailGrows
    <2>4. QED
      BY <1>4, <1>5, <2>3
  <1>14. n # 1
    <2>1. SUFFICES ASSUME n = 1 PROVE FALSE
      OBVIOUS
    <2>2. Start \in C
      BY <1>1, <1>3, <1>11
    <2>3. PICK i \in S : Start \in Ends(i)
      BY <1>2, <1>3, <2>2 DEF Components
    <2>4. 1 .. n - 1 = {} /\ p[n] \in Ends(i)
      BY <1>5, <2>1, <2>3
    <2>5. QED
      BY <1>13, <2>4
  <1>15. n - 1 \in 1 .. n - 1 /\ (n - 1) + 1 = n
    BY <1>5, <1>14
  <1>16. p[n] = Target
    <2>1. SUFFICES ASSUME p[n] # Target PROVE FALSE
      OBVIOUS
    <2>2. p[n] \notin Terminals /\ p[n] \in V
      BY <1>5, <1>10, <1>11, <1>14, <2>1 DEF NoRepeats
    <2>3. E(n - 1) \in I(p[n])
      BY <1>6, <1>9, <1>15
    <2>4. PICK i \in I(p[n]) : i # E(n - 1)
      BY <1>8, <2>2, <2>3, AnotherOne
    <2>5. i \in S /\ p[n] \in Ends(i)
      BY <1>9 DEF I
    <2>6. PICK j \in 1 .. n - 1 : i = E(j)
      BY <1>13, <2>5
    <2>7. j = n - 1
      <3>1. p[n] = p[j] \/ p[n] = p[j + 1]
        BY <1>6, <2>5, <2>6
      <3>2. j \in 1 .. n /\ j + 1 \in 1 .. n /\ n \in 1 .. n
        BY <1>5, <1>6
      <3>3. n = j \/ n = j + 1
        BY <1>5, <3>1, <3>2 DEF NoRepeats
      <3>4. QED
        BY <1>5a, <3>3
    <2>8. QED
      BY <2>4, <2>6, <2>7
  \* So every chosen edge that touches the trail belongs to it.
  <1>17. ASSUME NEW k \in 1 .. n, NEW i \in S, p[k] \in Ends(i)
         PROVE  \E j \in 1 .. n - 1 : i = E(j)
    <2>1. CASE k = n
      BY <1>13, <1>17, <2>1
    <2>2. CASE k # n
      <3>1. k \in 1 .. n - 1
        BY <1>5a, <2>2
      <3>2. QED
        BY <1>12, <1>17, <3>1
    <2>3. QED
      BY <2>1, <2>2
  <1> DEFINE R == {p[k] : k \in 1 .. n}
  <1>18. Sealed(S, R)
    <2>1. ASSUME NEW i \in S, Ends(i) \cap R # {} PROVE Ends(i) \subseteq R
      <3>1. PICK k \in 1 .. n : p[k] \in Ends(i)
        BY <2>1
      <3>2. PICK j \in 1 .. n - 1 : i = E(j)
        BY <1>17, <3>1
      <3>3. QED
        BY <1>6, <3>2
    <2> HIDE DEF R
    <2>2. QED
      BY <2>1 DEF Sealed, Ends
  <1>19. C \subseteq R
    <2>1. Start \in C /\ Start \in R
      BY <1>1, <1>3, <1>5, <1>11
    <2>2. Sealed(S, C)
      BY <1>2, <1>3, ComponentClosed
    <2> HIDE DEF R
    <2>3. Sealed(S, C \cap R)
      BY <1>18, <2>2 DEF Sealed
    <2>4. \A D \in SUBSET C : D # {} /\ Sealed(S, D) => D = C
      BY <1>2, <1>3 DEF Components
    <2>5. C \cap R = C
      BY <2>1, <2>3, <2>4
    <2>6. QED
      BY <2>5
  <1>20. ASSUME NEW i \in S PROVE \E j \in 1 .. n - 1 : i = E(j)
    <2>1. PICK D \in CompsOf(S) : Ends(i) \subseteq D
      BY <1>2 DEF Components
    <2>2. D \cap C # {}
      BY <1>1, <1>3, <1>11
    <2>3. D = C
      BY <1>2, <1>3, <2>2 DEF Components
    <2>4. Edges[i][1] \in R
      BY <1>19, <2>1, <2>3 DEF Ends
    <2>5. PICK k \in 1 .. n : p[k] = Edges[i][1]
      BY <2>4
    <2>6. p[k] \in Ends(i)
      BY <2>5 DEF Ends
    <2>7. QED
      BY <1>17, <2>6
  <1>21. EdgeSet(p) = S
    <2>1. EdgeSet(p) = {E(j) : j \in 1 .. n - 1}
      BY <1>1, TrailEdges DEF E
    <2>2. QED
      BY <1>6, <1>20, <2>1
  <1>22. p \in NumberPaths
    <2>1. \A j \in 1 .. Len(p) - 1 : \E i \in DOMAIN Edges : Ends(i) = {p[j], p[j + 1]}
      BY <1>1, <1>6
    <2>2. p \in Trails(DOMAIN Edges)
      BY <1>5, <2>1 DEF Trails
    <2>3. QED
      BY <1>16, <2>2 DEF NumberPaths
  <1>23. QED
    BY <1>21, <1>22

\* So the edge sets that the program ends with are paths.
LEMMA WholeIsPath ==
  ASSUME NEW S \in Wholes
  PROVE  \E p \in NumberPaths : EdgeSet(p) = S
  <1>1. /\ S \in SUBSET DOMAIN Edges
        /\ \A x \in V : Deg(S, x) \in Nat /\ Deg(S, x) <= MaxDegree(x)
        /\ \A x \in V \ Terminals : Deg(S, x) # 1
        /\ \A C \in CompsOf(S) : Terminals \subseteq C
        /\ CompsOf(S) # {}
    BY AliveShape DEF Wholes
  <1>2. QED
    BY <1>1, ShapeIsPath

-----------------------------------------------------------------------------
\* The degrees of a path.
LEMMA PathDegrees ==
  ASSUME NEW p \in NumberPaths
  PROVE  /\ EdgeSet(p) \in SUBSET DOMAIN Edges /\ EdgeSet(p) # {}
         /\ \A x \in V : Deg(EdgeSet(p), x) \in Nat /\ Deg(EdgeSet(p), x) <= MaxDegree(x)
         /\ \A x \in Terminals : Deg(EdgeSet(p), x) = 1
         /\ \A x \in V \ Terminals : Deg(EdgeSet(p), x) # 1
  <1> DEFINE S == EdgeSet(p)
             n == Len(p)
             E(j) == EdgeAt(p, j)
             I(x) == S \cap Touching(x)
  <1>1. p \in Trails(DOMAIN Edges) /\ p[n] = Target
    BY DEF NumberPaths
  <1>2. p \in Seq(V) /\ n \in Nat \ {0} /\ DOMAIN p = 1 .. n /\ p[1] = Start /\ NoRepeats(p)
    BY <1>1, TrailEdges
  <1>2a. n \in Int /\ n >= 1
    BY <1>2
  <1>3. \A j \in 1 .. n - 1 : /\ E(j) \in DOMAIN Edges /\ Ends(E(j)) = {p[j], p[j + 1]}
                              /\ j \in 1 .. n /\ j + 1 \in 1 .. n
    BY <1>1, TrailEdges
  <1>4. \A j, k \in 1 .. n - 1 : E(j) = E(k) => j = k
    BY <1>1, TrailEdges
  <1>5. S = {E(j) : j \in 1 .. n - 1}
    BY <1>1, TrailEdges
  <1>6. \A j \in 1 .. n - 1, k \in 1 .. n : p[k] \in Ends(E(j)) => k = j \/ k = j + 1
    BY <1>1, TrailEdges
  <1>7. Start \in V /\ Target \in V /\ Start # Target /\ Terminals = {Start, Target}
    BY TerminalsType
  <1> HIDE DEF E, S
  <1>8. S \in SUBSET DOMAIN Edges
    BY <1>3, <1>5
  <1>9. \A x : \A i \in S : i \in I(x) <=> x \in Ends(i)
    BY <1>8, AtVertex
  <1>10. \A x : I(x) \subseteq S
    OBVIOUS
  <1> HIDE DEF I
  <1>11. n # 1 /\ 1 \in 1 .. n - 1 /\ n - 1 \in 1 .. n - 1 /\ (n - 1) + 1 = n /\ 1 \in 1 .. n /\ n \in 1 .. n
    <2>1. n # 1
      BY <1>1, <1>2, <1>7
    <2>2. QED
      BY <1>2, <2>1
  <1>12. I(Start) = {E(1)}
    <2>1. E(1) \in I(Start)
      BY <1>2, <1>3, <1>5, <1>9, <1>11
    <2>2. ASSUME NEW i \in I(Start) PROVE i = E(1)
      <3>1. PICK j \in 1 .. n - 1 : i = E(j)
        BY <1>5, <1>10
      <3>2. p[1] \in Ends(E(j))
        BY <1>2, <1>9, <1>10, <3>1
      <3>3. 1 = j \/ 1 = j + 1
        BY <1>6, <1>11, <3>2
      <3>4. j = 1
        BY <1>2, <3>3
      <3>5. QED
        BY <3>1, <3>4
    <2>3. QED
      BY <2>1, <2>2
  <1>13. I(Target) = {E(n - 1)}
    <2>1. E(n - 1) \in I(Target)
      BY <1>1, <1>3, <1>5, <1>9, <1>11
    <2>2. ASSUME NEW i \in I(Target) PROVE i = E(n - 1)
      <3>1. PICK j \in 1 .. n - 1 : i = E(j)
        BY <1>5, <1>10
      <3>2. p[n] \in Ends(E(j))
        BY <1>1, <1>9, <1>10, <3>1
      <3>3. n = j \/ n = j + 1
        BY <1>6, <1>11, <3>2
      <3>4. j = n - 1
        BY <1>2a, <3>3
      <3>5. QED
        BY <3>1, <3>4
    <2>3. QED
      BY <2>1, <2>2
  <1>14. ASSUME NEW x \in V \ Terminals
         PROVE  Cardinality(I(x)) = 0 \/ Cardinality(I(x)) = 2
    <2>1. CASE \A k \in 1 .. n : p[k] # x
      <3>1. I(x) = {}
        BY <1>3, <1>5, <1>9, <1>10, <2>1
      <3>2. QED
        BY <3>1, FS_EmptySet
    <2>2. CASE \E k \in 1 .. n : p[k] = x
      <3>1. PICK k \in 1 .. n : p[k] = x
        BY <2>2
      <3>2. k # 1 /\ k # n
        BY <1>1, <1>2, <1>7, <3>1
      <3>3. k - 1 \in 1 .. n - 1 /\ k \in 1 .. n - 1 /\ (k - 1) + 1 = k /\ k - 1 # k
        BY <1>2a, <3>2
      <3>4. E(k - 1) \in I(x) /\ E(k) \in I(x) /\ E(k - 1) # E(k)
        <4>1. x \in Ends(E(k - 1)) /\ x \in Ends(E(k))
          BY <1>3, <3>1, <3>3
        <4>2. E(k - 1) \in S /\ E(k) \in S
          BY <1>5, <3>3
        <4>3. QED
          BY <1>4, <1>9, <3>3, <4>1, <4>2
      <3>5. ASSUME NEW i \in I(x) PROVE i = E(k - 1) \/ i = E(k)
        <4>1. PICK j \in 1 .. n - 1 : i = E(j)
          BY <1>5, <1>10
        <4>2. p[k] \in Ends(E(j))
          BY <1>9, <1>10, <3>1, <4>1
        <4>3. k = j \/ k = j + 1
          BY <1>6, <4>2
        <4>4. j = k \/ j = k - 1
          BY <1>2, <3>3, <4>3
        <4>5. QED
          BY <4>1, <4>4
      <3>6. I(x) = {E(k - 1)} \cup {E(k)}
        BY <3>4, <3>5
      <3>7. Cardinality({E(k - 1)} \cup {E(k)}) = 2
        <4>1. IsFiniteSet({E(k - 1)}) /\ Cardinality({E(k - 1)}) = 1 /\ E(k) \notin {E(k - 1)}
          BY <3>4, FS_Singleton
        <4>2. Cardinality({E(k - 1)} \cup {E(k)}) = 1 + 1
          BY <4>1, FS_AddElement
        <4>3. QED
          BY <4>2
      <3>8. QED
        BY <3>6, <3>7
    <2>3. QED
      BY <2>1, <2>2
  <1>15. Cardinality(I(Start)) = 1 /\ Cardinality(I(Target)) = 1
    BY <1>12, <1>13, FS_Singleton
  <1>16. S # {}
    BY <1>5, <1>11
  <1>17. \A x : Deg(S, x) = Cardinality(I(x))
    BY DEF Deg, I
  <1>18. ASSUME NEW x \in V PROVE Deg(S, x) \in Nat /\ Deg(S, x) <= MaxDegree(x)
    <2>1. CASE x \in Terminals
      BY <1>7, <1>15, <1>17, <2>1 DEF MaxDegree
    <2>2. CASE x \notin Terminals
      <3>1. MaxDegree(x) = 2
        BY <1>7, <2>2 DEF MaxDegree
      <3>2. QED
        BY <1>14, <1>17, <2>2, <3>1
    <2>3. QED
      BY <2>1, <2>2
  <1>19. \A x \in Terminals : Deg(S, x) = 1
    BY <1>7, <1>15, <1>17
  <1>20. ASSUME NEW x \in V \ Terminals PROVE Deg(S, x) # 1
    BY <1>14, <1>17
  <1>21. QED
    BY <1>8, <1>16, <1>18, <1>19, <1>20 DEF S

-----------------------------------------------------------------------------
\* A set no edge of a path leaves holds the whole path or none of it.
LEMMA PathInside ==
  ASSUME NEW p \in NumberPaths, NEW C, Sealed(EdgeSet(p), C), NEW k \in 1 .. Len(p), p[k] \in C
  PROVE  \A j \in 1 .. Len(p) : p[j] \in C
  <1> DEFINE n == Len(p)
             Up == {j \in Nat : j \in k .. n /\ p[j] \notin C}
             Down == {j \in Nat : k - j \in 1 .. k /\ p[k - j] \notin C}
  <1>1. p \in Trails(DOMAIN Edges) /\ n \in Nat
    <2>1. p \in Trails(DOMAIN Edges)
      BY DEF NumberPaths
    <2>2. QED
      BY <2>1, TrailEdges
  <1>2. ASSUME NEW j \in 1 .. n - 1 PROVE p[j] \in C <=> p[j + 1] \in C
    <2>1. PICK i \in DOMAIN Edges : Ends(i) = {p[j], p[j + 1]}
      BY <1>1 DEF Trails
    <2>2. i \in EdgeSet(p)
      BY <2>1 DEF EdgeSet
    <2>3. Edges[i][1] \in C <=> Edges[i][2] \in C
      BY <2>2 DEF Sealed
    <2>4. QED
      BY <2>1, <2>3 DEF Ends
  <1> HIDE DEF n
  <1>3. k \in 1 .. n /\ k \in Int /\ n \in Int
    BY <1>1 DEF n
  <1>4. Up = {}
    <2>1. SUFFICES ASSUME Up # {} PROVE FALSE
      OBVIOUS
    <2>2. PICK j \in Up : \A l \in Up : j <= l
      <3>1. Up \in SUBSET Nat
        OBVIOUS
      <3> HIDE DEF Up
      <3>2. QED
        BY <2>1, <3>1, NatMin
    <2>3. j \in Nat /\ j \in k .. n /\ p[j] \notin C /\ j # k
      OBVIOUS
    <2>4. j - 1 \in 1 .. n - 1 /\ j - 1 \in Nat /\ j - 1 \in k .. n /\ (j - 1) + 1 = j /\ ~(j <= j - 1)
      BY <1>3, <2>3
    <2>5. p[j - 1] \in C
      BY <2>2, <2>4
    <2>6. QED
      BY <1>2, <2>3, <2>4, <2>5
  <1>5. Down = {}
    <2>1. SUFFICES ASSUME Down # {} PROVE FALSE
      OBVIOUS
    <2>2. PICK j \in Down : \A l \in Down : j <= l
      <3>1. Down \in SUBSET Nat
        OBVIOUS
      <3> HIDE DEF Down
      <3>2. QED
        BY <2>1, <3>1, NatMin
    <2>3. j \in Nat /\ k - j \in 1 .. k /\ p[k - j] \notin C
      OBVIOUS
    <2>4. j # 0
      BY <1>3, <2>3
    <2> DEFINE m == k - j
    <2>5. /\ m \in 1 .. n - 1 /\ m + 1 = k - (j - 1) /\ j - 1 \in Nat /\ k - (j - 1) \in 1 .. k /\ ~(j <= j - 1)
      BY <1>3, <2>3, <2>4
    <2>6. p[k - (j - 1)] \in C
      BY <2>2, <2>5
    <2>7. p[m] \notin C
      BY <2>3
    <2> HIDE DEF m
    <2>8. p[m + 1] \in C
      BY <2>5, <2>6
    <2>9. QED
      BY <1>2, <2>5, <2>7, <2>8
  <1>6. ASSUME NEW j \in 1 .. n PROVE p[j] \in C
    <2>1. CASE j >= k
      <3>1. j \in Nat /\ j \in k .. n
        BY <1>3, <2>1
      <3>2. QED
        BY <1>4, <3>1
    <2>2. CASE ~(j >= k)
      <3>1. k - j \in Nat /\ k - (k - j) = j /\ j \in 1 .. k
        BY <1>3, <2>2
      <3>2. QED
        BY <1>5, <3>1
    <2>3. QED
      BY <2>1, <2>2
  <1>7. QED
    BY <1>6 DEF n

\* The part of a path's edges on one side of one of its edges touches nothing of the other side.
LEMMA PathCut ==
  ASSUME NEW p \in NumberPaths, NEW T \in SUBSET EdgeSet(p), NEW e \in EdgeSet(p), e \notin T,
         NEW C, Sealed(T, C), Ends(e) \subseteq C
  PROVE  \E D \in SUBSET C : D # {} /\ D # C /\ Sealed(T, D)
  <1> DEFINE n == Len(p)
             E(j) == EdgeAt(p, j)
  <1>1. p \in Trails(DOMAIN Edges)
    BY DEF NumberPaths
  <1>2. n \in Nat \ {0} /\ DOMAIN p = 1 .. n /\ NoRepeats(p)
    BY <1>1, TrailEdges
  <1>3. \A j \in 1 .. n - 1 : Ends(E(j)) = {p[j], p[j + 1]} /\ j \in 1 .. n /\ j + 1 \in 1 .. n
    BY <1>1, TrailEdges
  <1>4. EdgeSet(p) = {E(j) : j \in 1 .. n - 1}
    BY <1>1, TrailEdges
  <1> HIDE DEF E, n
  <1>5. PICK m \in 1 .. n - 1 : e = E(m)
    BY <1>4
  <1> DEFINE D == {x \in C : \E k \in 1 .. m : x = p[k]}
  <1>6. m \in Int /\ n \in Int /\ m >= 1 /\ m \in 1 .. m /\ m + 1 \notin 1 .. m
    BY <1>2
  <1>7. p[m] \in D
    BY <1>3, <1>5, <1>6
  <1>8. p[m + 1] \in C /\ p[m + 1] \notin D
    <2>1. \A k \in 1 .. m : k \in 1 .. n /\ k # m + 1
      BY <1>5, <1>6
    <2>2. m + 1 \in 1 .. n /\ p[m + 1] \in C
      BY <1>3, <1>5
    <2>3. \A k \in 1 .. m : p[k] # p[m + 1]
      BY <1>2, <2>1, <2>2 DEF NoRepeats
    <2>4. QED
      BY <2>2, <2>3
  <1>9. ASSUME NEW i \in T PROVE Edges[i][1] \in D <=> Edges[i][2] \in D
    <2>1. PICK j \in 1 .. n - 1 : i = E(j)
      BY <1>4
    <2>2. j # m
      BY <1>5, <2>1
    <2>3. Edges[i][1] \in C <=> Edges[i][2] \in C
      BY DEF Sealed
    <2>4. Ends(i) = {p[j], p[j + 1]} /\ Ends(i) = {Edges[i][1], Edges[i][2]}
      BY <1>3, <2>1 DEF Ends
    <2>5. CASE j < m
      <3>1. j \in 1 .. m /\ j + 1 \in 1 .. m
        BY <1>6, <2>5
      <3>2. \A x \in Ends(i) : \E k \in 1 .. m : x = p[k]
        BY <2>4, <3>1
      <3>3. QED
        BY <2>3, <2>4, <3>2
    <2>6. CASE ~(j < m)
      <3>1. j \in 1 .. n /\ j + 1 \in 1 .. n /\ \A k \in 1 .. m : k \in 1 .. n /\ k # j /\ k # j + 1
        BY <1>6, <1>5, <2>2, <2>6
      <3>2. \A x \in Ends(i) : ~\E k \in 1 .. m : x = p[k]
        BY <1>2, <2>4, <3>1 DEF NoRepeats
      <3>3. QED
        BY <2>4, <3>2
    <2>7. QED
      BY <2>5, <2>6
  <1>10. D \in SUBSET C /\ D # {} /\ D # C
    BY <1>7, <1>8
  <1>11. Sealed(T, D)
    BY <1>9 DEF Sealed
  <1> HIDE DEF D
  <1>12. QED
    BY <1>10, <1>11

(***************************************************************************)
(* The edges of a path are never refused: before the last of them no       *)
(* component is left, as it would hold the path, its degrees are those     *)
(* asked for, and no edge of it closes a cycle.                            *)
(***************************************************************************)
LEMMA PathIsWhole ==
  ASSUME NEW p \in NumberPaths
  PROVE  EdgeSet(p) \in Wholes
  <1> DEFINE S == EdgeSet(p)
             n == Len(p)
  <1>1. /\ S \in SUBSET DOMAIN Edges /\ S # {}
        /\ \A x \in V : Deg(S, x) \in Nat /\ Deg(S, x) <= MaxDegree(x)
        /\ \A x \in Terminals : Deg(S, x) = 1
        /\ \A x \in V \ Terminals : Deg(S, x) # 1
    BY PathDegrees
  <1>2. n \in Nat \ {0} /\ p[1] = Start /\ p[n] = Target /\ 1 \in 1 .. n /\ n \in 1 .. n
    BY DEF NumberPaths, Trails
  <1>3. LastEdge \in Nat /\ DOMAIN Edges = 1 .. LastEdge
    BY LastType
  <1>4. ASSUME NEW i \in S PROVE \E j \in 1 .. n : Ends(i) \subseteq {p[k] : k \in 1 .. n} /\ p[j] \in Ends(i)
    <2>1. PICK j \in 1 .. n - 1 : Ends(i) = {p[j], p[j + 1]}
      BY DEF EdgeSet
    <2>2. j \in 1 .. n /\ j + 1 \in 1 .. n
      BY <1>2
    <2>3. QED
      BY <2>1, <2>2
  \* A component of part of the edges that no other edge touches is the path.
  <1>5. ASSUME NEW T \in SUBSET S, NEW C \in CompsOf(T), \A i \in S : Ends(i) \cap C # {} => i \in T
        PROVE  \A j \in 1 .. n : p[j] \in C
    <2>1. Components(T, CompsOf(T)) /\ C \subseteq V /\ C # {}
      <3>1. T \in SUBSET DOMAIN Edges
        BY <1>1
      <3>2. Components(T, CompsOf(T))
        BY <3>1, CompsOfRight
      <3>3. QED
        BY <3>2 DEF Components
    <2>2. Sealed(S, C)
      BY <1>1, <1>5, <2>1, ComponentSettled
    <2>3. PICK x \in C : TRUE
      BY <2>1
    <2>4. PICK i \in T : x \in Ends(i)
      BY <2>1, <2>3 DEF Components
    <2>5. PICK j \in 1 .. n : x = p[j]
      BY <1>4, <2>4
    <2>6. QED
      BY <2>2, <2>3, <2>5, PathInside
  <1> HIDE DEF S, n
  <1>6. ASSUME NEW d \in 1 .. LastEdge, NEW x \in V, x \notin Active[d], NEW i \in Touching(x), i <= d,
               NEW j \in Touching(x)
        PROVE  j <= d
    <2>1. d \in 0 .. Len(Edges)
      BY <1>3 DEF LastEdge
    <2>2. ~(j > d)
      BY <1>6, <2>1 DEF Active
    <2>3. j \in Int /\ d \in Int
      BY <1>3 DEF Touching
    <2>4. QED
      BY <2>2, <2>3
  <1>7. ASSUME NEW d \in 0 .. LastEdge, NEW C \in CompsOf(S \cap (1 .. d)), C \cap Active[d] = {}
        PROVE  /\ \A i \in DOMAIN Edges : Ends(i) \cap C # {} => i <= d
               /\ \A j \in 1 .. n : p[j] \in C
    <2> DEFINE T == S \cap (1 .. d)
    <2>1. T \in SUBSET S /\ T \in SUBSET DOMAIN Edges
      BY <1>1
    <2> HIDE DEF T
    <2>2. Components(T, CompsOf(T)) /\ C \in CompsOf(T)
      BY <1>7, <2>1, CompsOfRight DEF T
    <2>3. ASSUME NEW j \in DOMAIN Edges, NEW x \in Ends(j), x \in C PROVE j <= d
      <3>1. PICK i \in T : x \in Ends(i)
        BY <2>2, <2>3 DEF Components
      <3>2. x \in V /\ x \notin Active[d]
        BY <1>7, <2>3, EndsOnce
      <3>3. i \in 1 .. d /\ i \in Touching(x) /\ j \in Touching(x)
        BY <2>1, <2>3, <3>1 DEF T, Touching, Ends
      <3>4. d \in 1 .. LastEdge /\ i <= d
        BY <1>3, <3>3
      <3>5. QED
        BY <1>6, <3>2, <3>3, <3>4
    <2>4. \A j \in DOMAIN Edges : Ends(j) \cap C # {} => j <= d
      BY <2>3
    <2>5. \A i \in S : Ends(i) \cap C # {} => i \in T
      BY <1>1, <1>3, <2>4 DEF T
    <2>6. \A j \in 1 .. n : p[j] \in C
      BY <1>5, <2>1, <2>2, <2>5
    <2>7. QED
      BY <2>4, <2>6
  <1>8. ASSUME NEW d \in 1 .. LastEdge PROVE ~Refuses(d, S \cap (1 .. d))
    <2> DEFINE U == S \cap (1 .. d)
               T == U \ {d}
    <2>1. d - 1 \in 0 .. LastEdge /\ d \in 0 .. LastEdge /\ T = S \cap (1 .. d - 1) /\ ~(d <= d - 1) /\ d \in DOMAIN Edges
          /\ d \notin T /\ T \in SUBSET S /\ T \in SUBSET DOMAIN Edges /\ U \in SUBSET S
      <3>1. d - 1 \in 0 .. LastEdge /\ d \in 0 .. LastEdge /\ ~(d <= d - 1) /\ d \in DOMAIN Edges
        BY <1>3
      <3>2. T = S \cap (1 .. d - 1)
        BY <1>3
      <3>3. QED
        BY <1>1, <3>1, <3>2
    <2>2. ASSUME d \in U PROVE ~TakeRefused(T, CompsOf(T), Active[d - 1], d)
      <3>1. d \in S /\ Ends(d) \subseteq V /\ S = (S \ {d}) \cup {d}
        BY <2>1, <2>2, EndsOnce
      <3>2. ASSUME NEW C \in CompsOf(T), C \cap Active[d - 1] = {} PROVE FALSE
        <4>1. /\ \A i \in DOMAIN Edges : Ends(i) \cap C # {} => i <= d - 1
              /\ \A j \in 1 .. n : p[j] \in C
          <5> HIDE DEF T, U
          <5>1. QED
            BY <1>7, <2>1, <3>2
        <4>2. PICK j \in 1 .. n : p[j] \in Ends(d)
          BY <1>4, <3>1
        <4>3. QED
          BY <2>1, <4>1, <4>2
      <3>3. ASSUME NEW x \in Ends(d), Deg(T, x) >= MaxDegree(x) PROVE FALSE
        <4>1. Deg(T, x) \in Nat /\ Deg(T \cup {d}, x) = Deg(T, x) + 1
          <5> HIDE DEF T
          <5>1. QED
            BY <2>1, DegStep
        <4>2. Deg(T \cup {d}, x) <= Deg(S, x)
          <5>1. (T \cup {d}) \cap Touching(x) \in SUBSET (S \cap Touching(x))
            BY <2>1, <3>1
          <5>2. IsFiniteSet(S \cap Touching(x))
            BY <1>1, AtVertex
          <5> HIDE DEF T
          <5>3. QED
            BY <5>1, <5>2, FS_Subset DEF Deg
        <4>3. Deg(S, x) \in Nat /\ Deg(S, x) <= MaxDegree(x) /\ MaxDegree(x) \in Nat
          BY <1>1, <3>1 DEF MaxDegree
        <4> HIDE DEF T
        <4>4. QED
          BY <3>3, <4>1, <4>2, <4>3
      <3>4. ASSUME NEW C \in CompsOf(T), Ends(d) \subseteq C PROVE FALSE
        <4> HIDE DEF T, U
        <4>1. Components(T, CompsOf(T))
          BY <2>1, CompsOfRight
        <4>2. Sealed(T, C)
          BY <4>1, ComponentClosed
        <4>3. T \in SUBSET EdgeSet(p) /\ d \in EdgeSet(p)
          BY <2>1, <3>1 DEF S
        <4>4. PICK D \in SUBSET C : D # {} /\ D # C /\ Sealed(T, D)
          <5>1. d \notin T /\ Ends(d) \subseteq C
            BY <2>1, <3>4
          <5>2. \E D \in SUBSET C : D # {} /\ D # C /\ Sealed(T, D)
            BY <4>2, <4>3, <5>1, PathCut
          <5>3. QED
            BY <5>2
        <4>5. QED
          BY <4>1, <4>4 DEF Components
      <3> HIDE DEF T
      <3>5. QED
        BY <3>2, <3>3, <3>4 DEF TakeRefused
    <2>3. ASSUME RefusesVertex(d, U) PROVE FALSE
      <3>1. PICK x \in Leaves(d) : IF x \in Terminals THEN Deg(U, x) # 1 ELSE Deg(U, x) = 1
        BY <2>3 DEF RefusesVertex
      <3>2. x \notin Active[d] /\ (x \in Active[d - 1] \/ x \in Ends(d))
        BY DEF Leaves
      <3>3. x \in V /\ \E i \in Touching(x) : i <= d
        <4>1. CASE x \in Ends(d)
          <5>1. d \in Touching(x) /\ x \in V /\ d <= d
            BY <2>1, <4>1, EndsOnce DEF Touching, Ends
          <5>2. QED
            BY <5>1
        <4>2. CASE x \in Active[d - 1]
          <5>1. d - 1 \in 0 .. Len(Edges)
            BY <2>1 DEF LastEdge
          <5>2. x \in V /\ \E i \in Touching(x) : i <= d - 1
            BY <4>2, <5>1 DEF Active
          <5>3. PICK i \in Touching(x) : i <= d - 1
            BY <5>2
          <5>4. i <= d
            BY <1>3, <5>3 DEF Touching
          <5>5. QED
            BY <5>2, <5>4
        <4>3. QED
          BY <3>2, <4>1, <4>2
      <3>4. \A j \in Touching(x) : j <= d
        BY <1>6, <3>2, <3>3
      <3>5. Deg(U, x) = Deg(S, x)
        BY <1>1, <2>1, <3>4, DegSettled
      <3> HIDE DEF U
      <3>6. QED
        BY <1>1, <3>1, <3>3, <3>5
    <2>4. ASSUME RefusesComponent(d, U) PROVE FALSE
      <3>1. PICK C \in CompsOf(U) : C \cap Active[d] = {} /\ C \cap Terminals # Terminals
        BY <2>4 DEF RefusesComponent
      <3>2. \A j \in 1 .. n : p[j] \in C
        BY <1>7, <2>1, <3>1
      <3>3. Terminals \subseteq C
        BY <1>2, <3>2, TerminalsType
      <3>4. QED
        BY <3>1, <3>3
    <2>5. QED
      BY <2>2, <2>3, <2>4 DEF Refuses, RefusesEdge
  <1>9. S \in Alive(LastEdge)
    BY <1>1, <1>3, <1>8 DEF Alive
  <1>10. CompsOf(S) # {}
    BY <1>1, CompsOfRight DEF Components
  <1>11. QED
    BY <1>9, <1>10 DEF Wholes, S

-----------------------------------------------------------------------------
\* Two paths with the same edges are the same path.
LEMMA SameEdgesSamePath ==
  ASSUME NEW p \in NumberPaths, NEW q \in NumberPaths, EdgeSet(p) = EdgeSet(q), Len(p) <= Len(q)
  PROVE  p = q
  <1> DEFINE n == Len(p)
             E(j) == EdgeAt(p, j)
             F(j) == EdgeAt(q, j)
             Bad == {m \in Nat : m \in 1 .. n /\ p[m] # q[m]}
  <1>1. p \in Trails(DOMAIN Edges) /\ q \in Trails(DOMAIN Edges) /\ p[n] = Target /\ q[Len(q)] = Target
    BY DEF NumberPaths
  <1>2. /\ p \in Seq(V) /\ n \in Nat \ {0} /\ DOMAIN p = 1 .. n /\ p[1] = Start /\ NoRepeats(p)
        /\ EdgeSet(p) = {E(j) : j \in 1 .. n - 1}
        /\ \A j \in 1 .. n - 1 : Ends(E(j)) = {p[j], p[j + 1]}
    BY <1>1, TrailEdges
  <1>3. /\ q \in Seq(V) /\ Len(q) \in Nat \ {0} /\ DOMAIN q = 1 .. Len(q) /\ q[1] = Start /\ NoRepeats(q)
        /\ EdgeSet(q) = {F(j) : j \in 1 .. Len(q) - 1}
        /\ \A j \in 1 .. Len(q) - 1 : Ends(F(j)) = {q[j], q[j + 1]}
        /\ \A j \in 1 .. Len(q) - 1, k \in 1 .. Len(q) : q[k] \in Ends(F(j)) => k = j \/ k = j + 1
    BY <1>1, TrailEdges
  <1> HIDE DEF E, F
  <1>4. n \in Int /\ n >= 1 /\ Len(q) \in Int /\ n <= Len(q)
    BY <1>2, <1>3
  <1> HIDE DEF n
  <1>5. Bad = {}
    <2>1. SUFFICES ASSUME Bad # {} PROVE FALSE
      OBVIOUS
    <2>2. PICK m \in Bad : \A l \in Bad : m <= l
      <3>1. Bad \in SUBSET Nat
        OBVIOUS
      <3> HIDE DEF Bad
      <3>2. QED
        BY <2>1, <3>1, NatMin
    <2>3. m \in Nat /\ m \in 1 .. n /\ p[m] # q[m]
      OBVIOUS
    <2>4. m # 1
      BY <1>2, <1>3, <2>3
    <2> DEFINE k == m - 1
    <2>5. /\ k \in 1 .. n - 1 /\ k + 1 = m /\ k \in Nat /\ k \in 1 .. n /\ ~(m <= k)
          /\ k \in 1 .. Len(q) - 1 /\ k \in 1 .. Len(q) /\ m \in 1 .. Len(q)
      BY <1>4, <2>3, <2>4
    <2>6. p[k] = q[k]
      BY <2>2, <2>5
    <2>7. p[m] # p[k]
      BY <1>2, <2>3, <2>5 DEF NoRepeats
    <2> HIDE DEF Bad, k
    <2>8. Ends(E(k)) = {p[k], p[m]}
      BY <1>2, <2>5
    <2>9. PICK j \in 1 .. Len(q) - 1 : E(k) = F(j)
      <3>1. E(k) \in EdgeSet(p)
        BY <1>2, <2>5
      <3>2. E(k) \in EdgeSet(q)
        BY <3>1
      <3>3. QED
        BY <1>3, <3>2
    <2>10. k = j \/ k = j + 1
      BY <1>3, <2>5, <2>6, <2>8, <2>9
    <2>11. CASE k = j
      <3>1. Ends(F(j)) = {q[k], q[m]}
        BY <1>3, <2>5, <2>11
      <3>2. QED
        BY <2>3, <2>6, <2>7, <2>8, <2>9, <3>1
    <2>12. CASE k = j + 1
      <3>1. Ends(F(j)) = {q[j], q[k]}
        BY <1>3, <2>12
      <3>2. p[m] = q[j]
        BY <2>6, <2>7, <2>8, <2>9, <3>1
      <3>3. j \in Nat /\ j \in 1 .. n /\ ~(m <= j) /\ j # m
        BY <1>4, <2>5, <2>12
      <3>4. p[j] = q[j]
        BY <2>2, <3>3 DEF Bad
      <3>5. p[j] # p[m]
        BY <1>2, <2>3, <3>3 DEF NoRepeats
      <3>6. QED
        BY <3>2, <3>4, <3>5
    <2>13. QED
      BY <2>10, <2>11, <2>12
  <1>6. \A m \in 1 .. n : p[m] = q[m]
    BY <1>4, <1>5
  <1>7. n \in 1 .. n /\ n \in 1 .. Len(q) /\ Len(q) \in 1 .. Len(q)
    BY <1>4
  <1>8. q[n] = q[Len(q)]
    BY <1>1, <1>6, <1>7
  <1>9. n = Len(q)
    BY <1>3, <1>7, <1>8 DEF NoRepeats
  <1>10. QED
    <2>1. \A m \in 1 .. Len(q) : p[m] = q[m]
      BY <1>6, <1>9
    <2>2. Len(p) = Len(q)
      BY <1>9 DEF n
    <2>3. QED
      BY <1>2, <1>3, <2>1, <2>2

(***************************************************************************)
(* The program counts the paths: the choices of edges that lead to its     *)
(* total are the edge sets of the paths, each of one path.                 *)
(***************************************************************************)
LEMMA TotalPaths == PathTotal = Cardinality(NumberPaths) /\ IsFiniteSet(NumberPaths)
  <1> DEFINE g == [p \in NumberPaths |-> EdgeSet(p)]
  <1>1. IsFiniteSet(Wholes)
    <2>1. LastEdge \in 0 .. LastEdge
      BY ActiveLast
    <2>2. QED
      BY <2>1, WaysFinite, FS_Subset DEF Wholes
  <1>2. g \in [NumberPaths -> Wholes]
    BY PathIsWhole
  <1>3. ASSUME NEW p \in NumberPaths, NEW q \in NumberPaths, g[p] = g[q] PROVE p = q
    <2>1. EdgeSet(p) = EdgeSet(q)
      BY <1>3
    <2>2. Len(p) \in Int /\ Len(q) \in Int
      BY DEF NumberPaths, Trails
    <2>3. CASE Len(p) <= Len(q)
      BY <2>1, <2>3, SameEdgesSamePath
    <2>4. CASE Len(q) <= Len(p)
      BY <2>1, <2>4, SameEdgesSamePath
    <2>5. QED
      BY <2>2, <2>3, <2>4
  <1>4. \A S \in Wholes : \E p \in NumberPaths : g[p] = S
    BY WholeIsPath
  <1> HIDE DEF g
  <1>5. IsFiniteSet(NumberPaths)
    <2>1. g \in Injection(NumberPaths, Wholes)
      BY <1>2, <1>3 DEF Injection, IsInjective
    <2>2. QED
      BY <1>1, <2>1, FS_Injection
  <1>6. Cardinality(Wholes) = Cardinality(NumberPaths)
    BY <1>2, <1>3, <1>4, <1>5, SameSize
  <1>7. QED
    BY <1>5, <1>6, TotalWholes

-----------------------------------------------------------------------------
(***************************************************************************)
(* The paths of the reference definition (GridPaths), in rows and columns. *)
(***************************************************************************)
\* The row and the column of a vertex of the code, and its number from these.
At(x) == <<(x \div W) + 1, (x % W) + 1>>
Num(v) == W * (v[1] - 1) + (v[2] - 1)

\* Each vertex has one row and one column, and the other way round.
LEMMA NumAt ==
  /\ \A v \in Vertices(W, W) : Num(v) \in V /\ v[1] - 1 \in 0 .. W - 1 /\ v[2] - 1 \in 0 .. W - 1
  /\ \A x \in V : At(x) \in Vertices(W, W) /\ Num(At(x)) = x
  /\ \A v, w \in Vertices(W, W) : Num(v) = Num(w) => v = w
  <1>1. W \in Nat \ {0} /\ W > 1 /\ W \in Int /\ W * W \in Int
    BY WAssumption
  <1>2. ASSUME NEW v \in Vertices(W, W)
        PROVE  /\ Num(v) \in V /\ v[1] - 1 \in 0 .. W - 1 /\ v[2] - 1 \in 0 .. W - 1
               /\ v = <<v[1], v[2]>> /\ v[1] \in Int /\ v[2] \in Int
    <2>1. v[1] \in 1 .. W /\ v[2] \in 1 .. W /\ v = <<v[1], v[2]>>
      BY DEF Vertices
    <2> DEFINE r == v[1] - 1
               c == v[2] - 1
    <2>2. r \in 0 .. W - 1 /\ c \in 0 .. W - 1 /\ r \in Int /\ r < W /\ r >= 0
      BY <1>1, <2>1
    <2>3. Num(v) = W * r + c
      BY DEF Num
    <2> HIDE DEF r, c
    <2>4. W * r + W <= W * W
      BY <1>1, <2>2, MulMono
    <2>5. W * r \in Nat
      BY <1>1, <2>2
    <2>6. W * r + c \in 0 .. W * W - 1
      BY <1>1, <2>2, <2>4, <2>5
    <2>7. QED
      BY <2>1, <2>2, <2>3, <2>6 DEF V, r, c
  <1>3. ASSUME NEW x \in V PROVE At(x) \in Vertices(W, W) /\ Num(At(x)) = x
    <2> DEFINE q == x \div W
               r == x % W
    <2>1. x \in Int /\ x >= 0 /\ x < W * W
      BY <1>1 DEF V
    <2>2. x = W * q + r /\ q \in Int /\ r \in 0 .. W - 1
      BY <1>1, <2>1, ModDiv, ModType
    <2>3. At(x) = <<q + 1, r + 1>>
      BY DEF At
    <2> HIDE DEF q, r
    <2>4. W * q \in Int
      BY <1>1, <2>2
    <2>5. ~(q < 0)
      <3>1. q < 0 => W * q + W <= W * 0
        BY <1>1, <2>2, MulMono
      <3>2. W * 0 = 0
        BY <1>1
      <3>3. QED
        BY <1>1, <2>1, <2>2, <2>4, <3>1, <3>2
    <2>6. q < W
      <3>1. q > W => W * W + W <= W * q
        BY <1>1, <2>2, MulMono
      <3>2. q # W
        BY <1>1, <2>1, <2>2
      <3>3. QED
        BY <1>1, <2>1, <2>2, <2>4, <3>1, <3>2
    <2>7. q + 1 \in 1 .. W /\ r + 1 \in 1 .. W /\ (q + 1) - 1 = q /\ (r + 1) - 1 = r
      BY <1>1, <2>2, <2>5, <2>6
    <2>8. QED
      BY <2>2, <2>3, <2>7 DEF Vertices, Num
  <1>4. ASSUME NEW v \in Vertices(W, W), NEW w \in Vertices(W, W), Num(v) = Num(w) PROVE v = w
    <2> DEFINE a == v[1] - 1
               b == v[2] - 1
               c == w[1] - 1
               d == w[2] - 1
    <2>1. a \in 0 .. W - 1 /\ b \in 0 .. W - 1 /\ c \in 0 .. W - 1 /\ d \in 0 .. W - 1 /\ a \in Int /\ c \in Int
      BY <1>2
    <2>2. W * a + b = W * c + d
      BY <1>4 DEF Num
    <2>3. v = <<a + 1, b + 1>> /\ w = <<c + 1, d + 1>>
      <3>1. /\ v = <<v[1], v[2]>> /\ v[1] \in Int /\ v[2] \in Int
            /\ w = <<w[1], w[2]>> /\ w[1] \in Int /\ w[2] \in Int
        BY <1>2
      <3>2. a + 1 = v[1] /\ b + 1 = v[2] /\ c + 1 = w[1] /\ d + 1 = w[2]
        BY <3>1
      <3> HIDE DEF a, b, c, d
      <3>3. QED
        BY <3>1, <3>2
    <2> HIDE DEF a, b, c, d
    <2>4. a = c /\ b = d
      BY <1>1, <2>1, <2>2, DivUnique
    <2>5. QED
      BY <2>3, <2>4
  <1>5. QED
    BY <1>2, <1>3, <1>4

\* The edges of the code join the neighbours of the grid.
LEMMA NeighboursAre ==
  ASSUME NEW v \in Vertices(W, W), NEW w \in Vertices(W, W)
  PROVE  (\E i \in DOMAIN Edges : Ends(i) = {Num(v), Num(w)}) <=> Adjacent(w, v)
  <1> DEFINE a == v[1] - 1
             b == v[2] - 1
             c == w[1] - 1
             d == w[2] - 1
             x == Num(v)
             y == Num(w)
  <1>1. W \in Nat \ {0} /\ W \in Int
    BY WAssumption
  <1>2. /\ a \in 0 .. W - 1 /\ b \in 0 .. W - 1 /\ c \in 0 .. W - 1 /\ d \in 0 .. W - 1
        /\ a \in Int /\ b \in Int /\ c \in Int /\ d \in Int
    BY NumAt
  <1>3. x \in V /\ y \in V /\ x = W * a + b /\ y = W * c + d
    BY NumAt DEF Num
  <1>4. Adjacent(w, v) <=> \/ c = a /\ (d = b + 1 \/ b = d + 1)
                           \/ d = b /\ (c = a + 1 \/ a = c + 1)
    <2>1. v[1] \in Int /\ v[2] \in Int /\ w[1] \in Int /\ w[2] \in Int
      BY DEF Vertices
    <2>2. QED
      BY <2>1 DEF Adjacent
  <1> HIDE DEF a, b, c, d, x, y
  <1>5. x % W = b /\ y % W = d
    <2>1. x \in Int /\ y \in Int
      BY <1>1, <1>3 DEF V
    <2>2. QED
      BY <1>1, <1>2, <1>3, <2>1, ModUnique
  <1>6. Follows(x, y) <=> (c = a /\ d = b + 1) \/ (d = b /\ c = a + 1)
    <2>1. x \in Int /\ y \in Int /\ W * a \in Int /\ W * c \in Int
      BY <1>1, <1>2, <1>3 DEF V
    <2>2. ASSUME y = x + 1, b + 1 < W PROVE c = a /\ d = b + 1
      <3>1. b + 1 \in 0 .. W - 1 /\ W * c + d = W * a + (b + 1)
        BY <1>1, <1>2, <1>3, <2>1, <2>2
      <3>2. QED
        BY <1>1, <1>2, <3>1, DivUnique
    <2>3. ASSUME y = x + W PROVE d = b /\ c = a + 1
      <3>1. a + 1 \in Int /\ W * (a + 1) = W * a + W
        BY <1>1, <1>2
      <3>2. W * c + d = W * (a + 1) + b
        BY <1>1, <1>2, <1>3, <2>1, <2>3, <3>1
      <3>3. QED
        BY <1>1, <1>2, <3>1, <3>2, DivUnique
    <2>4. ASSUME c = a, d = b + 1 PROVE y = x + 1 /\ b + 1 < W
      BY <1>1, <1>2, <1>3, <2>1, <2>4
    <2>5. ASSUME d = b, c = a + 1 PROVE y = x + W /\ x + W \in V
      <3>1. W * (a + 1) = W * a + W
        BY <1>1, <1>2
      <3>2. y = x + W
        BY <1>1, <1>2, <1>3, <2>1, <2>5, <3>1
      <3>3. QED
        BY <1>3, <3>2
    <2>6. QED
      BY <1>5, <2>2, <2>3, <2>4, <2>5 DEF Follows
  <1>7. Follows(y, x) <=> (a = c /\ b = d + 1) \/ (b = d /\ a = c + 1)
    <2>1. x \in Int /\ y \in Int /\ W * a \in Int /\ W * c \in Int
      BY <1>1, <1>2, <1>3 DEF V
    <2>2. ASSUME x = y + 1, d + 1 < W PROVE a = c /\ b = d + 1
      <3>1. d + 1 \in 0 .. W - 1 /\ W * a + b = W * c + (d + 1)
        BY <1>1, <1>2, <1>3, <2>1, <2>2
      <3>2. QED
        BY <1>1, <1>2, <3>1, DivUnique
    <2>3. ASSUME x = y + W PROVE b = d /\ a = c + 1
      <3>1. c + 1 \in Int /\ W * (c + 1) = W * c + W
        BY <1>1, <1>2
      <3>2. W * a + b = W * (c + 1) + d
        BY <1>1, <1>2, <1>3, <2>1, <2>3, <3>1
      <3>3. QED
        BY <1>1, <1>2, <3>1, <3>2, DivUnique
    <2>4. ASSUME a = c, b = d + 1 PROVE x = y + 1 /\ d + 1 < W
      BY <1>1, <1>2, <1>3, <2>1, <2>4
    <2>5. ASSUME b = d, a = c + 1 PROVE x = y + W /\ y + W \in V
      <3>1. W * (c + 1) = W * c + W
        BY <1>1, <1>2
      <3>2. x = y + W
        BY <1>1, <1>2, <1>3, <2>1, <2>5, <3>1
      <3>3. QED
        BY <1>3, <3>2
    <2>6. QED
      BY <1>5, <2>2, <2>3, <2>4, <2>5 DEF Follows
  <1>8. (\E i \in DOMAIN Edges : Ends(i) = {x, y}) <=> Follows(x, y) \/ Follows(y, x)
    <2>1. ASSUME NEW i \in DOMAIN Edges, Ends(i) = {x, y} PROVE Follows(x, y) \/ Follows(y, x)
      <3>1. Follows(Edges[i][1], Edges[i][2]) /\ Edges[i][1] \in V /\ Edges[i][2] \in V
        BY EdgesAre
      <3>2. \/ Edges[i][1] = x /\ Edges[i][2] = y
            \/ Edges[i][1] = y /\ Edges[i][2] = x
            \/ Edges[i][1] = Edges[i][2]
        BY <2>1 DEF Ends
      <3>3. Edges[i][1] # Edges[i][2]
        <4>1. Edges[i][1] < Edges[i][2] /\ Edges[i][1] \in Int
          BY <1>1, <3>1, EdgesAre DEF V
        <4>2. QED
          BY <4>1
      <3>4. QED
        BY <3>1, <3>2, <3>3
    <2>2. ASSUME Follows(x, y) PROVE \E i \in DOMAIN Edges : Ends(i) = {x, y}
      <3>1. PICK i \in DOMAIN Edges : Edges[i] = <<x, y>>
        BY <1>3, <2>2, EdgesAre
      <3>2. Ends(i) = {x, y}
        BY <3>1 DEF Ends
      <3>3. QED
        BY <3>2
    <2>3. ASSUME Follows(y, x) PROVE \E i \in DOMAIN Edges : Ends(i) = {x, y}
      <3>1. PICK i \in DOMAIN Edges : Edges[i] = <<y, x>>
        BY <1>3, <2>3, EdgesAre
      <3>2. Ends(i) = {x, y}
        BY <3>1 DEF Ends
      <3>3. QED
        BY <3>2
    <2>4. QED
      BY <2>1, <2>2, <2>3
  <1>9. QED
    BY <1>4, <1>6, <1>7, <1>8 DEF x, y

\* A path in numbers and the same path in rows and columns.
LEMMA NamedPath ==
  ASSUME NEW p \in Seq(V), NEW s \in Seq(Vertices(W, W)), Len(s) = Len(p), \A j \in 1 .. Len(p) : Num(s[j]) = p[j]
  PROVE  p \in NumberPaths <=> s \in CornerPaths(W, W)
  <1> DEFINE n == Len(p)
  <1>1. n \in Nat /\ DOMAIN p = 1 .. n /\ DOMAIN s = 1 .. n /\ Len(s) = n
    OBVIOUS
  <1>2. \A j \in 1 .. n : p[j] \in V /\ s[j] \in Vertices(W, W) /\ Num(s[j]) = p[j]
    BY <1>1
  <1>3. (p # <<>> <=> n # 0) /\ (s # <<>> <=> n # 0)
    BY <1>1
  <1> HIDE DEF n
  <1>4. W \in Nat \ {0} /\ W \in Int
    BY WAssumption
  <1>5. <<1, 1>> \in Vertices(W, W) /\ Num(<<1, 1>>) = Start /\ <<W, W>> \in Vertices(W, W) /\ Num(<<W, W>>) = Target
    <2>1. W * 0 = 0 /\ W * (W - 1) = W * W - W /\ W * W \in Int
      BY <1>4
    <2>2. Num(<<1, 1>>) = W * 0 + 0 /\ Num(<<W, W>>) = W * (W - 1) + (W - 1)
      BY <1>4 DEF Num
    <2>3. QED
      BY <1>4, <2>1, <2>2 DEF Vertices, Start, Target
  <1>6. n # 0 => (1 \in 1 .. n /\ n \in 1 .. n)
    BY <1>1
  <1>7. n # 0 => (p[1] = Start <=> s[1] = <<1, 1>>) /\ (p[n] = Target <=> s[n] = <<W, W>>)
    BY <1>2, <1>5, <1>6, NumAt
  <1>8. NoRepeats(p) <=> \A i, k \in 1 .. n : s[i] = s[k] => i = k
    <2>1. \A i, k \in 1 .. n : p[i] = p[k] <=> s[i] = s[k]
      BY <1>2, NumAt
    <2>2. QED
      BY <1>1, <2>1 DEF NoRepeats
  <1>9. ASSUME NEW j \in 1 .. n - 1
        PROVE  (\E i \in DOMAIN Edges : Ends(i) = {p[j], p[j + 1]}) <=> Adjacent(s[j + 1], s[j])
    <2>1. j \in 1 .. n /\ j + 1 \in 1 .. n
      BY <1>1
    <2>2. QED
      <3>1. s[j] \in Vertices(W, W) /\ s[j + 1] \in Vertices(W, W) /\ Num(s[j]) = p[j] /\ Num(s[j + 1]) = p[j + 1]
        BY <1>2, <2>1
      <3>2. (\E i \in DOMAIN Edges : Ends(i) = {Num(s[j]), Num(s[j + 1])}) <=> Adjacent(s[j + 1], s[j])
        BY <3>1, NeighboursAre
      <3>3. QED
        BY <3>1, <3>2
  <1>10. p \in NumberPaths <=> /\ n # 0 /\ p[1] = Start /\ p[n] = Target /\ NoRepeats(p)
                               /\ \A j \in 1 .. n - 1 : \E i \in DOMAIN Edges : Ends(i) = {p[j], p[j + 1]}
    BY <1>3 DEF NumberPaths, Trails, n
  <1>11. s \in CornerPaths(W, W) <=> /\ n # 0 /\ s[1] = <<1, 1>> /\ s[n] = <<W, W>>
                                     /\ \A i, k \in 1 .. n : s[i] = s[k] => i = k
                                     /\ \A j \in 1 .. n - 1 : Adjacent(s[j + 1], s[j])
    BY <1>1, <1>3 DEF CornerPaths
  <1>12. QED
    BY <1>7, <1>8, <1>9, <1>10, <1>11

(***************************************************************************)
(* The sequential frontier program (oneesan_frontier.cpp) is right: for    *)
(* every W its total is the number of the paths from corner to corner of   *)
(* the W x W grid that visit no vertex twice.                              *)
(***************************************************************************)
THEOREM TotalIsPaths == PathTotal = Cardinality(CornerPaths(W, W)) /\ IsFiniteSet(CornerPaths(W, W))
  <1> DEFINE Named(p) == [j \in 1 .. Len(p) |-> At(p[j])]
             Numbered(s) == [j \in 1 .. Len(s) |-> Num(s[j])]
             g == [p \in NumberPaths |-> Named(p)]
  <1>1. ASSUME NEW p \in Seq(V)
        PROVE  Named(p) \in Seq(Vertices(W, W)) /\ Len(Named(p)) = Len(p) /\ \A j \in 1 .. Len(p) : Num(Named(p)[j]) = p[j]
    <2>1. \A j \in 1 .. Len(p) : At(p[j]) \in Vertices(W, W) /\ Num(At(p[j])) = p[j]
      BY NumAt
    <2>2. QED
      BY <2>1
  <1>2. ASSUME NEW s \in Seq(Vertices(W, W))
        PROVE  Numbered(s) \in Seq(V) /\ Len(Numbered(s)) = Len(s) /\ \A j \in 1 .. Len(s) : Num(s[j]) = Numbered(s)[j]
    <2>1. \A j \in 1 .. Len(s) : Num(s[j]) \in V
      BY NumAt
    <2>2. QED
      BY <2>1
  <1> HIDE DEF Named, Numbered
  <1>3. \A p \in NumberPaths : p \in Seq(V)
    BY DEF NumberPaths, Trails
  <1>4. \A s \in CornerPaths(W, W) : s \in Seq(Vertices(W, W))
    BY DEF CornerPaths
  <1>5. g \in [NumberPaths -> CornerPaths(W, W)]
    <2>1. ASSUME NEW p \in NumberPaths PROVE Named(p) \in CornerPaths(W, W)
      BY <1>1, <1>3, NamedPath
    <2>2. QED
      BY <2>1
  <1>6. ASSUME NEW p \in NumberPaths, NEW q \in NumberPaths, g[p] = g[q] PROVE p = q
    <2>1. Named(p) = Named(q) /\ p \in Seq(V) /\ q \in Seq(V)
      BY <1>3, <1>6
    <2>2. Len(p) = Len(q) /\ \A j \in 1 .. Len(p) : p[j] = q[j]
      BY <1>1, <2>1
    <2>3. QED
      BY <2>1, <2>2
  <1>7. ASSUME NEW s \in CornerPaths(W, W) PROVE \E p \in NumberPaths : g[p] = s
    <2> DEFINE p == Numbered(s)
    <2>1. s \in Seq(Vertices(W, W)) /\ p \in Seq(V) /\ Len(p) = Len(s) /\ \A j \in 1 .. Len(s) : Num(s[j]) = p[j]
      BY <1>2, <1>4
    <2> HIDE DEF p
    <2>2. p \in NumberPaths
      BY <2>1, NamedPath
    <2>3. Named(p) = s
      <3>1. Named(p) \in Seq(Vertices(W, W)) /\ Len(Named(p)) = Len(s) /\ \A j \in 1 .. Len(s) : Num(Named(p)[j]) = p[j]
        BY <1>1, <2>1
      <3>2. \A j \in 1 .. Len(s) : Named(p)[j] = s[j]
        BY <2>1, <3>1, NumAt
      <3>3. QED
        BY <2>1, <3>1, <3>2
    <2>4. QED
      BY <2>2, <2>3
  <1> HIDE DEF g
  <1>8. IsFiniteSet(CornerPaths(W, W)) /\ Cardinality(CornerPaths(W, W)) = Cardinality(NumberPaths)
    <2>1. IsFiniteSet(NumberPaths)
      BY TotalPaths
    <2>2. /\ \A p, q \in NumberPaths : g[p] = g[q] => p = q
          /\ \A s \in CornerPaths(W, W) : \E p \in NumberPaths : g[p] = s
      BY <1>6, <1>7
    <2>3. QED
      BY <1>5, <2>1, <2>2, SameSize
  <1>9. PathTotal = Cardinality(NumberPaths)
    BY TotalPaths
  <1>10. QED
    BY <1>8, <1>9

-----------------------------------------------------------------------------
(***************************************************************************)
(* The reference count that a run evaluates, PathCount, is their number.   *)
(***************************************************************************)
(***************************************************************************)
(* The ways on from v to goal through vertices of U that are not seen and  *)
(* are met once; a way ends when it first meets goal.                      *)
(***************************************************************************)
Onways(U, goal, v, seen) ==
    {p \in Seq(U) : /\ p # <<>> /\ p[1] = v /\ p[Len(p)] = goal
                    /\ \A i \in 1 .. Len(p) - 1 : p[i] # goal /\ Adjacent(p[i + 1], p[i])
                    /\ \A i \in 2 .. Len(p) : p[i] \notin seen
                    /\ \A i, k \in 2 .. Len(p) : p[i] = p[k] => i = k}

\* The way from goal ends there.
LEMMA OnwaysGoal ==
  ASSUME NEW U, NEW goal \in U, NEW seen
  PROVE  Onways(U, goal, goal, seen) = {<<goal>>}
  <1>1. ASSUME NEW p \in Onways(U, goal, goal, seen) PROVE p = <<goal>>
    <2>1. p \in Seq(U) /\ p # <<>> /\ p[1] = goal /\ Len(p) \in Nat /\ \A i \in 1 .. Len(p) - 1 : p[i] # goal
      BY DEF Onways
    <2>2. Len(p) # 0
      BY <2>1
    <2>3. ~(1 \in 1 .. Len(p) - 1)
      BY <2>1
    <2>4. Len(p) = 1
      <3> DEFINE n == Len(p)
      <3>1. n \in Nat /\ n # 0 /\ ~(1 \in 1 .. n - 1)
        BY <2>1, <2>2, <2>3
      <3> HIDE DEF n
      <3>2. n = 1
        BY <3>1
      <3>3. QED
        BY <3>2 DEF n
    <2>5. QED
      BY <2>1, <2>4
  <1>2. <<goal>> \in Onways(U, goal, goal, seen)
    <2> DEFINE p == <<goal>>
    <2>1. p \in Seq(U) /\ p # <<>> /\ p[1] = goal /\ Len(p) = 1
      OBVIOUS
    <2>2. 1 .. 1 - 1 = {} /\ 2 .. 1 = {}
      OBVIOUS
    <2> HIDE DEF p
    <2>3. p \in Onways(U, goal, goal, seen)
      BY <2>1, <2>2 DEF Onways
    <2>4. QED
      BY <2>3 DEF p
  <1>3. QED
    BY <1>1, <1>2

\* A way goes on as one step and a way from there.
LEMMA OnwaysStep ==
  ASSUME NEW U, NEW goal, NEW v \in U, v # goal, NEW seen \in SUBSET U,
         NEW q \in Seq(U), q # <<>>, NEW p \in Seq(U), Len(p) = Len(q) + 1,
         p[1] = v, \A i \in 1 .. Len(q) : p[i + 1] = q[i]
  PROVE  p \in Onways(U, goal, v, seen)
            <=> q[1] \in Onward(U, <<v, seen>>) /\ q \in Onways(U, goal, q[1], seen \cup {q[1]})
  <1> DEFINE n == Len(q)
             u == q[1]
  <1>1. n \in Nat \ {0} /\ DOMAIN q = 1 .. n /\ Len(p) = n + 1 /\ p # <<>> /\ u \in U
    OBVIOUS
  <1>2. \A i \in 1 .. n : p[i + 1] = q[i]
    OBVIOUS
  <1>3. p \in Onways(U, goal, v, seen) <=>
          /\ p[n + 1] = goal
          /\ \A i \in 1 .. n : p[i] # goal /\ Adjacent(p[i + 1], p[i])
          /\ \A i \in 2 .. n + 1 : p[i] \notin seen
          /\ \A i, k \in 2 .. n + 1 : p[i] = p[k] => i = k
    <2>1. (n + 1) - 1 = n
      BY <1>1
    <2> HIDE DEF n
    <2>2. QED
      BY <1>1, <2>1 DEF Onways
  <1>4. q \in Onways(U, goal, u, seen \cup {u}) <=>
          /\ q[n] = goal
          /\ \A i \in 1 .. n - 1 : q[i] # goal /\ Adjacent(q[i + 1], q[i])
          /\ \A i \in 2 .. n : q[i] \notin seen \cup {u}
          /\ \A i, k \in 2 .. n : q[i] = q[k] => i = k
    BY DEF Onways
  <1>5. u \in Onward(U, <<v, seen>>) <=> u \notin seen /\ Adjacent(u, v)
    BY <1>1 DEF Onward
  <1>6. u = q[1] /\ p[1] = v
    OBVIOUS
  <1> HIDE DEF n, u
  <1>7. p[n + 1] = q[n] /\ p[2] = u /\ 1 \in 1 .. n /\ n \in 1 .. n
    <2>1. 1 \in 1 .. n /\ n \in 1 .. n /\ 1 + 1 = 2
      BY <1>1
    <2>2. p[1 + 1] = q[1] /\ p[n + 1] = q[n]
      BY <1>2, <2>1
    <2>3. QED
      BY <1>6, <2>1, <2>2
  <1>8. (\A i \in 1 .. n : p[i] # goal /\ Adjacent(p[i + 1], p[i]))
          <=> Adjacent(u, v) /\ \A i \in 1 .. n - 1 : q[i] # goal /\ Adjacent(q[i + 1], q[i])
    <2>1. ASSUME \A i \in 1 .. n : p[i] # goal /\ Adjacent(p[i + 1], p[i])
          PROVE  Adjacent(u, v) /\ \A i \in 1 .. n - 1 : q[i] # goal /\ Adjacent(q[i + 1], q[i])
      <3>1. Adjacent(p[1 + 1], p[1])
        BY <1>7, <2>1
      <3>2. Adjacent(u, v)
        BY <1>2, <1>6, <1>7, <3>1
      <3>3. ASSUME NEW i \in 1 .. n - 1 PROVE q[i] # goal /\ Adjacent(q[i + 1], q[i])
        <4>1. i \in 1 .. n /\ i + 1 \in 1 .. n
          BY <1>1
        <4>2. p[i + 1] = q[i] /\ p[(i + 1) + 1] = q[i + 1]
          BY <1>2, <4>1
        <4>3. p[i + 1] # goal /\ Adjacent(p[(i + 1) + 1], p[i + 1])
          BY <2>1, <4>1
        <4>4. QED
          BY <4>2, <4>3
      <3>4. QED
        BY <3>2, <3>3
    <2>2. ASSUME Adjacent(u, v), \A i \in 1 .. n - 1 : q[i] # goal /\ Adjacent(q[i + 1], q[i]), NEW i \in 1 .. n
          PROVE  p[i] # goal /\ Adjacent(p[i + 1], p[i])
      <3>1. CASE i = 1
        <4>1. p[i] = v /\ p[i + 1] = u
          BY <1>2, <1>6, <1>7, <3>1
        <4>2. QED
          BY <2>2, <4>1
      <3>2. CASE i # 1
        <4> DEFINE j == i - 1
        <4>1. j \in 1 .. n - 1 /\ j \in 1 .. n /\ j + 1 = i
          BY <1>1, <3>2
        <4> HIDE DEF j
        <4>2. p[i] = q[j] /\ p[i + 1] = q[j + 1]
          BY <1>2, <4>1
        <4>3. QED
          BY <2>2, <4>1, <4>2
      <3>3. QED
        BY <3>1, <3>2
    <2>3. QED
      BY <2>1, <2>2
  <1>9. (\A i \in 2 .. n + 1 : p[i] \notin seen) <=> u \notin seen /\ \A i \in 2 .. n : q[i] \notin seen
    <2>1. ASSUME \A i \in 2 .. n + 1 : p[i] \notin seen, NEW i \in 1 .. n PROVE q[i] \notin seen
      <3>1. i + 1 \in 2 .. n + 1
        BY <1>1
      <3>2. QED
        BY <1>2, <2>1, <3>1
    <2>2. ASSUME u \notin seen, \A i \in 2 .. n : q[i] \notin seen, NEW i \in 2 .. n + 1 PROVE p[i] \notin seen
      <3> DEFINE j == i - 1
      <3>1. j \in 1 .. n /\ j + 1 = i /\ (j = 1 \/ j \in 2 .. n)
        BY <1>1
      <3> HIDE DEF j
      <3>2. p[i] = q[j]
        BY <1>2, <3>1
      <3>3. QED
        BY <1>6, <2>2, <3>1, <3>2
    <2>3. \A i \in 2 .. n : i \in 1 .. n
      BY <1>1
    <2>4. QED
      BY <1>6, <1>7, <2>1, <2>2, <2>3
  <1>10. (\A i, k \in 2 .. n + 1 : p[i] = p[k] => i = k)
          <=> (\A i \in 2 .. n : q[i] # u) /\ (\A i, k \in 2 .. n : q[i] = q[k] => i = k)
    <2>1. ASSUME \A i, k \in 2 .. n + 1 : p[i] = p[k] => i = k, NEW i \in 1 .. n, NEW k \in 1 .. n, q[i] = q[k]
          PROVE  i = k
      <3>1. i + 1 \in 2 .. n + 1 /\ k + 1 \in 2 .. n + 1 /\ (i + 1 = k + 1 => i = k)
        BY <1>1
      <3>2. p[i + 1] = p[k + 1]
        BY <1>2, <2>1
      <3>3. QED
        BY <2>1, <3>1, <3>2
    <2>2. ASSUME \A i \in 2 .. n : q[i] # u, \A i, k \in 2 .. n : q[i] = q[k] => i = k,
                 NEW i \in 2 .. n + 1, NEW k \in 2 .. n + 1, p[i] = p[k]
          PROVE  i = k
      <3> DEFINE j == i - 1
                 l == k - 1
      <3>1. /\ j \in 1 .. n /\ j + 1 = i /\ (j = 1 \/ j \in 2 .. n)
            /\ l \in 1 .. n /\ l + 1 = k /\ (l = 1 \/ l \in 2 .. n)
        BY <1>1
      <3> HIDE DEF j, l
      <3>2. q[j] = q[l]
        BY <1>2, <2>2, <3>1
      <3>3. j = l
        BY <1>6, <2>2, <3>1, <3>2
      <3>4. QED
        BY <3>1, <3>3
    <2>3. \A i \in 2 .. n : i \in 1 .. n /\ i # 1
      BY <1>1
    <2>4. QED
      BY <1>6, <1>7, <2>1, <2>2, <2>3
  <1>11. (\A i \in 2 .. n : q[i] \notin seen \cup {u}) <=> (\A i \in 2 .. n : q[i] \notin seen) /\ (\A i \in 2 .. n : q[i] # u)
    OBVIOUS
  <1>12. QED
    BY <1>3, <1>4, <1>5, <1>7, <1>8, <1>9, <1>10, <1>11 DEF u

\* As many ways as there are in total from the vertices that the first step can lead to.
LEMMA OnwaysSum ==
  ASSUME NEW U, IsFiniteSet(U), NEW goal, NEW v \in U, v # goal, NEW seen \in SUBSET U,
         NEW N, N = Onward(U, <<v, seen>>),
         \A u \in N : IsFiniteSet(Onways(U, goal, u, seen \cup {u})),
         NEW c, \A u \in N : c[u] = Cardinality(Onways(U, goal, u, seen \cup {u}))
  PROVE  /\ IsFiniteSet(Onways(U, goal, v, seen))
         /\ SumFunctionOnSet(c, N) = Cardinality(Onways(U, goal, v, seen))
  <1> DEFINE T(u) == Onways(U, goal, u, seen \cup {u})
             P(u) == {<<v>> \o q : q \in T(u)}
             F == [u \in N |-> P(u)]
             A == Onways(U, goal, v, seen)
  <1>1. IsFiniteSet(N) /\ \A u \in N : u \in U
    <2>1. N \subseteq U
      BY DEF Onward
    <2>2. QED
      BY <2>1, FS_Subset
  <1>2. ASSUME NEW u \in N PROVE IsFiniteSet(P(u)) /\ Cardinality(P(u)) = Cardinality(T(u))
    <2> DEFINE g == [q \in T(u) |-> <<v>> \o q]
    <2>1. IsFiniteSet(T(u)) /\ T(u) \subseteq Seq(U)
      BY DEF Onways
    <2> HIDE DEF T
    <2>2. g \in [T(u) -> P(u)] /\ \A p \in P(u) : \E q \in T(u) : g[q] = p
      OBVIOUS
    <2>3. ASSUME NEW q \in T(u), NEW r \in T(u), g[q] = g[r] PROVE q = r
      <3>1. q \in Seq(U) /\ r \in Seq(U) /\ <<v>> \o q = <<v>> \o r
        BY <2>1, <2>3
      <3>2. /\ Len(<<v>> \o q) = Len(q) + 1 /\ Len(<<v>> \o r) = Len(r) + 1 /\ Len(q) \in Nat /\ Len(r) \in Nat
            /\ \A i \in 1 .. Len(q) : (<<v>> \o q)[i + 1] = q[i]
            /\ \A i \in 1 .. Len(r) : (<<v>> \o r)[i + 1] = r[i]
        BY <3>1, Prefixed
      <3>3. Len(q) = Len(r)
        BY <3>1, <3>2
      <3>4. \A i \in 1 .. Len(q) : q[i] = r[i]
        BY <3>1, <3>2, <3>3
      <3>5. q \in Seq(U) /\ r \in Seq(U)
        BY <3>1
      <3>6. QED
        BY <3>3, <3>4, <3>5
    <2> HIDE DEF g, P
    <2>4. QED
      BY <2>1, <2>2, <2>3, SameSize
  <1>3. ASSUME NEW u \in N, NEW q \in T(u) PROVE <<v>> \o q \in A /\ (<<v>> \o q)[2] = u
    <2>1. q \in Seq(U) /\ q # <<>> /\ q[1] = u
      BY DEF Onways
    <2>2. /\ <<v>> \o q \in Seq(U) /\ Len(<<v>> \o q) = Len(q) + 1 /\ (<<v>> \o q)[1] = v
          /\ \A i \in 1 .. Len(q) : (<<v>> \o q)[i + 1] = q[i]
      BY <2>1, Prefixed
    <2>3. <<v>> \o q \in A
      BY <2>1, <2>2, OnwaysStep
    <2>4. 1 \in 1 .. Len(q) /\ 1 + 1 = 2
      BY <2>1
    <2>5. QED
      BY <2>1, <2>2, <2>3, <2>4
  <1>4. ASSUME NEW p \in A PROVE \E u \in N : p \in P(u)
    <2>1. p \in Seq(U) /\ p # <<>> /\ p[1] = v /\ p[Len(p)] = goal
      BY DEF Onways
    <2> DEFINE n == Len(p) - 1
               q == [i \in 1 .. n |-> p[i + 1]]
    <2>2. Len(p) \in Nat /\ Len(p) # 0 /\ Len(p) # 1
      BY <2>1
    <2>3. n \in Nat /\ n # 0 /\ Len(p) = n + 1
      BY <2>2
    <2> HIDE DEF n
    <2>4. \A i \in 1 .. n : i + 1 \in 1 .. Len(p)
      BY <2>3
    <2>5. q \in [1 .. n -> U]
      BY <2>1, <2>4
    <2>6. q \in Seq(U) /\ Len(q) = n
      <3> HIDE DEF q
      <3>1. QED
        BY <2>3, <2>5, IsSeq
    <2>7. q # <<>> /\ \A i \in 1 .. Len(q) : p[i + 1] = q[i]
      <3>1. \A i \in 1 .. n : p[i + 1] = q[i]
        OBVIOUS
      <3> HIDE DEF q
      <3>2. QED
        BY <2>3, <2>6, <3>1
    <2> HIDE DEF q
    <2>8. q[1] \in N /\ q \in T(q[1])
      <3>1. Len(p) = Len(q) + 1
        BY <2>3, <2>6
      <3>2. QED
        BY <2>1, <2>6, <2>7, <3>1, OnwaysStep
    <2>9. <<v>> \o q = p
      <3> DEFINE r == <<v>> \o q
      <3>1. r \in Seq(U) /\ Len(r) = n + 1 /\ r[1] = v /\ \A i \in 1 .. n : r[i + 1] = p[i + 1]
        BY <2>6, <2>7, Prefixed
      <3> HIDE DEF r
      <3>2. ASSUME NEW j \in 1 .. n + 1 PROVE r[j] = p[j]
        <4>1. CASE j = 1
          BY <2>1, <3>1, <4>1
        <4>2. CASE j # 1
          <5> DEFINE i == j - 1
          <5>1. i \in 1 .. n /\ i + 1 = j
            BY <2>3, <4>2
          <5> HIDE DEF i
          <5>2. QED
            BY <3>1, <5>1
        <4>3. QED
          BY <4>1, <4>2
      <3>3. r = p
        BY <2>1, <2>3, <3>1, <3>2
      <3>4. QED
        BY <3>3 DEF r
    <2>10. QED
      BY <2>8, <2>9
  <1> HIDE DEF T, A
  <1>5. ASSUME NEW u \in N, NEW p \in P(u) PROVE p \in A /\ p[2] = u
    <2>1. PICK q \in T(u) : p = <<v>> \o q
      OBVIOUS
    <2>2. <<v>> \o q \in A /\ (<<v>> \o q)[2] = u
      BY <1>3
    <2>3. QED
      BY <2>1, <2>2
  <1> HIDE DEF P
  <1>6. \A u, w \in N : u # w => F[u] \cap F[w] = {}
    BY <1>5
  <1>7. \A u \in N : IsFiniteSet(F[u]) /\ c[u] = Cardinality(F[u])
    BY <1>2 DEF T
  <1> HIDE DEF F
  <1>8. IsFiniteSet(Together(F, N)) /\ SumFunctionOnSet(c, N) = Cardinality(Together(F, N))
    BY <1>1, <1>6, <1>7, SumCards
  <1>9. Together(F, N) = A
    <2>1. \A u \in N : F[u] \subseteq A
      BY <1>5 DEF F
    <2>2. \A p \in A : \E u \in N : p \in F[u]
      BY <1>4 DEF F
    <2>3. QED
      BY <2>1, <2>2 DEF Together
  <1>10. QED
    BY <1>8, <1>9 DEF A

\* There are finitely many ways.
LEMMA OnwaysFinite ==
  ASSUME NEW U, IsFiniteSet(U), NEW goal \in U, NEW v \in U, NEW seen \in SUBSET U
  PROVE  IsFiniteSet(Onways(U, goal, v, seen))
  <1> DEFINE T(w, s) == Onways(U, goal, w, U \ s)
             Bad == {s \in SUBSET U : \E w \in U : ~IsFiniteSet(T(w, s))}
  <1>1. Bad = {}
    <2>1. SUFFICES ASSUME Bad # {} PROVE FALSE
      OBVIOUS
    <2>2. PICK s \in Bad : \A t \in Bad : t \subseteq s => t = s
      <3>1. Bad \in SUBSET SUBSET U
        OBVIOUS
      <3> HIDE DEF Bad
      <3>2. QED
        BY <2>1, <3>1, SubsetMin
    <2>3. PICK w \in U : ~IsFiniteSet(T(w, s))
      OBVIOUS
    <2> DEFINE z == U \ s
               N == Onward(U, <<w, z>>)
               c == [u \in N |-> Cardinality(Onways(U, goal, u, z \cup {u}))]
    <2>4. w # goal
      <3>1. IsFiniteSet({<<goal>>})
        BY FS_Singleton
      <3>2. T(goal, s) = {<<goal>>}
        BY OnwaysGoal
      <3>3. QED
        BY <2>3, <3>1, <3>2
    <2>5. ASSUME NEW u \in N PROVE IsFiniteSet(Onways(U, goal, u, z \cup {u}))
      <3>1. u \in U /\ u \in s /\ s \subseteq U
        BY DEF Onward
      <3>2. U \ (s \ {u}) = z \cup {u} /\ s \ {u} \subseteq s /\ s \ {u} # s /\ s \ {u} \in SUBSET U
        BY <3>1
      <3>3. s \ {u} \notin Bad
        <4> HIDE DEF Bad
        <4>1. QED
          BY <2>2, <3>2
      <3>4. IsFiniteSet(T(u, s \ {u}))
        BY <3>1, <3>2, <3>3
      <3>5. QED
        BY <3>2, <3>4
    <2>6. z \in SUBSET U /\ \A u \in N : c[u] = Cardinality(Onways(U, goal, u, z \cup {u}))
      OBVIOUS
    <2>7. N = Onward(U, <<w, z>>)
      OBVIOUS
    <2> HIDE DEF N, c, z, Bad, T
    <2>8. IsFiniteSet(Onways(U, goal, w, z))
      <3>1. \A u \in N : IsFiniteSet(Onways(U, goal, u, z \cup {u}))
        BY <2>5
      <3>2. w \in U /\ w # goal /\ z \in SUBSET U
        BY <2>3, <2>4, <2>6
      <3>3. /\ IsFiniteSet(Onways(U, goal, w, z))
            /\ SumFunctionOnSet(c, N) = Cardinality(Onways(U, goal, w, z))
        BY <2>6, <2>7, <3>1, <3>2, OnwaysSum
      <3>4. QED
        BY <3>3
    <2>9. QED
      BY <2>3, <2>8 DEF z, T
  <1>2. U \ (U \ seen) = seen /\ U \ seen \in SUBSET U
    OBVIOUS
  <1>3. IsFiniteSet(T(v, U \ seen))
    BY <1>1, <1>2
  <1>4. QED
    BY <1>2, <1>3

\* The recursion of PathCount.
Counting(g, U, goal) ==
    g = [x \in U \X SUBSET U |->
            IF x[1] = goal THEN 1 ELSE SumFunction([u \in Onward(U, x) |-> g[<<u, x[2] \cup {u}>>]])]

\* A table of the numbers of ways satisfies it at x.
LEMMA CountingStep ==
  ASSUME NEW U, IsFiniteSet(U), NEW goal \in U, NEW x \in U \X SUBSET U,
         NEW g, \A u \in Onward(U, x) :
                   g[<<u, x[2] \cup {u}>>] = Cardinality(Onways(U, goal, u, x[2] \cup {u}))
  PROVE  Cardinality(Onways(U, goal, x[1], x[2]))
            = IF x[1] = goal THEN 1 ELSE SumFunction([u \in Onward(U, x) |-> g[<<u, x[2] \cup {u}>>]])
  <1>1. CASE x[1] = goal
    <2>1. Onways(U, goal, x[1], x[2]) = {<<goal>>}
      BY <1>1, OnwaysGoal
    <2>2. Cardinality({<<goal>>}) = 1
      BY FS_Singleton
    <2>3. QED
      BY <1>1, <2>1, <2>2
  <1>2. CASE x[1] # goal
    <2> DEFINE v == x[1]
               z == x[2]
               N == Onward(U, x)
               c == [u \in N |-> g[<<u, z \cup {u}>>]]
    <2>1. v \in U /\ z \in SUBSET U /\ x = <<v, z>> /\ v # goal
      BY <1>2
    <2>2. N = Onward(U, <<v, z>>)
      BY <2>1
    <2>3. \A u \in N : u \in U /\ z \cup {u} \in SUBSET U
      BY <2>1 DEF Onward
    <2>4. DOMAIN c = N /\ \A u \in N : c[u] = Cardinality(Onways(U, goal, u, z \cup {u}))
      OBVIOUS
    <2>5. SumFunction(c) = SumFunctionOnSet(c, DOMAIN c)
      BY DEF SumFunction
    <2> HIDE DEF v, z, N, c
    <2>6. \A u \in N : IsFiniteSet(Onways(U, goal, u, z \cup {u}))
      BY <2>3, OnwaysFinite
    <2>7. SumFunctionOnSet(c, N) = Cardinality(Onways(U, goal, v, z))
      BY <2>1, <2>2, <2>4, <2>6, OnwaysSum
    <2>8. SumFunction(c) = Cardinality(Onways(U, goal, v, z))
      BY <2>4, <2>5, <2>7
    <2>9. QED
      BY <1>2, <2>8 DEF v, z, N, c
  <1>3. QED
    BY <1>1, <1>2

\* There is a table that satisfies the recursion, and it holds the numbers of ways.
LEMMA CountingIs ==
  ASSUME NEW U, IsFiniteSet(U), NEW goal \in U
  PROVE  /\ \E g : Counting(g, U, goal)
         /\ \A g : Counting(g, U, goal) =>
               \A v \in U, seen \in SUBSET U : g[<<v, seen>>] = Cardinality(Onways(U, goal, v, seen))
  <1> DEFINE C(x) == Cardinality(Onways(U, goal, x[1], x[2]))
             R(g, x) == IF x[1] = goal THEN 1
                        ELSE SumFunction([u \in Onward(U, x) |-> g[<<u, x[2] \cup {u}>>]])
             f == [x \in U \X SUBSET U |-> C(x)]
  <1>1. Counting(f, U, goal)
    <2>1. ASSUME NEW x \in U \X SUBSET U PROVE C(x) = R(f, x)
      <3>1. ASSUME NEW u \in Onward(U, x)
            PROVE  f[<<u, x[2] \cup {u}>>] = Cardinality(Onways(U, goal, u, x[2] \cup {u}))
        <4>1. <<u, x[2] \cup {u}>> \in U \X SUBSET U
          BY DEF Onward
        <4>2. QED
          BY <4>1
      <3> HIDE DEF f
      <3>2. QED
        BY <3>1, CountingStep
    <2>2. f = [x \in U \X SUBSET U |-> R(f, x)]
      <3> DEFINE h == f
      <3>1. f = [x \in U \X SUBSET U |-> C(x)]
        OBVIOUS
      <3> HIDE DEF f, C, R
      <3>2. QED
        BY <2>1, <3>1
    <2> HIDE DEF f
    <2>3. QED
      BY <2>2 DEF Counting
  <1> HIDE DEF f
  <1>2. ASSUME NEW g, Counting(g, U, goal)
        PROVE  \A v \in U, seen \in SUBSET U : g[<<v, seen>>] = Cardinality(Onways(U, goal, v, seen))
    <2> DEFINE Bad == {s \in SUBSET U : \E w \in U : g[<<w, U \ s>>] # Cardinality(Onways(U, goal, w, U \ s))}
    <2>1. Bad = {}
      <3>1. SUFFICES ASSUME Bad # {} PROVE FALSE
        OBVIOUS
      <3>2. PICK s \in Bad : \A t \in Bad : t \subseteq s => t = s
        <4>1. Bad \in SUBSET SUBSET U
          OBVIOUS
        <4> HIDE DEF Bad
        <4>2. QED
          BY <3>1, <4>1, SubsetMin
      <3>3. PICK w \in U : g[<<w, U \ s>>] # Cardinality(Onways(U, goal, w, U \ s))
        OBVIOUS
      <3> DEFINE z == U \ s
                 x == <<w, z>>
      <3>4. ASSUME NEW u \in Onward(U, x)
            PROVE  g[<<u, x[2] \cup {u}>>] = Cardinality(Onways(U, goal, u, x[2] \cup {u}))
        <4>1. u \in U /\ u \in s /\ s \subseteq U /\ x[2] = z
          BY DEF Onward
        <4>2. U \ (s \ {u}) = z \cup {u} /\ s \ {u} \subseteq s /\ s \ {u} # s /\ s \ {u} \in SUBSET U
          BY <4>1
        <4>3. s \ {u} \notin Bad
          <5> HIDE DEF Bad
          <5>1. QED
            BY <3>2, <4>2
        <4>4. g[<<u, U \ (s \ {u})>>] = Cardinality(Onways(U, goal, u, U \ (s \ {u})))
          BY <4>1, <4>2, <4>3
        <4>5. QED
          BY <4>1, <4>2, <4>4
      <3>5. x \in U \X SUBSET U /\ x[1] = w /\ x[2] = z
        OBVIOUS
      <3>6. C(x) = R(g, x)
        <4> HIDE DEF x
        <4>1. \A u \in Onward(U, x) : g[<<u, x[2] \cup {u}>>] = Cardinality(Onways(U, goal, u, x[2] \cup {u}))
          BY <3>4
        <4>2. x \in U \X SUBSET U
          BY <3>5
        <4>3. QED
          BY <4>1, <4>2, CountingStep
      <3>7. g[x] = R(g, x)
        <4> HIDE DEF x
        <4>1. g = [y \in U \X SUBSET U |-> R(g, y)]
          BY <1>2 DEF Counting
        <4> HIDE DEF R
        <4>2. QED
          BY <3>5, <4>1
      <3> HIDE DEF R
      <3>8. g[x] = C(x)
        BY <3>6, <3>7
      <3>9. QED
        BY <3>3, <3>8
    <2>2. ASSUME NEW v \in U, NEW seen \in SUBSET U
          PROVE  g[<<v, seen>>] = Cardinality(Onways(U, goal, v, seen))
      <3>1. U \ (U \ seen) = seen /\ U \ seen \in SUBSET U
        OBVIOUS
      <3>2. U \ seen \notin Bad
        BY <2>1
      <3>3. QED
        BY <3>1, <3>2
    <2>3. QED
      BY <2>2
  <1>3. QED
    BY <1>1, <1>2

(***************************************************************************)
(* PathCount counts the paths from corner to corner, on every grid.        *)
(***************************************************************************)
THEOREM PathCountRight ==
  ASSUME NEW rows \in Nat \ {0}, NEW cols \in Nat \ {0}
  PROVE  PathCount(rows, cols) = Cardinality(CornerPaths(rows, cols))
  <1> DEFINE U == Vertices(rows, cols)
             goal == <<rows, cols>>
             first == <<1, 1>>
             from == CHOOSE g : Counting(g, U, goal)
  <1>1. IsFiniteSet(U) /\ goal \in U /\ first \in U
    <2>1. IsFiniteSet(1 .. rows) /\ IsFiniteSet(1 .. cols)
      BY FS_Interval
    <2>2. IsFiniteSet(U)
      BY <2>1, FS_Product DEF Vertices
    <2>3. QED
      BY <2>2 DEF Vertices
  <1>2. PathCount(rows, cols) = from[<<first, {first}>>]
    BY DEF PathCount, Counting
  <1> HIDE DEF U, goal, first
  <1>3. Counting(from, U, goal)
    BY <1>1, CountingIs
  <1> HIDE DEF from
  <1>4. from[<<first, {first}>>] = Cardinality(Onways(U, goal, first, {first}))
    <2>1. {first} \in SUBSET U
      BY <1>1
    <2>2. \A v \in U, seen \in SUBSET U : from[<<v, seen>>] = Cardinality(Onways(U, goal, v, seen))
      BY <1>1, <1>3, CountingIs
    <2>3. QED
      BY <1>1, <2>1, <2>2
  <1>5. Onways(U, goal, first, {first}) = CornerPaths(rows, cols)
    <2>1. ASSUME NEW p \in Seq(U), p # <<>>, p[1] = first, p[Len(p)] = goal
          PROVE  p \in Onways(U, goal, first, {first}) <=> p \in CornerPaths(rows, cols)
      <3> DEFINE n == Len(p)
      <3>1. n \in Nat /\ n # 0 /\ p[n] = goal /\ p[1] = first
        BY <2>1
      <3>2. p \in Onways(U, goal, first, {first}) <=>
              /\ \A i \in 1 .. n - 1 : p[i] # goal /\ Adjacent(p[i + 1], p[i])
              /\ \A i \in 2 .. n : p[i] # first
              /\ \A i, k \in 2 .. n : p[i] = p[k] => i = k
        BY <2>1 DEF Onways
      <3>3. p \in CornerPaths(rows, cols) <=>
              /\ \A i, k \in 1 .. n : p[i] = p[k] => i = k
              /\ \A i \in 1 .. n - 1 : Adjacent(p[i + 1], p[i])
        BY <2>1 DEF CornerPaths, U, first, goal
      <3> HIDE DEF n
      <3>4. (\A i \in 2 .. n : i \in 1 .. n /\ i # 1) /\ 1 \in 1 .. n /\ n \in 1 .. n
        BY <3>1
      <3>5. ASSUME \A i \in 2 .. n : p[i] # first, \A i, k \in 2 .. n : p[i] = p[k] => i = k,
                   NEW i \in 1 .. n, NEW k \in 1 .. n, p[i] = p[k]
            PROVE  i = k
        <4>1. (i = 1 \/ i \in 2 .. n) /\ (k = 1 \/ k \in 2 .. n)
          BY <3>1
        <4>2. QED
          BY <3>1, <3>5, <4>1
      <3>6. ASSUME \A i, k \in 1 .. n : p[i] = p[k] => i = k
            PROVE  /\ \A i \in 1 .. n - 1 : p[i] # goal
                   /\ \A i \in 2 .. n : p[i] # first
                   /\ \A i, k \in 2 .. n : p[i] = p[k] => i = k
        <4>1. \A i \in 1 .. n - 1 : i \in 1 .. n /\ i # n
          BY <3>1
        <4>2. QED
          BY <3>1, <3>4, <3>6, <4>1
      <3>7. QED
        BY <3>2, <3>3, <3>5, <3>6
    <2>2. \A p \in Onways(U, goal, first, {first}) : p \in Seq(U) /\ p # <<>> /\ p[1] = first /\ p[Len(p)] = goal
      BY DEF Onways
    <2>3. \A p \in CornerPaths(rows, cols) : p \in Seq(U) /\ p # <<>> /\ p[1] = first /\ p[Len(p)] = goal
      BY DEF CornerPaths, U, first, goal
    <2>4. QED
      BY <2>1, <2>2, <2>3
  <1>6. QED
    BY <1>2, <1>4, <1>5

-----------------------------------------------------------------------------
(***************************************************************************)
(* Who is connected to whom: a word is read as a line of heights, and each *)
(* L with its R encloses a stretch that is higher. Above all positions     *)
(* stands an L of its own, for the start, so that the R that is left over  *)
(* has a partner too.                                                      *)
(***************************************************************************)
\* A line of heights from 0 to 0.
Profile(h, n) == /\ \A q \in 0 .. n : h[q] \in Nat
                 /\ h[0] = 0 /\ h[n] = 0
                 /\ \A q \in 0 .. n - 1 : h[q] = h[q + 1] \/ h[q] = h[q + 1] + 1 \/ h[q + 1] = h[q] + 1

\* The L at x and the R at y belong together: between them the line is above where it is at both.
Arc(h, x, y) == y < x /\ h[y] = h[x + 1] /\ \A r \in y + 1 .. x : h[r] > h[y]

\* The positions that are occupied, and who is connected to whom.
PathEnds(h, n) == {q \in 0 .. n - 1 : h[q] # h[q + 1]}
Mates(h, n) == {e \in (0 .. n - 1) \X (0 .. n - 1) : Arc(h, e[1], e[2]) \/ Arc(h, e[2], e[1])}

Pairing(O, K) == /\ K \subseteq O \X O
                 /\ \A e \in K : <<e[2], e[1]>> \in K /\ e[1] # e[2]
                 /\ \A u \in O : \E v \in O : <<u, v>> \in K

\* Both ends of an arc are occupied.
LEMMA ArcTaken ==
  ASSUME NEW n \in Nat, NEW h, Profile(h, n), NEW x \in 0 .. n - 1, NEW y \in 0 .. n - 1, Arc(h, x, y)
  PROVE  x \in PathEnds(h, n) /\ y \in PathEnds(h, n) /\ h[x] > h[x + 1] /\ h[y + 1] > h[y]
  <1>1. x \in y + 1 .. x /\ y + 1 \in y + 1 .. x
    BY DEF Arc
  <1>2. h[x] > h[y] /\ h[y + 1] > h[y] /\ h[y] = h[x + 1]
    BY <1>1 DEF Arc
  <1>3. h[x] \in Nat /\ h[x + 1] \in Nat /\ h[y] \in Nat /\ h[y + 1] \in Nat
    BY DEF Profile
  <1>4. QED
    BY <1>2, <1>3 DEF PathEnds

\* An L has its R.
LEMMA ArcOfL ==
  ASSUME NEW n \in Nat, NEW h, Profile(h, n), NEW x \in 0 .. n - 1, h[x] > h[x + 1]
  PROVE  \E y \in 0 .. n - 1 : Arc(h, x, y)
  <1> DEFINE T == {d \in Nat : d <= x /\ h[x - d] <= h[x + 1]}
  <1>1. x \in T
    BY DEF Profile
  <1>2. PICK d \in T : \A e \in T : d <= e
    <2>1. T \in SUBSET Nat /\ T # {}
      BY <1>1
    <2>2. QED
      BY <2>1, NatMin
  <1> DEFINE y == x - d
  <1>3. d \in Nat /\ d <= x /\ h[y] <= h[x + 1] /\ h[x] \in Nat /\ h[x + 1] \in Nat /\ h[y] \in Nat /\ d # 0
    BY DEF Profile
  <1>4. y \in 0 .. n - 1 /\ y < x /\ y \in Int
    BY <1>3
  <1>5. ASSUME NEW r \in y + 1 .. x PROVE h[r] > h[x + 1]
    <2>1. x - r \in Nat /\ x - r <= x /\ ~(d <= x - r) /\ x - (x - r) = r /\ h[r] \in Nat
      BY <1>3, <1>4 DEF Profile
    <2>2. x - r \notin T
      BY <1>2, <2>1
    <2>3. QED
      BY <1>3, <2>1, <2>2
  <1>6. h[y] = h[x + 1]
    <2>1. y + 1 \in y + 1 .. x
      BY <1>4
    <2>2. h[y + 1] > h[x + 1]
      BY <1>5, <2>1
    <2>3. h[y + 1] \in Nat /\ (h[y] = h[y + 1] \/ h[y] = h[y + 1] + 1 \/ h[y + 1] = h[y] + 1)
      BY <1>4 DEF Profile
    <2>4. QED
      BY <1>3, <2>2, <2>3
  <1> HIDE DEF y
  <1>7. QED
    BY <1>4, <1>5, <1>6 DEF Arc

\* An R has its L.
LEMMA ArcOfR ==
  ASSUME NEW n \in Nat, NEW h, Profile(h, n), NEW y \in 0 .. n - 1, h[y + 1] > h[y]
  PROVE  \E x \in 0 .. n - 1 : Arc(h, x, y)
  <1> DEFINE T == {z \in Nat : z >= y + 1 /\ z <= n - 1 /\ h[z + 1] <= h[y]}
  <1>0. h[y] \in Nat /\ h[y + 1] \in Nat /\ y + 1 # n /\ y + 1 <= n - 1 /\ h[n] = 0
    BY DEF Profile
  <1>1. n - 1 \in T
    <2>1. (n - 1) + 1 = n /\ n - 1 \in Nat /\ n - 1 >= y + 1
      BY <1>0
    <2>2. QED
      BY <1>0, <2>1
  <1>2. PICK x \in T : \A e \in T : x <= e
    <2>1. T \in SUBSET Nat /\ T # {}
      BY <1>1
    <2>2. QED
      BY <2>1, NatMin
  <1>3. x \in Nat /\ x >= y + 1 /\ x <= n - 1 /\ h[x + 1] <= h[y] /\ h[x + 1] \in Nat /\ h[x] \in Nat
    BY DEF Profile
  <1>5. ASSUME NEW r \in y + 1 .. x PROVE h[r] > h[y]
    <2>1. CASE r = y + 1
      BY <2>1
    <2>2. CASE r # y + 1
      <3>1. r - 1 \in Nat /\ r - 1 >= y + 1 /\ r - 1 <= n - 1 /\ (r - 1) + 1 = r /\ ~(x <= r - 1) /\ h[r] \in Nat
        BY <1>3, <2>2 DEF Profile
      <3>2. r - 1 \notin T
        BY <1>2, <3>1
      <3>3. QED
        BY <1>0, <3>1, <3>2
    <2>3. QED
      BY <2>1, <2>2
  <1>6. h[y] = h[x + 1]
    <2>1. x \in y + 1 .. x
      BY <1>3
    <2>2. h[x] > h[y]
      BY <1>5, <2>1
    <2>3. h[x] = h[x + 1] \/ h[x] = h[x + 1] + 1 \/ h[x + 1] = h[x] + 1
      BY <1>3 DEF Profile
    <2>4. QED
      BY <1>0, <1>3, <2>2, <2>3
  <1>7. QED
    BY <1>3, <1>5, <1>6 DEF Arc

\* Each occupied position is connected to another.
LEMMA MatesPair ==
  ASSUME NEW n \in Nat, NEW h, Profile(h, n)
  PROVE  Pairing(PathEnds(h, n), Mates(h, n))
  <1> DEFINE O == PathEnds(h, n)
             K == Mates(h, n)
  <1>1. ASSUME NEW e \in K PROVE e \in O \X O /\ <<e[2], e[1]>> \in K /\ e[1] # e[2]
    <2>1. e[1] \in 0 .. n - 1 /\ e[2] \in 0 .. n - 1 /\ e = <<e[1], e[2]>> /\ (Arc(h, e[1], e[2]) \/ Arc(h, e[2], e[1]))
      BY DEF Mates
    <2>2. e[1] \in O /\ e[2] \in O
      BY <2>1, ArcTaken
    <2>3. <<e[2], e[1]>> \in K
      BY <2>1 DEF Mates
    <2>4. e[1] # e[2]
      BY <2>1 DEF Arc
    <2>5. QED
      BY <2>1, <2>2, <2>3, <2>4
  <1>2. ASSUME NEW u \in O PROVE \E v \in O : <<u, v>> \in K
    <2>1. u \in 0 .. n - 1 /\ h[u] # h[u + 1] /\ h[u] \in Nat /\ h[u + 1] \in Nat
      BY DEF PathEnds, Profile
    <2>2. CASE h[u] > h[u + 1]
      <3>1. PICK v \in 0 .. n - 1 : Arc(h, u, v)
        BY <2>1, <2>2, ArcOfL
      <3>2. v \in O /\ <<u, v>> \in K
        BY <2>1, <3>1, ArcTaken DEF Mates
      <3>3. QED
        BY <3>2
    <2>3. CASE h[u + 1] > h[u]
      <3>1. PICK v \in 0 .. n - 1 : Arc(h, v, u)
        BY <2>1, <2>3, ArcOfR
      <3>2. v \in O /\ <<u, v>> \in K
        BY <2>1, <3>1, ArcTaken DEF Mates
      <3>3. QED
        BY <3>2
    <2>4. QED
      BY <2>1, <2>2, <2>3
  <1> HIDE DEF O, K
  <1>3. QED
    BY <1>1, <1>2 DEF Pairing, O, K

-----------------------------------------------------------------------------
\* How the arcs change when the letters at p and p - 1 do: k is the line after, h the line before.
Elsewhere(h, k, n, p) == \A r \in 0 .. n : r # p => k[r] = h[r]

\* A new pair at p and p - 1.
LEMMA ArcsNew ==
  ASSUME NEW n \in Nat, NEW h, Profile(h, n), NEW k, Profile(k, n), NEW p \in 1 .. n - 1,
         Elsewhere(h, k, n, p), h[p + 1] = h[p], h[p - 1] = h[p], k[p] = h[p] + 1,
         NEW x \in 0 .. n - 1, NEW y \in 0 .. n - 1, Arc(k, x, y)
  PROVE  (x = p /\ y = p - 1) \/ Arc(h, x, y)
  <1>1. SUFFICES ASSUME ~(x = p /\ y = p - 1) PROVE Arc(h, x, y)
    OBVIOUS
  <1>2. /\ y < x /\ k[y] = k[x + 1] /\ x \in Int /\ y \in Int /\ p \in Int
        /\ k[p + 1] = h[p + 1] /\ k[p - 1] = h[p - 1]
        /\ \A r \in 0 .. n : h[r] \in Nat /\ k[r] \in Nat
    BY DEF Arc, Elsewhere, Profile
  <1>3. \A r \in y + 1 .. x : k[r] > k[y] /\ r \in 0 .. n
    BY DEF Arc
  <1>4. y # p
    <2>1. y = p => p + 1 \in y + 1 .. x
      BY <1>2
    <2>2. QED
      BY <1>2, <1>3, <2>1
  <1>5. x + 1 # p
    <2>1. x + 1 = p => p - 1 \in y + 1 .. x
      BY <1>2
    <2>2. QED
      BY <1>2, <1>3, <2>1
  <1>6. k[y] = h[y] /\ k[x + 1] = h[x + 1]
    <2>1. y \in 0 .. n /\ x + 1 \in 0 .. n
      OBVIOUS
    <2>2. QED
      BY <1>4, <1>5, <2>1 DEF Elsewhere
  <1>7. ASSUME NEW r \in y + 1 .. x PROVE h[r] > h[y]
    <2>1. CASE r # p
      <3>1. r \in 0 .. n /\ k[r] > k[y]
        BY <1>3
      <3>2. k[r] = h[r]
        BY <2>1, <3>1 DEF Elsewhere
      <3>3. QED
        BY <1>6, <3>1, <3>2
    <2>2. CASE r = p
      <3>1. CASE p - 1 \in y + 1 .. x
        BY <1>2, <1>3, <1>6, <2>2, <3>1
      <3>2. CASE p + 1 \in y + 1 .. x
        BY <1>2, <1>3, <1>6, <2>2, <3>2
      <3>3. CASE p - 1 \notin y + 1 .. x /\ p + 1 \notin y + 1 .. x
        BY <1>1, <1>2, <2>2, <3>3
      <3>4. QED
        BY <3>1, <3>2, <3>3
    <2>3. QED
      BY <2>1, <2>2
  <1>8. QED
    BY <1>2, <1>6, <1>7 DEF Arc

\* A letter moves from p to p - 1.
LEMMA ArcsDown ==
  ASSUME NEW n \in Nat, NEW h, Profile(h, n), NEW k, Profile(k, n), NEW p \in 1 .. n - 1,
         Elsewhere(h, k, n, p), h[p - 1] = h[p], k[p] = h[p + 1],
         NEW x \in 0 .. n - 1, NEW y \in 0 .. n - 1, Arc(k, x, y)
  PROVE  Arc(h, IF x = p - 1 THEN p ELSE x, IF y = p - 1 THEN p ELSE y)
  <1> DEFINE u == IF x = p - 1 THEN p ELSE x
             v == IF y = p - 1 THEN p ELSE y
  <1>2. /\ y < x /\ k[y] = k[x + 1] /\ x \in Int /\ y \in Int /\ p \in Int
        /\ k[p + 1] = h[p + 1] /\ k[p - 1] = h[p - 1]
        /\ \A r \in 0 .. n : h[r] \in Nat /\ k[r] \in Nat
    BY DEF Arc, Elsewhere, Profile
  <1>3. \A r \in y + 1 .. x : k[r] > k[y] /\ r \in 0 .. n
    BY DEF Arc
  <1>4. x # p /\ y # p
    <2>1. x = p => p \in y + 1 .. x
      BY <1>2
    <2>2. y = p => p + 1 \in y + 1 .. x
      BY <1>2
    <2>3. QED
      BY <1>2, <1>3, <2>1, <2>2
  <1>5. v < u /\ u \in Int /\ v \in Int /\ v >= y /\ (v = y \/ v = y + 1) /\ (u = x \/ u = x + 1)
    BY <1>2, <1>4
  <1>6. h[v] = k[y]
    <2>1. CASE y = p - 1
      BY <1>2, <2>1
    <2>2. CASE y # p - 1
      <3>1. y \in 0 .. n
        OBVIOUS
      <3>2. QED
        BY <1>4, <2>2, <3>1 DEF Elsewhere
    <2>3. QED
      BY <2>1, <2>2
  <1>7. h[u + 1] = k[x + 1]
    <2>1. CASE x = p - 1
      BY <1>2, <2>1
    <2>2. CASE x # p - 1
      <3>1. x + 1 \in 0 .. n /\ x + 1 # p
        BY <2>2
      <3>2. QED
        BY <2>2, <3>1 DEF Elsewhere
    <2>3. QED
      BY <2>1, <2>2
  <1>8. ASSUME NEW r \in v + 1 .. u PROVE h[r] > h[v]
    <2>1. CASE r # p
      <3>1. r \in y + 1 .. x
        BY <1>2, <1>4, <1>5, <2>1
      <3>2. k[r] = h[r] /\ k[r] > k[y]
        BY <1>3, <2>1, <3>1 DEF Elsewhere
      <3>3. QED
        BY <1>6, <3>2
    <2>2. CASE r = p
      <3>1. p - 1 \in y + 1 .. x
        BY <1>2, <1>4, <1>5, <2>2
      <3>2. QED
        BY <1>2, <1>3, <1>6, <2>2, <3>1
    <2>3. QED
      BY <2>1, <2>2
  <1> HIDE DEF u, v
  <1>9. Arc(h, u, v)
    BY <1>5, <1>6, <1>7, <1>8 DEF Arc
  <1>10. QED
    BY <1>9 DEF u, v

\* A letter moves from p - 1 to p.
LEMMA ArcsUp ==
  ASSUME NEW n \in Nat, NEW h, Profile(h, n), NEW k, Profile(k, n), NEW p \in 1 .. n - 1,
         Elsewhere(h, k, n, p), h[p + 1] = h[p], k[p] = h[p - 1],
         NEW x \in 0 .. n - 1, NEW y \in 0 .. n - 1, Arc(k, x, y)
  PROVE  Arc(h, IF x = p THEN p - 1 ELSE x, IF y = p THEN p - 1 ELSE y)
  <1> DEFINE u == IF x = p THEN p - 1 ELSE x
             v == IF y = p THEN p - 1 ELSE y
  <1>2. /\ y < x /\ k[y] = k[x + 1] /\ x \in Int /\ y \in Int /\ p \in Int
        /\ k[p + 1] = h[p + 1] /\ k[p - 1] = h[p - 1]
        /\ \A r \in 0 .. n : h[r] \in Nat /\ k[r] \in Nat
    BY DEF Arc, Elsewhere, Profile
  <1>3. \A r \in y + 1 .. x : k[r] > k[y] /\ r \in 0 .. n
    BY DEF Arc
  <1>4. x # p - 1 /\ y # p - 1
    <2>1. x = p - 1 => p - 1 \in y + 1 .. x
      BY <1>2
    <2>2. y = p - 1 => p \in y + 1 .. x
      BY <1>2
    <2>3. QED
      BY <1>2, <1>3, <2>1, <2>2
  <1>5. v < u /\ u \in Int /\ v \in Int /\ (v = y \/ v = y - 1) /\ (u = x \/ u = x - 1)
    BY <1>2, <1>4
  <1>6. h[v] = k[y]
    <2>1. CASE y = p
      BY <1>2, <2>1
    <2>2. CASE y # p
      <3>1. y \in 0 .. n
        OBVIOUS
      <3>2. QED
        BY <1>4, <2>2, <3>1 DEF Elsewhere
    <2>3. QED
      BY <2>1, <2>2
  <1>7. h[u + 1] = k[x + 1]
    <2>1. CASE x = p
      BY <1>2, <2>1
    <2>2. CASE x # p
      <3>1. x + 1 \in 0 .. n /\ x + 1 # p
        BY <1>4
      <3>2. QED
        BY <2>2, <3>1 DEF Elsewhere
    <2>3. QED
      BY <2>1, <2>2
  <1>8. ASSUME NEW r \in v + 1 .. u PROVE h[r] > h[v]
    <2>1. CASE r # p
      <3>1. r \in y + 1 .. x
        BY <1>2, <1>4, <1>5, <2>1
      <3>2. k[r] = h[r] /\ k[r] > k[y]
        BY <1>3, <2>1, <3>1 DEF Elsewhere
      <3>3. QED
        BY <1>6, <3>2
    <2>2. CASE r = p
      <3>1. CASE p + 1 \in y + 1 .. x
        BY <1>2, <1>3, <1>6, <2>2, <3>1
      <3>2. CASE p + 1 \notin y + 1 .. x
        <4>1. p - 1 \in y + 1 .. x \/ y = p
          BY <1>2, <1>4, <1>5, <2>2, <3>2
        <4>2. QED
          BY <1>2, <1>3, <1>5, <1>6, <2>2, <3>2, <4>1
      <3>3. QED
        BY <3>1, <3>2
    <2>3. QED
      BY <2>1, <2>2
  <1> HIDE DEF u, v
  <1>9. Arc(h, u, v)
    BY <1>5, <1>6, <1>7, <1>8 DEF Arc
  <1>10. QED
    BY <1>9 DEF u, v

\* The R at p and the L at p - 1 go: their partners are a pair.
LEMMA ArcsMeet ==
  ASSUME NEW n \in Nat, NEW h, Profile(h, n), NEW k, Profile(k, n), NEW p \in 1 .. n - 1,
         Elsewhere(h, k, n, p), h[p + 1] = h[p] + 1, h[p - 1] = h[p] + 1, k[p] = h[p] + 1,
         NEW x \in 0 .. n - 1, NEW y \in 0 .. n - 1, Arc(k, x, y)
  PROVE  Arc(h, x, y) \/ (Arc(h, x, p) /\ Arc(h, p - 1, y))
  <1>2. /\ y < x /\ k[y] = k[x + 1] /\ x \in Int /\ y \in Int /\ p \in Int
        /\ k[p + 1] = h[p + 1] /\ k[p - 1] = h[p - 1]
        /\ \A r \in 0 .. n : h[r] \in Nat /\ k[r] \in Nat
    BY DEF Arc, Elsewhere, Profile
  <1>3. \A r \in y + 1 .. x : k[r] > k[y] /\ r \in 0 .. n
    BY DEF Arc
  <1>4. y # p /\ x # p /\ y # p - 1 /\ x # p - 1
    <2>1. y = p => p + 1 \in y + 1 .. x
      BY <1>2
    <2>2. x = p => p \in y + 1 .. x
      BY <1>2
    <2>3. y = p - 1 => p \in y + 1 .. x
      BY <1>2
    <2>4. x = p - 1 => p - 1 \in y + 1 .. x
      BY <1>2
    <2>5. QED
      BY <1>2, <1>3, <2>1, <2>2, <2>3, <2>4
  <1>5. h[y] = k[y] /\ h[x + 1] = k[x + 1]
    <2>1. y \in 0 .. n /\ x + 1 \in 0 .. n /\ x + 1 # p
      BY <1>4
    <2>2. QED
      BY <1>4, <2>1 DEF Elsewhere
  <1>6. ASSUME NEW r \in y + 1 .. x, r # p PROVE h[r] > h[y] /\ h[r] = k[r]
    <2>1. r \in 0 .. n /\ k[r] > k[y]
      BY <1>3
    <2>2. k[r] = h[r]
      BY <1>6, <2>1 DEF Elsewhere
    <2>3. QED
      BY <1>5, <2>1, <2>2
  <1>7. CASE p \in y + 1 .. x /\ ~(h[p] > h[y])
    <2>1. p + 1 \in y + 1 .. x /\ p - 1 \in y + 1 .. x
      BY <1>2, <1>4, <1>7
    <2>2. h[p] = h[y]
      BY <1>2, <1>3, <1>5, <1>7, <2>1
    <2>3. Arc(h, x, p)
      <3>1. \A r \in p + 1 .. x : h[r] > h[p]
        BY <1>2, <1>6, <2>2, <1>7
      <3>2. p < x
        BY <1>2, <2>1
      <3>3. QED
        BY <1>2, <1>5, <2>2, <3>1, <3>2 DEF Arc
    <2>4. Arc(h, p - 1, y)
      <3>1. \A r \in y + 1 .. p - 1 : h[r] > h[y]
        BY <1>2, <1>6, <1>7
      <3>2. y < p - 1 /\ (p - 1) + 1 = p
        BY <1>2, <2>1
      <3>3. QED
        BY <2>2, <3>1, <3>2 DEF Arc
    <2>5. QED
      BY <2>3, <2>4
  <1>8. CASE ~(p \in y + 1 .. x /\ ~(h[p] > h[y]))
    <2>1. \A r \in y + 1 .. x : h[r] > h[y]
      BY <1>6, <1>8
    <2>2. QED
      BY <1>2, <1>5, <2>1 DEF Arc
  <1>9. QED
    BY <1>7, <1>8

\* Two L at p and p - 1 go, and the R at q of the second becomes the L of the first one's R.
LEMMA ArcsLeft ==
  ASSUME NEW n \in Nat, NEW h, Profile(h, n), NEW k, Profile(k, n), NEW p \in 1 .. n - 1,
         NEW q \in 0 .. n - 1, Arc(h, p - 1, q), h[p] = h[p + 1] + 1, h[p - 1] = h[p] + 1,
         \A r \in 0 .. n : r > p \/ r <= q => k[r] = h[r],
         \A r \in q + 1 .. p - 1 : k[r] + 2 = h[r], k[p] + 1 = h[p],
         NEW x \in 0 .. n - 1, NEW y \in 0 .. n - 1, Arc(k, x, y)
  PROVE  (Arc(h, x, y) /\ x # q) \/ (x = q /\ Arc(h, p, y))
  <1>1. /\ q < p - 1 /\ h[q] = h[p] /\ p \in Int /\ q \in Int /\ (p - 1) + 1 = p
        /\ \A r \in q + 1 .. p - 1 : h[r] > h[q]
    BY DEF Arc
  <1>2. /\ y < x /\ k[y] = k[x + 1] /\ x \in Int /\ y \in Int
        /\ \A r \in 0 .. n : h[r] \in Nat /\ k[r] \in Nat
    BY DEF Arc, Profile
  <1>3. \A r \in y + 1 .. x : k[r] > k[y] /\ r \in 0 .. n
    BY DEF Arc
  <1>4. k[p + 1] = h[p + 1] /\ k[p] = h[p + 1] /\ k[p - 1] = h[p + 1] /\ k[q] = h[p + 1] + 1
    BY <1>1, <1>2
  <1>5. \A r \in q + 1 .. p : k[r] >= h[p + 1] /\ h[r] > h[p + 1]
    BY <1>1, <1>2, <1>4
  <1>6. h[q + 1] = h[p + 1] + 2 /\ k[q + 1] = h[p + 1]
    <2>1. q + 1 \in q + 1 .. p - 1 /\ q \in 0 .. n - 1
      BY <1>1
    <2>2. h[q + 1] = h[q] + 1
      BY <1>1, <1>2, <2>1 DEF Profile
    <2>3. QED
      BY <1>1, <1>2, <1>4, <2>1, <2>2
  \* Neither end can be in the part that is lowered and the other outside of it.
  <1>7. CASE x > p
    <2>1. y > p \/ y = p \/ y < q \/ (y >= q /\ y <= p - 1)
      BY <1>1, <1>2
    <2>2. CASE y > p
      <3>1. k[y] = h[y] /\ k[x + 1] = h[x + 1]
        BY <1>7, <2>2
      <3>2. \A r \in y + 1 .. x : k[r] = h[r]
        BY <1>2, <1>3, <2>2
      <3>3. x # q
        BY <1>1, <1>7
      <3>4. QED
        BY <1>2, <1>3, <3>1, <3>2, <3>3 DEF Arc
    <2>3. CASE y = p
      <3>1. p + 1 \in y + 1 .. x
        BY <1>2, <1>7, <2>3
      <3>2. QED
        BY <1>2, <1>3, <1>4, <2>3, <3>1
    <2>4. CASE y < q
      <3>1. k[y] = h[y] /\ k[x + 1] = h[x + 1]
        BY <1>1, <1>7, <2>4
      <3>2. p + 1 \in y + 1 .. x
        BY <1>1, <1>2, <1>7, <2>4
      <3>3. h[p + 1] > h[y]
        BY <1>3, <1>4, <3>1, <3>2
      <3>4. ASSUME NEW r \in y + 1 .. x PROVE h[r] > h[y]
        <4>1. CASE r \in q + 1 .. p
          BY <1>2, <1>5, <3>3, <4>1
        <4>2. CASE r \notin q + 1 .. p
          <5>1. k[r] = h[r]
            BY <1>3, <4>2
          <5>2. QED
            BY <1>3, <3>1, <5>1
        <4>3. QED
          BY <4>1, <4>2
      <3>5. x # q
        BY <1>1, <1>2, <1>7
      <3>6. h[y] = h[x + 1]
        BY <1>2, <3>1
      <3>7. Arc(h, x, y)
        BY <1>2, <3>4, <3>6 DEF Arc
      <3>8. QED
        BY <3>5, <3>7
    <2>5. CASE y >= q /\ y <= p - 1
      <3>1. p + 1 \in y + 1 .. x
        BY <1>2, <1>7, <2>5
      <3>2. k[y] >= h[p + 1]
        BY <1>1, <1>2, <1>4, <1>5, <2>5
      <3>3. QED
        BY <1>2, <1>3, <1>4, <3>1, <3>2
    <2>6. QED
      BY <2>1, <2>2, <2>3, <2>4, <2>5
  <1>8. CASE x = p
    <2>1. p \in y + 1 .. x
      BY <1>2, <1>8
    <2>2. k[p] > k[y] /\ k[y] = k[p + 1]
      BY <1>2, <1>3, <1>8, <2>1
    <2>3. QED
      BY <1>2, <1>4, <2>2
  <1>9. CASE x <= p - 1 /\ x > q
    <2>1. k[x + 1] >= h[p + 1] /\ x + 1 \in q + 1 .. p
      BY <1>1, <1>2, <1>5, <1>9
    <2>2. y > q
      <3>1. ASSUME y <= q PROVE FALSE
        <4>1. q + 1 \in y + 1 .. x
          BY <1>1, <1>2, <1>9, <3>1
        <4>2. QED
          BY <1>2, <1>3, <1>6, <2>1, <4>1
      <3>2. QED
        BY <1>1, <1>2, <3>1
    <2>3. x # p - 1
      <3>1. x = p - 1 => p - 1 \in y + 1 .. x
        BY <1>2
      <3>2. QED
        BY <1>2, <1>3, <1>4, <3>1
    <2>4. \A r \in y .. x + 1 : r \in q + 1 .. p - 1
      BY <1>1, <1>2, <1>9, <2>2, <2>3
    <2>5. \A r \in y .. x + 1 : k[r] + 2 = h[r] /\ k[r] \in Nat
      BY <1>2, <2>4
    <2>6. y \in y .. x + 1 /\ x + 1 \in y .. x + 1
      BY <1>2
    <2>7. \A r \in y + 1 .. x : h[r] > h[y]
      BY <1>2, <1>3, <2>5, <2>6
    <2>8. QED
      BY <1>2, <1>9, <2>5, <2>6, <2>7 DEF Arc
  <1>10. CASE x = q
    <2>1. y < q /\ k[y] = h[y] /\ h[y] = h[p + 1]
      BY <1>2, <1>6, <1>10
    <2>2. ASSUME NEW r \in y + 1 .. p PROVE h[r] > h[y]
      <3>1. CASE r \in q + 1 .. p
        BY <1>2, <1>5, <2>1, <3>1
      <3>2. CASE r \notin q + 1 .. p
        <4>1. r \in y + 1 .. x /\ r <= q
          BY <1>1, <1>2, <1>10, <3>2
        <4>2. k[r] = h[r] /\ k[r] > k[y]
          BY <1>3, <4>1
        <4>3. QED
          BY <2>1, <4>2
      <3>3. QED
        BY <3>1, <3>2
    <2>3. y < p
      BY <1>1, <2>1
    <2>4. QED
      BY <1>10, <2>1, <2>2, <2>3 DEF Arc
  <1>11. CASE x < q
    <2>1. \A r \in y .. x + 1 : k[r] = h[r]
      BY <1>1, <1>2, <1>11
    <2>2. y \in y .. x + 1 /\ x + 1 \in y .. x + 1
      BY <1>2
    <2>3. \A r \in y + 1 .. x : h[r] > h[y]
      BY <1>3, <2>1, <2>2
    <2>4. QED
      BY <1>2, <1>11, <2>1, <2>2, <2>3 DEF Arc
  <1>12. QED
    BY <1>1, <1>2, <1>7, <1>8, <1>9, <1>10, <1>11

\* Two R at p and p - 1 go, and the L at q of the first becomes the R of the second one's L.
LEMMA ArcsRight ==
  ASSUME NEW n \in Nat, NEW h, Profile(h, n), NEW k, Profile(k, n), NEW p \in 1 .. n - 1,
         NEW q \in 0 .. n - 1, Arc(h, q, p), h[p + 1] = h[p] + 1, h[p] = h[p - 1] + 1,
         \A r \in 0 .. n : r > q \/ r < p => k[r] = h[r],
         \A r \in p + 1 .. q : k[r] + 2 = h[r], k[p] + 1 = h[p],
         NEW x \in 0 .. n - 1, NEW y \in 0 .. n - 1, Arc(k, x, y)
  PROVE  (Arc(h, x, y) /\ y # q) \/ (y = q /\ Arc(h, x, p - 1))
  <1>1. /\ p < q /\ h[p] = h[q + 1] /\ p \in Int /\ q \in Int /\ (p - 1) + 1 = p
        /\ \A r \in p + 1 .. q : h[r] > h[p]
    BY DEF Arc
  <1>2. /\ y < x /\ k[y] = k[x + 1] /\ x \in Int /\ y \in Int
        /\ \A r \in 0 .. n : h[r] \in Nat /\ k[r] \in Nat
    BY DEF Arc, Profile
  <1>3. \A r \in y + 1 .. x : k[r] > k[y] /\ r \in 0 .. n
    BY DEF Arc
  <1>4. k[p + 1] = h[p - 1] /\ k[p] = h[p - 1] /\ k[p - 1] = h[p - 1] /\ k[q + 1] = h[p - 1] + 1
    <2>1. p + 1 \in p + 1 .. q /\ q + 1 \in 0 .. n /\ p - 1 \in 0 .. n /\ p + 1 \in 0 .. n /\ p \in 0 .. n
      BY <1>1
    <2>2. QED
      BY <1>1, <1>2, <2>1
  <1>5. \A r \in p .. q : k[r] >= h[p - 1] /\ h[r] > h[p - 1]
    <2>1. ASSUME NEW r \in p .. q PROVE k[r] >= h[p - 1] /\ h[r] > h[p - 1]
      <3>1. r \in 0 .. n /\ p - 1 \in 0 .. n
        OBVIOUS
      <3>2. CASE r = p
        BY <1>2, <1>4, <3>1, <3>2
      <3>3. CASE r # p
        <4>1. r \in p + 1 .. q
          BY <3>3
        <4>2. QED
          BY <1>1, <1>2, <3>1, <4>1
      <3>4. QED
        BY <3>2, <3>3
    <2>2. QED
      BY <2>1
  <1>6. k[q] = h[p - 1]
    <2>1. q \in p + 1 .. q /\ q \in 0 .. n - 1
      BY <1>1
    <2>2. h[q] = h[q + 1] + 1
      BY <1>1, <1>2, <2>1 DEF Profile
    <2>3. QED
      BY <1>1, <1>2, <1>4, <2>1, <2>2
  <1>7. CASE y < p
    <2>1. y # p - 1
      <3>1. y = p - 1 => p \in y + 1 .. x
        BY <1>2
      <3>2. QED
        BY <1>2, <1>3, <1>4, <3>1
    <2>2. CASE x < p
      <3>1. x + 1 < p \/ x + 1 = p
        BY <1>2, <2>2
      <3>2. CASE x + 1 < p
        <4>1. \A r \in y .. x + 1 : r \in 0 .. n /\ r < p
          BY <1>2, <3>2
        <4>2. \A r \in y .. x + 1 : k[r] = h[r]
          BY <4>1
        <4>3. y \in y .. x + 1 /\ x + 1 \in y .. x + 1 /\ \A r \in y + 1 .. x : r \in y .. x + 1
          BY <1>2
        <4>4. \A r \in y + 1 .. x : h[r] > h[y]
          BY <1>3, <4>2, <4>3
        <4>5. y # q
          BY <1>1, <1>7
        <4>6. QED
          BY <1>2, <4>2, <4>3, <4>4, <4>5 DEF Arc
      <3>3. CASE x + 1 = p
        <4>1. p - 1 \in y + 1 .. x
          BY <1>2, <3>3
        <4>2. QED
          BY <1>2, <1>3, <1>4, <3>3, <4>1
      <3>4. QED
        BY <3>1, <3>2, <3>3
    <2>3. CASE x >= p /\ x <= q
      <3>1. x + 1 <= q \/ x = q
        BY <1>2, <2>3
      <3>2. k[x + 1] >= h[p - 1]
        <4>1. CASE x + 1 <= q
          <5>1. x + 1 \in p .. q
            BY <2>3, <4>1
          <5>2. QED
            BY <1>5, <5>1
        <4>2. CASE x = q
          <5>1. p - 1 \in 0 .. n
            OBVIOUS
          <5>2. QED
            BY <1>2, <1>4, <4>2, <5>1
        <4>3. QED
          BY <3>1, <4>1, <4>2
      <3>3. p - 1 \in y + 1 .. x /\ p - 1 \in 0 .. n
        BY <1>2, <1>7, <2>1, <2>3
      <3>4. h[p - 1] > k[y]
        BY <1>3, <1>4, <3>3
      <3>5. y \in 0 .. n /\ x + 1 \in 0 .. n
        OBVIOUS
      <3>6. QED
        BY <1>2, <3>2, <3>3, <3>4, <3>5
    <2>4. CASE x > q
      <3>1. k[y] = h[y] /\ k[x + 1] = h[x + 1] /\ y \in 0 .. n /\ p - 1 \in 0 .. n
        BY <1>1, <1>7, <2>4
      <3>2. p - 1 \in y + 1 .. x
        BY <1>1, <1>2, <1>7, <2>1, <2>4
      <3>3. h[p - 1] > h[y]
        BY <1>3, <1>4, <3>1, <3>2
      <3>4. ASSUME NEW r \in y + 1 .. x PROVE h[r] > h[y]
        <4>1. CASE r \in p .. q
          BY <1>2, <1>5, <3>1, <3>3, <4>1
        <4>2. CASE r \notin p .. q
          <5>1. r \in 0 .. n /\ (r > q \/ r < p)
            BY <1>3, <4>2
          <5>2. k[r] = h[r] /\ k[r] > k[y]
            BY <1>3, <5>1
          <5>3. QED
            BY <3>1, <5>2
        <4>3. QED
          BY <4>1, <4>2
      <3>5. y # q
        BY <1>1, <1>2, <1>7
      <3>6. h[y] = h[x + 1]
        BY <1>2, <3>1
      <3>7. Arc(h, x, y)
        BY <1>2, <3>4, <3>6 DEF Arc
      <3>8. QED
        BY <3>5, <3>7
    <2>5. QED
      BY <1>1, <1>2, <2>2, <2>3, <2>4
  <1>8. CASE y = p
    <2>1. p + 1 \in y + 1 .. x
      BY <1>2, <1>8
    <2>2. QED
      BY <1>2, <1>3, <1>4, <1>8, <2>1
  <1>9. CASE y >= p + 1 /\ y < q
    <2>1. k[y] >= h[p - 1] /\ y \in p .. q /\ p - 1 \in 0 .. n
      BY <1>5, <1>9
    <2>2. x < q
      <3>1. ASSUME x >= q PROVE FALSE
        <4>1. q \in y + 1 .. x
          BY <1>1, <1>2, <1>9, <3>1
        <4>2. k[q] > k[y] /\ y \in 0 .. n
          BY <1>3, <4>1
        <4>3. QED
          BY <1>2, <1>6, <2>1, <4>2
      <3>2. QED
        BY <1>1, <1>2, <3>1
    <2>4. \A r \in y .. x + 1 : r \in p + 1 .. q
      BY <1>1, <1>2, <1>9, <2>2
    <2>5. \A r \in y .. x + 1 : k[r] + 2 = h[r] /\ k[r] \in Nat
      BY <1>2, <2>4
    <2>6. y \in y .. x + 1 /\ x + 1 \in y .. x + 1 /\ \A r \in y + 1 .. x : r \in y .. x + 1
      BY <1>2
    <2>7. \A r \in y + 1 .. x : h[r] > h[y]
      BY <1>3, <2>5, <2>6
    <2>8. QED
      BY <1>2, <1>9, <2>5, <2>6, <2>7 DEF Arc
  <1>10. CASE y = q
    <2>1. x > q /\ k[x + 1] = h[x + 1] /\ k[q] = k[x + 1] /\ h[x + 1] = h[p - 1]
      BY <1>2, <1>6, <1>10
    <2>2. ASSUME NEW r \in (p - 1) + 1 .. x PROVE h[r] > h[p - 1]
      <3>1. CASE r \in p .. q
        BY <1>5, <3>1
      <3>2. CASE r \notin p .. q
        <4>1. r \in y + 1 .. x /\ r > q /\ r \in 0 .. n
          BY <1>1, <1>2, <1>10, <3>2
        <4>2. k[r] = h[r] /\ k[r] > k[y]
          BY <1>3, <4>1
        <4>3. QED
          BY <1>6, <1>10, <4>2
      <3>3. QED
        BY <3>1, <3>2
    <2>3. p - 1 < x
      BY <1>1, <2>1
    <2>4. QED
      BY <1>10, <2>1, <2>2, <2>3 DEF Arc
  <1>11. CASE y > q
    <2>1. \A r \in y .. x + 1 : r \in 0 .. n /\ r > q
      BY <1>1, <1>2, <1>11
    <2>2. \A r \in y .. x + 1 : k[r] = h[r]
      BY <2>1
    <2>3. y \in y .. x + 1 /\ x + 1 \in y .. x + 1 /\ \A r \in y + 1 .. x : r \in y .. x + 1
      BY <1>2
    <2>4. \A r \in y + 1 .. x : h[r] > h[y]
      BY <1>3, <2>2, <2>3
    <2>5. QED
      BY <1>2, <1>11, <2>2, <2>3, <2>4 DEF Arc
  <1>12. QED
    BY <1>1, <1>2, <1>7, <1>8, <1>9, <1>10, <1>11

-----------------------------------------------------------------------------
(***************************************************************************)
(* What a set of chosen edges leaves open: f gives the vertex at each      *)
(* place of the front, O are the places where a path ends, and K says      *)
(* which of these ends are connected. A set of vertices is sealed that no  *)
(* chosen edge leaves.                                                     *)
(***************************************************************************)
Met(S, z) == \E i \in S : z \in Ends(i)
Reaches(S, f, O) == \A D : Sealed(S, D) /\ (\E z \in D : Met(S, z)) => \E q \in O : f[q] \in D
Keeps(S, f, K) == \A D : Sealed(S, D) => \A e \in K : f[e[1]] \in D <=> f[e[2]] \in D
Parts(S, f, O, K) == \A e \in K : \E D : Sealed(S, D) /\ \A r \in O : f[r] \in D <=> r \in {e[1], e[2]}
Linked(S, f, O, K) == Reaches(S, f, O) /\ Keeps(S, f, K) /\ Parts(S, f, O, K)

\* With one more edge.
LEMMA SealedAdd ==
  ASSUME NEW S, NEW i, NEW u, NEW v, Ends(i) = {u, v}
  PROVE  /\ \A D : Sealed(S \cup {i}, D) <=> Sealed(S, D) /\ (u \in D <=> v \in D)
         /\ \A z : Met(S \cup {i}, z) <=> Met(S, z) \/ z = u \/ z = v
  <1>1. \A D : (Edges[i][1] \in D <=> Edges[i][2] \in D) <=> (u \in D <=> v \in D)
    <2>1. {Edges[i][1], Edges[i][2]} = {u, v}
      BY DEF Ends
    <2>2. (Edges[i][1] = u /\ Edges[i][2] = v) \/ (Edges[i][1] = v /\ Edges[i][2] = u)
      BY <2>1
    <2>3. QED
      BY <2>2
  <1>2. QED
    BY <1>1 DEF Sealed, Met

\* Where the front is the same at all ends, they are linked the same.
LEMMA LinkedSame ==
  ASSUME NEW S, NEW f, NEW O, NEW K, Linked(S, f, O, K), NEW g, NEW L, L \subseteq K, K \subseteq O \X O,
         \A q \in O : g[q] = f[q]
  PROVE  Linked(S, g, O, L)
  <1>1. \A e \in L : e \in K /\ e[1] \in O /\ e[2] \in O /\ g[e[1]] = f[e[1]] /\ g[e[2]] = f[e[2]]
    OBVIOUS
  <1>2. Reaches(S, g, O)
    BY DEF Linked, Reaches
  <1>3. Keeps(S, g, L)
    BY <1>1 DEF Linked, Keeps
  <1>4. Parts(S, g, O, L)
    BY <1>1 DEF Linked, Parts
  <1>5. QED
    BY <1>2, <1>3, <1>4 DEF Linked

\* Two new ends at a vertex no edge has met.
Spawning(S, f, O, K, g, P, L, p1, p2, z) ==
    /\ Linked(S, f, O, K) /\ K \subseteq O \X O /\ ~Met(S, z) /\ p1 \notin O /\ p2 \notin O
    /\ \A q \in O : f[q] # z /\ g[q] = f[q]
    /\ g[p1] = z /\ g[p2] = z /\ P = O \cup {p1, p2}
    /\ \A e \in L : e \in K \/ e = <<p1, p2>> \/ e = <<p2, p1>>

\* They are linked with each other, and the rest as it was.
LEMMA LinkedSpawn ==
  ASSUME NEW S, NEW f, NEW O, NEW K, NEW g, NEW P, NEW L, NEW p1, NEW p2, NEW z,
         Spawning(S, f, O, K, g, P, L, p1, p2, z)
  PROVE  Linked(S, g, P, L)
  <1> SUFFICES ASSUME Linked(S, f, O, K), K \subseteq O \X O, ~Met(S, z),
                      p1 \notin O, p2 \notin O, \A q \in O : f[q] # z /\ g[q] = f[q], g[p1] = z, g[p2] = z,
                      P = O \cup {p1, p2}, \A e \in L : e \in K \/ e = <<p1, p2>> \/ e = <<p2, p1>>
               PROVE  Linked(S, g, P, L)
    BY DEF Spawning
  <1>1. \A e \in K : e[1] \in O /\ e[2] \in O /\ g[e[1]] = f[e[1]] /\ g[e[2]] = f[e[2]]
    OBVIOUS
  <1>2. Reaches(S, g, P)
    BY DEF Linked, Reaches
  <1>3. Keeps(S, g, L)
    <2>1. ASSUME NEW D, Sealed(S, D), NEW e \in L PROVE g[e[1]] \in D <=> g[e[2]] \in D
      <3>1. CASE e \in K
        BY <1>1, <2>1, <3>1 DEF Linked, Keeps
      <3>2. CASE e \notin K
        <4>1. g[e[1]] = z /\ g[e[2]] = z
          BY <3>2
        <4>2. QED
          BY <4>1
      <3>3. QED
        BY <3>1, <3>2
    <2>2. QED
      BY <2>1 DEF Keeps
  <1>4. Parts(S, g, P, L)
    <2>1. \A i \in S : z \notin Ends(i)
      BY DEF Met
    <2>2. ASSUME NEW D PROVE Sealed(S, {z}) /\ (Sealed(S, D) => Sealed(S, D \ {z}))
      <3>1. \A i \in S : Edges[i][1] # z /\ Edges[i][2] # z
        BY <2>1 DEF Ends
      <3>2. QED
        BY <3>1 DEF Sealed
    <2>3. ASSUME NEW e \in L PROVE \E D : Sealed(S, D) /\ \A r \in P : g[r] \in D <=> r \in {e[1], e[2]}
      <3>1. CASE e \in K
        <4>1. PICK D : Sealed(S, D) /\ \A r \in O : f[r] \in D <=> r \in {e[1], e[2]}
          BY <3>1 DEF Linked, Parts
        <4>2. ASSUME NEW r \in P PROVE g[r] \in D \ {z} <=> r \in {e[1], e[2]}
          <5>1. CASE r \in O
            BY <4>1, <5>1
          <5>2. CASE r \notin O
            BY <1>1, <3>1, <5>2
          <5>3. QED
            BY <5>1, <5>2
        <4>3. QED
          BY <2>2, <4>1, <4>2
      <3>2. CASE e \notin K
        <4>1. \A r \in P : g[r] \in {z} <=> r \in {p1, p2}
          OBVIOUS
        <4>2. {e[1], e[2]} = {p1, p2}
          BY <3>2
        <4>3. QED
          BY <2>2, <4>1, <4>2
      <3>3. QED
        BY <3>1, <3>2
    <2>4. QED
      BY <2>3 DEF Parts
  <1>5. QED
    BY <1>2, <1>3, <1>4 DEF Linked

\* An edge from the end at p1 to a vertex no edge has met; the end is at p2 then.
Growing(S, f, O, K, g, P, L, p1, p2, z, i) ==
    /\ Linked(S, f, O, K) /\ K \subseteq O \X O /\ p1 \in O /\ ~Met(S, z) /\ Ends(i) = {f[p1], z}
    /\ p2 = p1 \/ p2 \notin O
    /\ \A q \in O : f[q] # z
    /\ \A q \in O : q # p1 => g[q] = f[q]
    /\ g[p2] = z /\ P = (O \ {p1}) \cup {p2} /\ L \subseteq P \X P
    /\ \A e \in L : <<IF e[1] = p2 THEN p1 ELSE e[1], IF e[2] = p2 THEN p1 ELSE e[2]>> \in K

\* It is linked as the end at p1 was.
LEMMA LinkedGrow ==
  ASSUME NEW S, NEW f, NEW O, NEW K, NEW g, NEW P, NEW L, NEW p1, NEW p2, NEW z, NEW i,
         Growing(S, f, O, K, g, P, L, p1, p2, z, i)
  PROVE  Linked(S \cup {i}, g, P, L)
  <1> SUFFICES ASSUME Linked(S, f, O, K), K \subseteq O \X O, p1 \in O, ~Met(S, z),
                      Ends(i) = {f[p1], z}, p2 = p1 \/ p2 \notin O, \A q \in O : f[q] # z,
                      \A q \in O : q # p1 => g[q] = f[q], g[p2] = z, P = (O \ {p1}) \cup {p2}, L \subseteq P \X P,
                      \A e \in L : <<IF e[1] = p2 THEN p1 ELSE e[1], IF e[2] = p2 THEN p1 ELSE e[2]>> \in K
               PROVE  Linked(S \cup {i}, g, P, L)
    BY DEF Growing
  <1> DEFINE T == S \cup {i}
             Was(r) == IF r = p2 THEN p1 ELSE r
  <1>1. /\ \A D : Sealed(T, D) <=> Sealed(S, D) /\ (f[p1] \in D <=> z \in D)
        /\ \A y : Met(T, y) <=> Met(S, y) \/ y = f[p1] \/ y = z
    <2> DEFINE u == f[p1]
               v == z
    <2>1. Ends(i) = {u, v}
      OBVIOUS
    <2> HIDE DEF T, u, v
    <2>2. /\ \A D : Sealed(S \cup {i}, D) <=> Sealed(S, D) /\ (u \in D <=> v \in D)
          /\ \A y : Met(S \cup {i}, y) <=> Met(S, y) \/ y = u \/ y = v
      BY <2>1, SealedAdd
    <2>3. QED
      BY <2>2 DEF T, u, v
  <1> HIDE DEF T
  <1>2. \A r \in P : Was(r) \in O /\ (r = p2 \/ (r # p1 /\ g[r] = f[Was(r)])) /\ (r = p2 => Was(r) = p1 /\ g[r] = z)
    OBVIOUS
  <1>3. \A q \in O : (q # p1 => q \in P /\ g[q] = f[q]) /\ p2 \in P
    OBVIOUS
  <1>4. Reaches(T, g, P)
    <2>1. ASSUME NEW D, Sealed(T, D), NEW y \in D, Met(T, y) PROVE \E q \in P : g[q] \in D
      <3>1. Sealed(S, D) /\ (f[p1] \in D <=> z \in D)
        BY <1>1, <2>1
      <3>2. CASE z \in D
        BY <1>3, <3>2
      <3>3. CASE z \notin D
        <4>1. Met(S, y)
          BY <1>1, <2>1, <3>1, <3>3
        <4>2. PICK q \in O : f[q] \in D
          BY <3>1, <4>1 DEF Linked, Reaches
        <4>3. QED
          BY <1>3, <3>1, <3>3, <4>2
      <3>4. QED
        BY <3>2, <3>3
    <2>2. QED
      BY <2>1 DEF Reaches
  <1>5. \A e \in L : e[1] \in P /\ e[2] \in P /\ <<Was(e[1]), Was(e[2])>> \in K
    OBVIOUS
  <1>6. ASSUME NEW D, Sealed(T, D), NEW r \in P PROVE g[r] \in D <=> f[Was(r)] \in D
    BY <1>1, <1>2, <1>6
  <1> HIDE DEF Was
  <1>7. Keeps(T, g, L)
    <2>1. ASSUME NEW D, Sealed(T, D), NEW e \in L PROVE g[e[1]] \in D <=> g[e[2]] \in D
      <3>1. Sealed(S, D)
        BY <1>1, <2>1
      <3>2. f[Was(e[1])] \in D <=> f[Was(e[2])] \in D
        <4> DEFINE k == <<Was(e[1]), Was(e[2])>>
        <4>1. k \in K /\ k[1] = Was(e[1]) /\ k[2] = Was(e[2])
          BY <1>5
        <4> HIDE DEF k
        <4>2. f[k[1]] \in D <=> f[k[2]] \in D
          BY <3>1, <4>1 DEF Linked, Keeps
        <4>3. QED
          BY <4>1, <4>2
      <3>3. QED
        BY <1>5, <1>6, <2>1, <3>2
    <2>2. QED
      BY <2>1 DEF Keeps
  <1>8. Parts(T, g, P, L)
    <2>1. ASSUME NEW e \in L PROVE \E D : Sealed(T, D) /\ \A r \in P : g[r] \in D <=> r \in {e[1], e[2]}
      <3> DEFINE k == <<Was(e[1]), Was(e[2])>>
      <3>1. k \in K /\ k[1] = Was(e[1]) /\ k[2] = Was(e[2])
        BY <1>5
      <3> HIDE DEF k
      <3>2. PICK D : Sealed(S, D) /\ \A r \in O : f[r] \in D <=> r \in {k[1], k[2]}
        BY <3>1 DEF Linked, Parts
      <3> DEFINE C == IF f[p1] \in D THEN D \cup {z} ELSE D \ {z}
      <3>3. Sealed(S, C)
        <4>1. \A j \in S : Edges[j][1] # z /\ Edges[j][2] # z
          BY DEF Met, Ends
        <4>2. QED
          BY <3>2, <4>1 DEF Sealed
      <3>4. f[p1] # z /\ (f[p1] \in C <=> z \in C) /\ \A q \in O : f[q] \in C <=> f[q] \in D
        OBVIOUS
      <3>5. Sealed(T, C)
        BY <1>1, <3>3, <3>4
      <3> HIDE DEF C
      <3>6. ASSUME NEW r \in P PROVE g[r] \in C <=> r \in {e[1], e[2]}
        <4>1. g[r] \in C <=> f[Was(r)] \in C
          BY <1>6, <3>5
        <4>2. f[Was(r)] \in C <=> Was(r) \in {Was(e[1]), Was(e[2])}
          BY <1>2, <3>1, <3>2, <3>4
        <4>3. \A a, b \in P : Was(a) = Was(b) => a = b
          BY DEF Was
        <4>4. QED
          BY <1>5, <4>1, <4>2, <4>3
      <3>7. QED
        BY <3>5, <3>6
    <2>2. QED
      BY <2>1 DEF Parts
  <1>9. QED
    BY <1>4, <1>7, <1>8 DEF Linked, T

\* An edge between two ends that are not connected: their partners are connected then.
Joining(S, f, O, K, g, P, L, p1, p2, i) ==
    /\ Linked(S, f, O, K) /\ Pairing(O, K) /\ p1 \in O /\ p2 \in O /\ <<p1, p2>> \notin K
    /\ Ends(i) = {f[p1], f[p2]} /\ P = O \ {p1, p2}
    /\ \A q \in P : g[q] = f[q]
    /\ L \subseteq P \X P
    /\ \A e \in L : \/ e \in K \/ (<<e[1], p1>> \in K /\ <<p2, e[2]>> \in K)
                    \/ (<<e[1], p2>> \in K /\ <<p1, e[2]>> \in K)

\* The links are right then.
LEMMA LinkedJoin ==
  ASSUME NEW S, NEW f, NEW O, NEW K, NEW g, NEW P, NEW L, NEW p1, NEW p2, NEW i,
         Joining(S, f, O, K, g, P, L, p1, p2, i)
  PROVE  Linked(S \cup {i}, g, P, L)
  <1> DEFINE T == S \cup {i}
  <1>0. Ends(i) = {f[p1], f[p2]}
    BY DEF Joining
  <1>1. /\ \A D : Sealed(T, D) <=> Sealed(S, D) /\ (f[p1] \in D <=> f[p2] \in D)
        /\ \A y : Met(T, y) <=> Met(S, y) \/ y = f[p1] \/ y = f[p2]
    <2> DEFINE u == f[p1]
               v == f[p2]
    <2>1. Ends(i) = {u, v}
      BY <1>0
    <2> HIDE DEF T, u, v
    <2>2. /\ \A D : Sealed(S \cup {i}, D) <=> Sealed(S, D) /\ (u \in D <=> v \in D)
          /\ \A y : Met(S \cup {i}, y) <=> Met(S, y) \/ y = u \/ y = v
      BY <2>1, SealedAdd
    <2>3. QED
      BY <2>2 DEF T, u, v
  <1> SUFFICES ASSUME Linked(S, f, O, K), Pairing(O, K), p1 \in O, p2 \in O, <<p1, p2>> \notin K,
                      Ends(i) = {f[p1], f[p2]}, P = O \ {p1, p2}, \A q \in P : g[q] = f[q], L \subseteq P \X P,
                      \A e \in L : \/ e \in K \/ (<<e[1], p1>> \in K /\ <<p2, e[2]>> \in K)
                                   \/ (<<e[1], p2>> \in K /\ <<p1, e[2]>> \in K)
               PROVE  Linked(S \cup {i}, g, P, L)
    BY DEF Joining
  <1> HIDE DEF T
  <1>2. \A u \in O : \E v \in O : <<u, v>> \in K
    BY DEF Pairing
  <1>3. \A u, v : <<u, v>> \in K => u \in O /\ v \in O /\ <<v, u>> \in K /\ u # v
    <2>1. ASSUME NEW u, NEW v, <<u, v>> \in K PROVE u \in O /\ v \in O /\ <<v, u>> \in K /\ u # v
      <3> DEFINE k == <<u, v>>
      <3>1. k \in K /\ k[1] = u /\ k[2] = v /\ k \in O \X O
        BY <2>1 DEF Pairing
      <3> HIDE DEF k
      <3>2. <<k[2], k[1]>> \in K /\ k[1] # k[2] /\ k[1] \in O /\ k[2] \in O
        BY <3>1 DEF Pairing
      <3>3. QED
        BY <3>1, <3>2
    <2>2. QED
      BY <2>1
  <1>4. ASSUME NEW D, Sealed(S, D), NEW u, NEW v, <<u, v>> \in K PROVE f[u] \in D <=> f[v] \in D
    <2> DEFINE k == <<u, v>>
    <2>1. k \in K /\ k[1] = u /\ k[2] = v
      BY <1>4
    <2> HIDE DEF k
    <2>2. f[k[1]] \in D <=> f[k[2]] \in D
      BY <1>4, <2>1 DEF Linked, Keeps
    <2>3. QED
      BY <2>1, <2>2
  <1>5. ASSUME NEW u, NEW v, <<u, v>> \in K
        PROVE  \E D : Sealed(S, D) /\ \A r \in O : f[r] \in D <=> r \in {u, v}
    <2> DEFINE k == <<u, v>>
    <2>1. k \in K /\ k[1] = u /\ k[2] = v
      BY <1>5
    <2> HIDE DEF k
    <2>2. \E D : Sealed(S, D) /\ \A r \in O : f[r] \in D <=> r \in {k[1], k[2]}
      BY <2>1 DEF Linked, Parts
    <2>3. QED
      BY <2>1, <2>2
  <1>6. Reaches(T, g, P)
    <2>1. ASSUME NEW D, Sealed(T, D), NEW y \in D, Met(T, y) PROVE \E q \in P : g[q] \in D
      <3>1. Sealed(S, D) /\ (f[p1] \in D <=> f[p2] \in D)
        BY <1>1, <2>1
      <3>2. PICK q \in O : f[q] \in D
        <4>1. CASE Met(S, y)
          BY <3>1, <4>1 DEF Linked, Reaches
        <4>2. CASE ~Met(S, y)
          BY <1>1, <2>1, <4>2
        <4>3. QED
          BY <4>1, <4>2
      <3>3. CASE q \in P
        BY <3>2, <3>3
      <3>4. CASE q \notin P
        <4>1. f[p1] \in D
          BY <3>1, <3>2, <3>4
        <4>2. PICK u \in O : <<p1, u>> \in K
          BY <1>2
        <4>3. f[u] \in D /\ u # p1 /\ u # p2
          BY <1>3, <1>4, <3>1, <4>1, <4>2
        <4>4. u \in P
          BY <4>3
        <4>5. QED
          BY <4>3, <4>4
      <3>5. QED
        BY <3>3, <3>4
    <2>2. QED
      BY <2>1 DEF Reaches
  <1>7. \A e \in L : e[1] \in P /\ e[2] \in P /\ e = <<e[1], e[2]>>
    OBVIOUS
  <1>8. Keeps(T, g, L)
    <2>1. ASSUME NEW D, Sealed(T, D), NEW e \in L PROVE g[e[1]] \in D <=> g[e[2]] \in D
      <3>1. Sealed(S, D) /\ (f[p1] \in D <=> f[p2] \in D)
        BY <1>1, <2>1
      <3>2. g[e[1]] = f[e[1]] /\ g[e[2]] = f[e[2]]
        BY <1>7
      <3>3. CASE e \in K
        BY <1>4, <1>7, <3>1, <3>2, <3>3
      <3>4. CASE <<e[1], p1>> \in K /\ <<p2, e[2]>> \in K
        BY <1>4, <3>1, <3>2, <3>4
      <3>5. CASE <<e[1], p2>> \in K /\ <<p1, e[2]>> \in K
        BY <1>4, <3>1, <3>2, <3>5
      <3>6. QED
        BY <3>3, <3>4, <3>5
    <2>2. QED
      BY <2>1 DEF Keeps
  <1>9. Parts(T, g, P, L)
    <2>0. ASSUME NEW a, NEW b, NEW u, NEW v, u \in P, v \in P, {a, b} = {p1, p2}, <<u, a>> \in K, <<b, v>> \in K
          PROVE  \E D : Sealed(T, D) /\ \A r \in P : g[r] \in D <=> r \in {u, v}
      <3>1. PICK C : Sealed(S, C) /\ \A r \in O : f[r] \in C <=> r \in {u, a}
        BY <1>5, <2>0
      <3>2. PICK D : Sealed(S, D) /\ \A r \in O : f[r] \in D <=> r \in {b, v}
        BY <1>5, <2>0
      <3>3. Sealed(S, C \cup D)
        BY <3>1, <3>2 DEF Sealed
      <3>4. \A r \in O : f[r] \in C \cup D <=> r \in {u, v, p1, p2}
        BY <2>0, <3>1, <3>2
      <3>5. Sealed(T, C \cup D)
        BY <1>1, <3>3, <3>4
      <3>6. \A r \in P : g[r] \in C \cup D <=> r \in {u, v}
        BY <3>4
      <3>7. QED
        BY <3>5, <3>6
    <2>1. ASSUME NEW e \in L PROVE \E D : Sealed(T, D) /\ \A r \in P : g[r] \in D <=> r \in {e[1], e[2]}
      <3>1. CASE e \in K
        <4>1. PICK D : Sealed(S, D) /\ \A r \in O : f[r] \in D <=> r \in {e[1], e[2]}
          BY <1>5, <1>7, <3>1
        <4>2. f[p1] \notin D /\ f[p2] \notin D
          BY <1>7, <4>1
        <4>3. QED
          BY <1>1, <4>1, <4>2
      <3>2. CASE <<e[1], p1>> \in K /\ <<p2, e[2]>> \in K
        BY <1>7, <2>0, <3>2
      <3>3. CASE <<e[1], p2>> \in K /\ <<p1, e[2]>> \in K
        <4>1. {p2, p1} = {p1, p2}
          OBVIOUS
        <4>2. QED
          BY <1>7, <2>0, <3>3, <4>1
      <3>4. QED
        BY <3>1, <3>2, <3>3
    <2>2. QED
      BY <2>1 DEF Parts
  <1>10. QED
    BY <1>6, <1>8, <1>9 DEF Linked, T

\* An edge between two ends that are connected: it closes a cycle that nothing leaves any more.
LEMMA LinkedCycle ==
  ASSUME NEW S, NEW f, NEW O, NEW K, Linked(S, f, O, K), NEW p1 \in O, NEW p2 \in O, NEW i,
         <<p1, p2>> \in K, Ends(i) = {f[p1], f[p2]}
  PROVE  \E D : Sealed(S \cup {i}, D) /\ f[p1] \in D /\ \A r \in O : r # p1 /\ r # p2 => f[r] \notin D
  <1> DEFINE k == <<p1, p2>>
  <1>1. k \in K /\ k[1] = p1 /\ k[2] = p2
    OBVIOUS
  <1> HIDE DEF k
  <1>2. PICK D : Sealed(S, D) /\ \A r \in O : f[r] \in D <=> r \in {k[1], k[2]}
    BY <1>1 DEF Linked, Parts
  <1>3. Sealed(S \cup {i}, D)
    BY <1>1, <1>2, SealedAdd
  <1>4. QED
    BY <1>1, <1>2, <1>3
=============================================================================
