----------------------------- MODULE GridFPProofs -----------------------------
(***************************************************************************)
(* Proofs about the arithmetic of Grid-FP, for a grid of any size: the     *)
(* words are ranked without collision, an edge turns words into words, the *)
(* groups of a window are closed under its edges, and the counts that the  *)
(* edges of all rows make of the first row add up to the number of paths.  *)
(***************************************************************************)
EXTENDS GridFP, FrontierProofs

Letters == {"N", "R", "L"}

\* What a letter adds to the height.
Val(v) == IF v = "L" THEN 1 ELSE IF v = "R" THEN -1 ELSE 0

\* What the positions a .. b - 1 add to the height.
Bal(m, a, b) == Count(m, a .. b - 1, "L") - Count(m, a .. b - 1, "R")

-----------------------------------------------------------------------------
(***************************************************************************)
(* Heights.                                                                *)
(***************************************************************************)
\* A count is a natural, and is nothing where there are no positions.
LEMMA CountType ==
  ASSUME NEW m, NEW S, IsFiniteSet(S), NEW v
  PROVE  Count(m, S, v) \in Nat /\ Count(m, {}, v) = 0 /\ Count(m, S, v) <= Cardinality(S)
  <1>1. {i \in S : m[i] = v} \in SUBSET S /\ {i \in {} : m[i] = v} = {}
    OBVIOUS
  <1>2. Cardinality({i \in S : m[i] = v}) \in Nat
        /\ Cardinality({i \in S : m[i] = v}) <= Cardinality(S)
    BY <1>1, FS_Subset, FS_CardinalityType
  <1>3. QED
    BY <1>1, <1>2, FS_EmptySet DEF Count

\* Counts over disjoint sets add up.
LEMMA CountUnion ==
  ASSUME NEW m, NEW S, IsFiniteSet(S), NEW T, IsFiniteSet(T), S \cap T = {}, NEW v
  PROVE  Count(m, S \cup T, v) = Count(m, S, v) + Count(m, T, v)
  <1> DEFINE A == {i \in S : m[i] = v}
             B == {i \in T : m[i] = v}
  <1>1. IsFiniteSet(A) /\ IsFiniteSet(B)
    BY FS_Subset
  <1>2. A \cap B = {} /\ {i \in S \cup T : m[i] = v} = A \cup B
    OBVIOUS
  <1>3. Count(m, S, v) = Cardinality(A) /\ Count(m, T, v) = Cardinality(B)
        /\ Count(m, S \cup T, v) = Cardinality(A \cup B)
    BY <1>2 DEF Count
  <1> HIDE DEF A, B
  <1>4. Cardinality(A \cup B) = Cardinality(A) + Cardinality(B) - Cardinality(A \cap B)
    BY <1>1, FS_Union
  <1>5. Cardinality(A \cap B) = 0 /\ Cardinality(A) \in Nat /\ Cardinality(B) \in Nat
    BY <1>1, <1>2, FS_EmptySet, FS_CardinalityType
  <1>6. QED
    BY <1>3, <1>4, <1>5

\* The count of one position.
LEMMA CountOne ==
  ASSUME NEW m, NEW x, NEW v
  PROVE  Count(m, {x}, v) = IF m[x] = v THEN 1 ELSE 0
  <1>1. CASE m[x] = v
    <2>1. {i \in {x} : m[i] = v} = {x}
      BY <1>1
    <2>2. QED
      BY <1>1, <2>1, FS_Singleton DEF Count
  <1>2. CASE m[x] # v
    <2>1. {i \in {x} : m[i] = v} = {}
      BY <1>2
    <2>2. QED
      BY <1>2, <2>1, FS_EmptySet DEF Count
  <1>3. QED
    BY <1>1, <1>2

\* An interval of positions is finite and falls into two at any of its points.
LEMMA Cut ==
  ASSUME NEW a \in Int, NEW b \in Int, NEW c \in Int, a <= b, b <= c
  PROVE  /\ IsFiniteSet(a .. b - 1) /\ IsFiniteSet(b .. c - 1)
         /\ a .. c - 1 = (a .. b - 1) \cup (b .. c - 1)
         /\ (a .. b - 1) \cap (b .. c - 1) = {}
  <1>1. b - 1 \in Int /\ c - 1 \in Int
    OBVIOUS
  <1>2. IsFiniteSet(a .. b - 1) /\ IsFiniteSet(b .. c - 1)
    BY <1>1, FS_Interval
  <1>3. QED
    BY <1>2

\* A balance is an integer, nothing over no positions, and balances add up.
LEMMA BalSplit ==
  ASSUME NEW m, NEW a \in Int, NEW b \in Int, NEW c \in Int, a <= b, b <= c
  PROVE  /\ Bal(m, a, b) \in Int /\ Bal(m, b, c) \in Int
         /\ Bal(m, a, c) = Bal(m, a, b) + Bal(m, b, c)
  <1> DEFINE S == a .. b - 1
             T == b .. c - 1
             U == a .. c - 1
             P(v) == Count(m, S, v)
             Q(v) == Count(m, T, v)
             R(v) == Count(m, U, v)
  <1>1. IsFiniteSet(S) /\ IsFiniteSet(T) /\ U = S \cup T /\ S \cap T = {}
    BY Cut
  <1> HIDE DEF S, T, U
  <1>2. \A v : P(v) \in Nat /\ Q(v) \in Nat /\ R(v) = P(v) + Q(v)
    BY <1>1, CountType, CountUnion
  <1>3. /\ Bal(m, a, b) = P("L") - P("R") /\ Bal(m, b, c) = Q("L") - Q("R")
        /\ Bal(m, a, c) = R("L") - R("R")
    BY DEF Bal, S, T, U
  <1> HIDE DEF P, Q, R
  <1>4. QED
    BY <1>2, <1>3

\* The balance over no position, and over one.
LEMMA BalOne ==
  ASSUME NEW m, NEW a \in Int
  PROVE  Bal(m, a, a) = 0 /\ Bal(m, a, a + 1) = Val(m[a])
  <1>1. a .. a - 1 = {} /\ a .. (a + 1) - 1 = {a}
    OBVIOUS
  <1>2. \A v : Count(m, {}, v) = 0
    BY CountType, FS_EmptySet
  <1>3. Bal(m, a, a) = 0
    BY <1>1, <1>2 DEF Bal
  <1>4. /\ Count(m, {a}, "L") = IF m[a] = "L" THEN 1 ELSE 0
        /\ Count(m, {a}, "R") = IF m[a] = "R" THEN 1 ELSE 0
    BY CountOne
  <1>5. Bal(m, a, a + 1) = Count(m, {a}, "L") - Count(m, {a}, "R")
    BY <1>1 DEF Bal
  <1>6. QED
    BY <1>3, <1>4, <1>5 DEF Val

\* Words that agree on some positions have the same balance over them.
LEMMA BalSame ==
  ASSUME NEW m, NEW t, NEW a \in Int, NEW b \in Int, \A i \in a .. b - 1 : m[i] = t[i]
  PROVE  Bal(m, a, b) = Bal(t, a, b)
  <1>1. \A v : {i \in a .. b - 1 : m[i] = v} = {i \in a .. b - 1 : t[i] = v}
    OBVIOUS
  <1>2. QED
    BY <1>1 DEF Bal, Count

\* So have words one of which is the other one position further up.
LEMMA BalShift ==
  ASSUME NEW s, NEW t, NEW a \in Int, NEW b \in Int, \A i \in a .. b - 1 : s[i] = t[i + 1]
  PROVE  Bal(s, a, b) = Bal(t, a + 1, b + 1)
  <1>1. ASSUME NEW v PROVE Count(s, a .. b - 1, v) = Count(t, (a + 1) .. (b + 1) - 1, v)
    <2> DEFINE S == {i \in a .. b - 1 : s[i] = v}
               T == {i \in (a + 1) .. (b + 1) - 1 : t[i] = v}
               f == [i \in S |-> i + 1]
    <2>1. f \in Bijection(S, T)
      <3>1. \A i \in S : i + 1 \in T
        OBVIOUS
      <3>2. \A j \in T : j - 1 \in S /\ (j - 1) + 1 = j
        OBVIOUS
      <3>3. \A i, j \in S : i + 1 = j + 1 => i = j
        OBVIOUS
      <3> HIDE DEF S, T
      <3>4. f \in [S -> T] /\ \A i \in S : f[i] = i + 1
        BY <3>1
      <3> HIDE DEF f
      <3>5. QED
        BY <3>2, <3>3, <3>4 DEF Bijection, Injection, Surjection, IsInjective
    <2>2. IsFiniteSet(S)
      <3>1. S \in SUBSET (a .. b - 1) /\ b - 1 \in Int
        OBVIOUS
      <3>2. QED
        BY <3>1, FS_Interval, FS_Subset
    <2> HIDE DEF S, T, f
    <2>3. ExistsBijection(S, T)
      BY <2>1 DEF ExistsBijection
    <2>4. Cardinality(S) = Cardinality(T)
      BY <2>2, <2>3, FS_Bijection
    <2>5. QED
      BY <2>4 DEF Count, S, T
  <1>2. QED
    BY <1>1 DEF Bal

\* The height at a position, from that at one above it.
LEMMA HeightFrom ==
  ASSUME NEW m, NEW n \in Nat, NEW q \in 0 .. n, NEW r \in 0 .. n, q <= r
  PROVE  Height(m, n, q) \in Int /\ Height(m, n, q) = Height(m, n, r) + Bal(m, q, r)
  <1>1. q \in Int /\ r \in Int /\ n \in Int /\ r <= n
    OBVIOUS
  <1>2. Height(m, n, q) = 1 + Bal(m, q, n) /\ Height(m, n, r) = 1 + Bal(m, r, n)
    <2> DEFINE P(x) == Count(m, x .. n - 1, "L")
               Q(x) == Count(m, x .. n - 1, "R")
    <2>1. \A x \in {q, r} : P(x) \in Nat /\ Q(x) \in Nat
      BY <1>1, FS_Interval, CountType
    <2>2. \A x : Height(m, n, x) = 1 + P(x) - Q(x) /\ Bal(m, x, n) = P(x) - Q(x)
      BY DEF Height, Bal
    <2> HIDE DEF P, Q
    <2>3. QED
      BY <2>1, <2>2
  <1>3. Bal(m, q, r) \in Int /\ Bal(m, r, n) \in Int /\ Bal(m, q, n) = Bal(m, q, r) + Bal(m, r, n)
    BY <1>1, BalSplit
  <1>4. QED
    BY <1>2, <1>3

\* The height above all positions is one, and each position changes it by its letter.
LEMMA HeightStep ==
  ASSUME NEW m, NEW n \in Nat
  PROVE  /\ Height(m, n, n) = 1
         /\ \A q \in 0 .. n : Height(m, n, q) \in Int
         /\ \A q \in 0 .. n - 1 : Height(m, n, q) = Height(m, n, q + 1) + Val(m[q])
  <1>1. Height(m, n, n) = 1
    <2>1. n .. n - 1 = {} /\ \A v : Count(m, {}, v) = 0
      BY CountType, FS_EmptySet
    <2>2. QED
      BY <2>1 DEF Height
  <1>2. ASSUME NEW q \in 0 .. n PROVE Height(m, n, q) \in Int
    <2>1. q <= q
      OBVIOUS
    <2>2. QED
      BY <2>1, HeightFrom
  <1>3. ASSUME NEW q \in 0 .. n - 1 PROVE Height(m, n, q) = Height(m, n, q + 1) + Val(m[q])
    <2>1. q \in 0 .. n /\ q + 1 \in 0 .. n /\ q <= q + 1 /\ q \in Int
      OBVIOUS
    <2>2. Height(m, n, q) = Height(m, n, q + 1) + Bal(m, q, q + 1)
      BY <2>1, HeightFrom
    <2>3. QED
      BY <2>1, <2>2, BalOne
  <1>4. QED
    BY <1>1, <1>2, <1>3

\* Each position raises the height by one at most.
LEMMA HeightBound ==
  ASSUME NEW m, NEW n \in Nat, NEW q \in 0 .. n
  PROVE  Height(m, n, q) <= 1 + n - q
  <1>1. IsFiniteSet(q .. n - 1) /\ Cardinality(q .. n - 1) = n - q
    <2>1. CASE q = n
      <3>1. q .. n - 1 = {}
        BY <2>1
      <3>2. QED
        BY <2>1, <3>1, FS_EmptySet
    <2>2. CASE q # n
      <3>1. q \in Int /\ n - 1 \in Int /\ ~(q > n - 1) /\ (n - 1) - q + 1 = n - q
        BY <2>2
      <3>2. QED
        BY <3>1, FS_Interval
    <2>3. QED
      BY <2>1, <2>2
  <1> DEFINE l == Count(m, q .. n - 1, "L")
             r == Count(m, q .. n - 1, "R")
  <1>2. l \in Nat /\ r \in Nat /\ l <= n - q
    BY <1>1, CountType
  <1>3. Height(m, n, q) = 1 + l - r
    BY DEF Height
  <1> HIDE DEF l, r
  <1>4. QED
    BY <1>2, <1>3

-----------------------------------------------------------------------------
(***************************************************************************)
(* Ranks.                                                                  *)
(***************************************************************************)
\* One line of H_DP from the one before it.
NextLine(line, w) ==
    [h \in 0 .. MAXW + 1 |->
        IF w = 0 THEN IF h = 0 THEN 1 ELSE 0
        ELSE IF h > MAXW THEN 0
        ELSE line[h] + (IF h > 0 THEN line[h - 1] ELSE 0) + line[h + 1]]

\* The table exists: build_full_dp fills it line by line.
LEMMA H_DPLines ==
  \A w \in 0 .. MAXW : H_DP[w] = NextLine(H_DP[w - 1], w)
  <1> DEFINE Solves(g, k) == g = [w \in 0 .. k |-> NextLine(g[w - 1], w)]
             Bad == {k \in Nat : ~\E g : Solves(g, k)}
  <1>1. Bad = {}
    <2>1. SUFFICES ASSUME Bad # {} PROVE FALSE
      OBVIOUS
    <2>2. PICK k \in Bad : \A j \in Bad : k <= j
      BY <2>1, NatMin
    <2>3. CASE k = 0
      <3> DEFINE g == [w \in 0 .. 0 |-> NextLine(<<>>, 0)]
      <3>1. ASSUME NEW w \in 0 .. 0 PROVE NextLine(g[w - 1], w) = NextLine(<<>>, 0)
        <4>1. w = 0
          OBVIOUS
        <4>2. QED
          BY <4>1 DEF NextLine
      <3>2. Solves(g, 0)
        BY <3>1
      <3>3. QED
        BY <2>2, <2>3, <3>2
    <2>4. CASE k # 0
      <3>1. k \in Nat /\ k - 1 \in Nat /\ ~(k <= k - 1)
        BY <2>4
      <3>2. PICK h : Solves(h, k - 1)
        BY <2>2, <3>1
      <3> DEFINE last == NextLine(h[k - 1], k)
                 g == [w \in 0 .. k |-> IF w = k THEN last ELSE h[w]]
      <3>3. ASSUME NEW w \in 0 .. k PROVE g[w] = NextLine(g[w - 1], w)
        <4>1. CASE w = k
          <5>1. k - 1 \in 0 .. k /\ k - 1 # k
            BY <3>1
          <5>2. g[k - 1] = h[k - 1] /\ g[k] = last
            BY <3>1, <5>1
          <5>3. QED
            BY <4>1, <5>2
        <4>2. CASE w # k
          <5>1. w \in 0 .. k - 1
            BY <3>1, <4>2
          <5>2. h[w] = NextLine(h[w - 1], w) /\ g[w] = h[w]
            BY <3>2, <4>2, <5>1
          <5>3. NextLine(g[w - 1], w) = NextLine(h[w - 1], w)
            <6>1. CASE w = 0
              BY <6>1 DEF NextLine
            <6>2. CASE w # 0
              <7>1. w - 1 \in 0 .. k /\ w - 1 # k
                BY <3>1, <5>1, <6>2
              <7>2. g[w - 1] = h[w - 1]
                BY <7>1
              <7>3. QED
                BY <7>2
            <6>3. QED
              BY <6>1, <6>2
          <5>4. QED
            BY <5>2, <5>3
        <4>3. QED
          BY <4>1, <4>2
      <3>4. g = [w \in 0 .. k |-> g[w]]
        OBVIOUS
      <3> HIDE DEF g
      <3>5. Solves(g, k)
        BY <3>3, <3>4
      <3>6. QED
        BY <2>2, <3>5
    <2>5. QED
      BY <2>3, <2>4
  <1>2. PICK g : Solves(g, MAXW)
    BY <1>1, GridAssumption
  <1>3. H_DP = CHOOSE f : Solves(f, MAXW)
    BY DEF H_DP, NextLine
  <1>4. Solves(H_DP, MAXW)
    BY <1>2, <1>3
  <1> HIDE DEF Solves
  <1>5. ASSUME NEW w \in 0 .. MAXW PROVE H_DP[w] = NextLine(H_DP[w - 1], w)
    BY <1>4 DEF Solves
  <1>6. QED
    BY <1>5

\* Every entry of the table is a natural, and what an entry is the sum of.
LEMMA H_DPDef ==
  /\ \A w \in 0 .. W : \A h \in 0 .. MAXW + 1 : H_DP[w][h] \in Nat
  /\ \A h \in 0 .. MAXW + 1 : H_DP[0][h] = IF h = 0 THEN 1 ELSE 0
  /\ \A w \in 0 .. W - 1 : \A h \in 0 .. MAXW :
        H_DP[w + 1][h] = H_DP[w][h] + (IF h > 0 THEN H_DP[w][h - 1] ELSE 0) + H_DP[w][h + 1]
  <1> DEFINE Good(w) == \A h \in 0 .. MAXW + 1 : H_DP[w][h] \in Nat
             Bad == {w \in 0 .. W : ~Good(w)}
  <1>0. W \in Nat /\ W >= 2 /\ MAXW \in Nat /\ W <= MAXW
    BY GridAssumption
  <1>1. \A w \in 0 .. W : \A h \in 0 .. MAXW + 1 :
           H_DP[w][h] = IF w = 0 THEN IF h = 0 THEN 1 ELSE 0
                        ELSE IF h > MAXW THEN 0
                        ELSE H_DP[w - 1][h] + (IF h > 0 THEN H_DP[w - 1][h - 1] ELSE 0)
                                            + H_DP[w - 1][h + 1]
    <2>1. \A w \in 0 .. W : w \in 0 .. MAXW
      BY <1>0
    <2>2. \A w \in 0 .. W : H_DP[w] = NextLine(H_DP[w - 1], w)
      BY <2>1, H_DPLines
    <2>3. SUFFICES ASSUME NEW w \in 0 .. W, NEW h \in 0 .. MAXW + 1
                   PROVE  NextLine(H_DP[w - 1], w)[h] =
                            IF w = 0 THEN IF h = 0 THEN 1 ELSE 0
                            ELSE IF h > MAXW THEN 0
                            ELSE H_DP[w - 1][h] + (IF h > 0 THEN H_DP[w - 1][h - 1] ELSE 0)
                                                + H_DP[w - 1][h + 1]
      BY <2>2
    <2>4. QED
      BY DEF NextLine
  <1>2. Bad = {}
    <2>1. SUFFICES ASSUME Bad # {} PROVE FALSE
      OBVIOUS
    <2>2. Bad \in SUBSET Nat
      BY <1>0
    <2>3. PICK w \in Bad : \A v \in Bad : w <= v
      BY <2>1, <2>2, NatMin
    <2>4. ASSUME NEW h \in 0 .. MAXW + 1 PROVE H_DP[w][h] \in Nat
      <3>1. CASE w = 0
        <4>1. H_DP[w][h] = IF h = 0 THEN 1 ELSE 0
          BY <1>0, <1>1, <3>1
        <4>2. QED
          BY <4>1
      <3>2. CASE w # 0
        <4> DEFINE f == H_DP[w - 1]
        <4>1. w - 1 \in 0 .. W /\ ~(w <= w - 1)
          BY <1>0, <3>2
        <4>2. \A i \in 0 .. MAXW + 1 : f[i] \in Nat
          BY <2>3, <4>1
        <4>3. H_DP[w][h] = IF h > MAXW THEN 0
                           ELSE f[h] + (IF h > 0 THEN f[h - 1] ELSE 0) + f[h + 1]
          BY <1>1, <3>2
        <4>4. h > 0 => h - 1 \in 0 .. MAXW + 1
          BY <1>0
        <4>5. h <= MAXW => h + 1 \in 0 .. MAXW + 1
          BY <1>0
        <4> HIDE DEF f
        <4>6. f[h] \in Nat /\ (h > 0 => f[h - 1] \in Nat) /\ (h <= MAXW => f[h + 1] \in Nat)
          BY <4>2, <4>4, <4>5
        <4>7. QED
          BY <1>0, <4>3, <4>6
      <3>3. QED
        BY <3>1, <3>2
    <2>5. QED
      BY <2>3, <2>4
  <1>3. ASSUME NEW w \in 0 .. W PROVE Good(w)
    BY <1>2
  <1>4. \A h \in 0 .. MAXW + 1 : H_DP[0][h] = IF h = 0 THEN 1 ELSE 0
    BY <1>0, <1>1
  <1>5. ASSUME NEW w \in 0 .. W - 1, NEW h \in 0 .. MAXW
        PROVE  H_DP[w + 1][h] = H_DP[w][h] + (IF h > 0 THEN H_DP[w][h - 1] ELSE 0) + H_DP[w][h + 1]
    <2>1. w + 1 \in 0 .. W /\ w + 1 # 0 /\ (w + 1) - 1 = w /\ h \in 0 .. MAXW + 1 /\ h <= MAXW
      BY <1>0
    <2>2. ~(h > MAXW)
      BY <1>0
    <2>3. QED
      BY <1>1, <2>1, <2>2
  <1>6. QED
    BY <1>3, <1>4, <1>5

\* The part of the rank that the positions below k make up.
Part(m, n, k) == SumFunctionOnSet([q \in 0 .. n - 1 |-> Below(m, n, q)], 0 .. k - 1)

\* A word has a letter at each position, and no height below zero.
LEMMA WordType ==
  ASSUME NEW n \in Nat, n <= W, NEW m \in Words(n)
  PROVE  /\ \A q \in 0 .. n - 1 : m[q] \in Letters
         /\ Height(m, n, 0) = 0 /\ Height(m, n, n) = 1
         /\ \A q \in 0 .. n : Height(m, n, q) \in Nat /\ Height(m, n, q) <= 1 + n - q
                              /\ Height(m, n, q) <= MAXW
         /\ \A q \in 0 .. n - 1 : Height(m, n, q) = Height(m, n, q + 1) + Val(m[q])
  <1>0. W \in Nat /\ W >= 2 /\ MAXW \in Nat /\ W <= MAXW
    BY GridAssumption
  <1>1. /\ m \in [0 .. n - 1 -> Letters] /\ Height(m, n, 0) = 0
        /\ \A q \in 0 .. n - 1 : Height(m, n, q) >= 0
    BY DEF Words, Letters
  <1>2. /\ Height(m, n, n) = 1
        /\ \A q \in 0 .. n : Height(m, n, q) \in Int /\ Height(m, n, q) <= 1 + n - q
        /\ \A q \in 0 .. n - 1 : Height(m, n, q) = Height(m, n, q + 1) + Val(m[q])
    BY HeightStep, HeightBound
  <1>3. ASSUME NEW q \in 0 .. n
        PROVE  Height(m, n, q) \in Nat /\ Height(m, n, q) <= 1 + n - q /\ Height(m, n, q) <= MAXW
    <2>1. q = n \/ q \in 0 .. n - 1
      OBVIOUS
    <2>2. Height(m, n, q) >= 0
      BY <1>1, <1>2, <2>1
    <2>3. q = 0 \/ 1 + n - q <= MAXW
      BY <1>0
    <2>4. QED
      BY <1>0, <1>1, <1>2, <2>2, <2>3
  <1>4. QED
    BY <1>1, <1>2, <1>3

\* What a position adds to the rank, by its letter.
LEMMA BelowType ==
  ASSUME NEW n \in Nat, n <= W, NEW m \in Words(n), NEW q \in 0 .. n - 1,
         NEW h, h = Height(m, n, q + 1)
  PROVE  /\ h \in Nat /\ h <= MAXW /\ q \in 0 .. W - 1
         /\ m[q] = "N" => Below(m, n, q) = 0 /\ Height(m, n, q) = h
         /\ m[q] = "R" => /\ Below(m, n, q) = H_DP[q][h]
                          /\ h > 0 /\ Height(m, n, q) = h - 1
         /\ m[q] = "L" => /\ Below(m, n, q) = H_DP[q][h] + (IF h > 0 THEN H_DP[q][h - 1] ELSE 0)
                          /\ Height(m, n, q) = h + 1
         /\ m[q] \in Letters /\ Below(m, n, q) \in Nat
  <1>1. q \in 0 .. n /\ q + 1 \in 0 .. n /\ q \in 0 .. W - 1 /\ q \in 0 .. W /\ W \in Nat /\ MAXW \in Nat
    BY GridAssumption
  <1>2. /\ h \in Nat /\ h <= MAXW /\ m[q] \in Letters /\ Height(m, n, q) \in Nat
        /\ Height(m, n, q) = h + Val(m[q])
    BY <1>1, WordType
  <1>3. Below(m, n, q) = (IF m[q] = "N" THEN 0 ELSE H_DP[q][h])
                         + (IF m[q] = "L" /\ h > 0 THEN H_DP[q][h - 1] ELSE 0)
    BY DEF Below
  <1>4. h \in 0 .. MAXW + 1 /\ (h > 0 => h - 1 \in 0 .. MAXW + 1)
    BY <1>1, <1>2
  <1>5. H_DP[q][h] \in Nat /\ (h > 0 => H_DP[q][h - 1] \in Nat)
    BY <1>1, <1>4, H_DPDef
  <1>6. CASE m[q] = "N"
    BY <1>1, <1>2, <1>3, <1>5, <1>6 DEF Val
  <1>7. CASE m[q] = "R"
    BY <1>1, <1>2, <1>3, <1>5, <1>7 DEF Val
  <1>8. CASE m[q] = "L"
    BY <1>1, <1>2, <1>3, <1>5, <1>8 DEF Val
  <1>9. QED
    BY <1>2, <1>6, <1>7, <1>8 DEF Letters

\* The parts of a rank, position by position.
LEMMA PartStep ==
  ASSUME NEW n \in Nat, n <= W, NEW m \in Words(n)
  PROVE  /\ Part(m, n, 0) = 0 /\ Part(m, n, n) = rank_full(m, n)
         /\ \A q \in 0 .. n - 1 : /\ Part(m, n, q) \in Nat
                                  /\ Part(m, n, q + 1) = Below(m, n, q) + Part(m, n, q)
  <1> DEFINE f == [q \in 0 .. n - 1 |-> Below(m, n, q)]
  <1>1. \A q \in 0 .. n - 1 : f[q] \in Nat /\ f[q] = Below(m, n, q)
    BY BelowType
  <1>2. DOMAIN f = 0 .. n - 1 /\ rank_full(m, n) = SumFunctionOnSet(f, DOMAIN f)
    BY DEF rank_full, SumFunction
  <1>3. \A k : Part(m, n, k) = SumFunctionOnSet(f, 0 .. k - 1)
    BY DEF Part
  <1> HIDE DEF f
  <1>4. Part(m, n, 0) = 0
    <2>1. 0 .. 0 - 1 = {}
      OBVIOUS
    <2>2. QED
      BY <1>3, <2>1, SumEmpty
  <1>5. ASSUME NEW q \in 0 .. n - 1
        PROVE  Part(m, n, q) \in Nat /\ Part(m, n, q + 1) = Below(m, n, q) + Part(m, n, q)
    <2> DEFINE S == 0 .. q - 1
    <2>1. 0 .. (q + 1) - 1 = S \cup {q} /\ q \notin S
      OBVIOUS
    <2>2. \A y \in S \cup {q} : y \in 0 .. n - 1
      OBVIOUS
    <2>3. IsFiniteSet(S)
      <3>1. 0 \in Int /\ q - 1 \in Int
        OBVIOUS
      <3>2. QED
        BY <3>1, FS_Interval
    <2>4. Part(m, n, q) = SumFunctionOnSet(f, S) /\ Part(m, n, q + 1) = SumFunctionOnSet(f, S \cup {q})
      BY <1>3, <2>1
    <2> HIDE DEF S
    <2>5. \A y \in S \cup {q} : f[y] \in Nat
      BY <1>1, <2>2
    <2>6. SumFunctionOnSet(f, S \cup {q}) = f[q] + SumFunctionOnSet(f, S)
      BY <2>1, <2>3, <2>5, SumAdd
    <2>7. SumFunctionOnSet(f, S) \in Nat
      BY <2>3, <2>5, SumType
    <2>8. QED
      BY <1>1, <2>4, <2>6, <2>7
  <1>6. QED
    BY <1>2, <1>3, <1>4, <1>5

\* The parts of ranks: how large they are, and that they tell words apart.
LEMMA RankPart ==
  ASSUME NEW n \in Nat, n <= W, NEW k \in 0 .. n
  PROVE  /\ \A m \in Words(n) : Part(m, n, k) \in Nat /\ Part(m, n, k) < H_DP[k][Height(m, n, k)]
         /\ \A m \in Words(n) : \A t \in Words(n) :
               Height(m, n, k) = Height(t, n, k) /\ Part(m, n, k) = Part(t, n, k)
                  => \A i \in 0 .. k - 1 : m[i] = t[i]
  <1> DEFINE Small(j) == \A m \in Words(n) :
                Part(m, n, j) \in Nat /\ Part(m, n, j) < H_DP[j][Height(m, n, j)]
             Apart(j) == \A m \in Words(n) : \A t \in Words(n) :
                Height(m, n, j) = Height(t, n, j) /\ Part(m, n, j) = Part(t, n, j)
                  => \A i \in 0 .. j - 1 : m[i] = t[i]
             Bad == {j \in 0 .. n : ~(Small(j) /\ Apart(j))}
  <1>0. W \in Nat /\ W >= 2 /\ MAXW \in Nat /\ W <= MAXW
    BY GridAssumption
  <1>1. SUFFICES ASSUME Bad # {} PROVE FALSE
    OBVIOUS
  <1>2. PICK j \in Bad : \A l \in Bad : j <= l
    <2>1. Bad \in SUBSET Nat
      OBVIOUS
    <2> HIDE DEF Bad
    <2>2. QED
      BY <1>1, <2>1, NatMin
  <1>3. CASE j = 0
    <2>1. ASSUME NEW m \in Words(n) PROVE Part(m, n, 0) = 0 /\ Height(m, n, 0) = 0
      BY <2>1, PartStep, WordType
    <2>2. H_DP[0][0] = 1
      BY <1>0, H_DPDef
    <2>3. Small(0)
      BY <2>1, <2>2
    <2>4. Apart(0)
      OBVIOUS
    <2> HIDE DEF Small, Apart
    <2>5. QED
      BY <1>3, <2>3, <2>4
  <1>4. CASE j # 0
    <2> DEFINE q == j - 1
    <2>1. q \in 0 .. n /\ q \in 0 .. n - 1 /\ j = q + 1 /\ ~(j <= q) /\ q \in 0 .. W - 1 /\ q \in 0 .. W
      BY <1>0, <1>4
    <2>2. Small(q) /\ Apart(q)
      <3> HIDE DEF Small, Apart, q
      <3>1. QED
        BY <1>2, <2>1
    <2> HIDE DEF q
    <2> DEFINE A(h) == H_DP[q][h]
               B(h) == IF h > 0 THEN H_DP[q][h - 1] ELSE 0
               C(h) == H_DP[q][h + 1]
    <2>3. ASSUME NEW m \in Words(n), NEW h, h = Height(m, n, j)
          PROVE  /\ Part(m, n, q) \in Nat /\ A(h) \in Nat /\ B(h) \in Nat /\ C(h) \in Nat
                 /\ H_DP[j][h] = A(h) + B(h) + C(h)
                 /\ h \in Nat
                 /\ \/ /\ m[q] = "N" /\ Height(m, n, q) = h
                       /\ Part(m, n, j) = Part(m, n, q) /\ Part(m, n, q) < A(h)
                    \/ /\ m[q] = "R" /\ Height(m, n, q) = h - 1
                       /\ Part(m, n, j) = A(h) + Part(m, n, q) /\ Part(m, n, q) < B(h)
                    \/ /\ m[q] = "L" /\ Height(m, n, q) = h + 1
                       /\ Part(m, n, j) = A(h) + B(h) + Part(m, n, q) /\ Part(m, n, q) < C(h)
      <3>1. /\ h \in Nat /\ h <= MAXW
            /\ m[q] = "N" => Below(m, n, q) = 0 /\ Height(m, n, q) = h
            /\ m[q] = "R" => /\ Below(m, n, q) = H_DP[q][h]
                             /\ h > 0 /\ Height(m, n, q) = h - 1
            /\ m[q] = "L" => /\ Below(m, n, q) = H_DP[q][h] + (IF h > 0 THEN H_DP[q][h - 1] ELSE 0)
                             /\ Height(m, n, q) = h + 1
            /\ m[q] \in Letters
        BY <2>1, <2>3, BelowType
      <3>2. Part(m, n, q) \in Nat /\ Part(m, n, j) = Below(m, n, q) + Part(m, n, q)
        BY <2>1, PartStep
      <3>3. Part(m, n, q) < H_DP[q][Height(m, n, q)]
        BY <2>2
      <3>4. h \in 0 .. MAXW + 1 /\ h \in 0 .. MAXW /\ h + 1 \in 0 .. MAXW + 1
            /\ (h > 0 => h - 1 \in 0 .. MAXW + 1)
        BY <1>0, <3>1
      <3>5. A(h) \in Nat /\ B(h) \in Nat /\ C(h) \in Nat
        BY <2>1, <3>4, H_DPDef
      <3>6. H_DP[j][h] = A(h) + B(h) + C(h)
        BY <2>1, <3>4, H_DPDef
      <3>7. CASE m[q] = "N"
        <4>1. Part(m, n, q) < A(h) /\ Part(m, n, j) = Part(m, n, q)
          BY <3>1, <3>2, <3>3, <3>7
        <4>2. QED
          BY <3>1, <3>2, <3>5, <3>6, <3>7, <4>1
      <3>8. CASE m[q] = "R"
        <4>1. Part(m, n, q) < B(h) /\ Part(m, n, j) = A(h) + Part(m, n, q)
          BY <3>1, <3>2, <3>3, <3>8
        <4>2. QED
          BY <3>1, <3>2, <3>5, <3>6, <3>8, <4>1
      <3>9. CASE m[q] = "L"
        <4>1. Part(m, n, q) < C(h) /\ Part(m, n, j) = A(h) + B(h) + Part(m, n, q)
          BY <3>1, <3>2, <3>3, <3>9
        <4>2. QED
          BY <3>1, <3>2, <3>5, <3>6, <3>9, <4>1
      <3>10. QED
        BY <3>1, <3>7, <3>8, <3>9 DEF Letters
    <2> HIDE DEF A, B, C
    <2>4. Small(j)
      <3>1. ASSUME NEW m \in Words(n)
            PROVE  Part(m, n, j) \in Nat /\ Part(m, n, j) < H_DP[j][Height(m, n, j)]
        <4> DEFINE h == Height(m, n, j)
                   r == Part(m, n, q)
        <4>1. /\ r \in Nat /\ A(h) \in Nat /\ B(h) \in Nat /\ C(h) \in Nat
              /\ H_DP[j][h] = A(h) + B(h) + C(h)
              /\ \/ Part(m, n, j) = r /\ r < A(h)
                 \/ Part(m, n, j) = A(h) + r /\ r < B(h)
                 \/ Part(m, n, j) = A(h) + B(h) + r /\ r < C(h)
          BY <2>3
        <4> HIDE DEF h, r
        <4>2. Part(m, n, j) \in Nat /\ Part(m, n, j) < H_DP[j][h]
          BY <4>1
        <4>3. QED
          BY <4>2 DEF h
      <3>2. QED
        BY <3>1
    <2>5. Apart(j)
      <3>1. ASSUME NEW m \in Words(n), NEW t \in Words(n), NEW i \in 0 .. j - 1,
                   Height(m, n, j) = Height(t, n, j), Part(m, n, j) = Part(t, n, j)
            PROVE  m[i] = t[i]
        <4> DEFINE h == Height(m, n, j)
                   r == Part(m, n, q)
                   s == Part(t, n, q)
                   a == A(h)
                   b == B(h)
                   c == C(h)
                   p == Part(m, n, j)
        <4>1. /\ r \in Nat /\ a \in Nat /\ b \in Nat /\ c \in Nat /\ h \in Nat
              /\ \/ m[q] = "N" /\ Height(m, n, q) = h /\ p = r /\ r < a
                 \/ m[q] = "R" /\ Height(m, n, q) = h - 1 /\ p = a + r /\ r < b
                 \/ m[q] = "L" /\ Height(m, n, q) = h + 1 /\ p = a + b + r /\ r < c
          BY <2>3
        <4>2. /\ s \in Nat
              /\ \/ t[q] = "N" /\ Height(t, n, q) = h /\ p = s /\ s < a
                 \/ t[q] = "R" /\ Height(t, n, q) = h - 1 /\ p = a + s /\ s < b
                 \/ t[q] = "L" /\ Height(t, n, q) = h + 1 /\ p = a + b + s /\ s < c
          BY <2>3, <3>1
        <4> HIDE DEF h, r, s, a, b, c, p
        <4>3. m[q] = t[q] /\ Height(m, n, q) = Height(t, n, q) /\ r = s
          BY <4>1, <4>2
        <4>4. \A l \in 0 .. q - 1 : m[l] = t[l]
          BY <2>2, <4>3 DEF r, s
        <4>5. i = q \/ i \in 0 .. q - 1
          BY <2>1, <3>1
        <4>6. QED
          BY <4>3, <4>4, <4>5
      <3>2. QED
        BY <3>1
    <2>6. QED
      <3> HIDE DEF Small, Apart
      <3>1. QED
        BY <1>2, <2>4, <2>5
  <1>5. QED
    BY <1>3, <1>4

\* A word is determined by its rank.
THEOREM RankInjective ==
  ASSUME NEW n \in Nat, n <= W
  PROVE  /\ \A m \in Words(n) : rank_full(m, n) \in 0 .. H_DP[n][1] - 1
         /\ \A m \in Words(n) : \A t \in Words(n) : rank_full(m, n) = rank_full(t, n) => m = t
  <1>1. n \in 0 .. n /\ n \in 0 .. W /\ 1 \in 0 .. MAXW + 1
    BY GridAssumption
  <1>2. \A m \in Words(n) : Part(m, n, n) = rank_full(m, n) /\ Height(m, n, n) = 1
    BY PartStep, WordType
  <1>3. H_DP[n][1] \in Nat
    BY <1>1, H_DPDef
  <1>4. ASSUME NEW m \in Words(n) PROVE rank_full(m, n) \in 0 .. H_DP[n][1] - 1
    <2>1. Part(m, n, n) \in Nat /\ Part(m, n, n) < H_DP[n][Height(m, n, n)]
      BY <1>1, RankPart
    <2>2. rank_full(m, n) \in Nat /\ rank_full(m, n) < H_DP[n][1]
      BY <1>2, <2>1
    <2>3. QED
      BY <1>3, <2>2
  <1>5. ASSUME NEW m \in Words(n), NEW t \in Words(n), rank_full(m, n) = rank_full(t, n)
        PROVE  m = t
    <2>1. \A i \in 0 .. n - 1 : m[i] = t[i]
      BY <1>1, <1>2, <1>5, RankPart
    <2>2. m \in [0 .. n - 1 -> Letters] /\ t \in [0 .. n - 1 -> Letters]
      BY DEF Words, Letters
    <2>3. QED
      BY <2>1, <2>2
  <1>6. QED
    BY <1>4, <1>5

\* Any start of a word, from the top, can be completed below to have any rank there is room for.
LEMMA Complete ==
  ASSUME NEW n \in Nat, n <= W, NEW k \in 0 .. n,
         NEW m \in [0 .. n - 1 -> Letters], \A q \in k .. n : Height(m, n, q) >= 0,
         NEW r \in Nat, r < H_DP[k][Height(m, n, k)]
  PROVE  \E t \in Words(n) : (\A i \in k .. n - 1 : t[i] = m[i]) /\ Part(t, n, k) = r
  <1> DEFINE Opened(j, u) == \A q \in j .. n : Height(u, n, q) >= 0
             Closing(j, u, s) == \E t \in Words(n) : (\A i \in j .. n - 1 : t[i] = u[i]) /\ Part(t, n, j) = s
             Good(j) == \A u \in [0 .. n - 1 -> Letters] : Opened(j, u) =>
                           \A s \in Nat : s < H_DP[j][Height(u, n, j)] => Closing(j, u, s)
             Bad == {j \in 0 .. n : ~Good(j)}
  <1>0. W \in Nat /\ W >= 2 /\ MAXW \in Nat /\ W <= MAXW
    BY GridAssumption
  <1>1. ASSUME Bad # {} PROVE FALSE
    <2>1. PICK j \in Bad : \A l \in Bad : j <= l
      <3>1. Bad \in SUBSET Nat
        OBVIOUS
      <3> HIDE DEF Bad
      <3>2. QED
        BY <1>1, <3>1, NatMin
    <2>2. PICK u \in [0 .. n - 1 -> Letters] :
             Opened(j, u) /\ ~(\A s \in Nat : s < H_DP[j][Height(u, n, j)] => Closing(j, u, s))
      BY <2>1
    <2>3. PICK s \in Nat : s < H_DP[j][Height(u, n, j)] /\ ~Closing(j, u, s)
      BY <2>2
    <2>4. /\ \A q \in 0 .. n : Height(u, n, q) \in Int /\ Height(u, n, q) <= 1 + n - q
          /\ \A q \in 0 .. n - 1 : Height(u, n, q) = Height(u, n, q + 1) + Val(u[q])
      BY HeightStep, HeightBound
    <2>5. CASE j = 0
      <3>1. Height(u, n, 0) \in Int /\ Height(u, n, 0) <= 1 + n - 0 /\ Height(u, n, 0) >= 0
        BY <2>2, <2>4, <2>5
      <3>2. Height(u, n, 0) \in 0 .. MAXW + 1
        BY <1>0, <3>1
      <3>3. Height(u, n, 0) = 0 /\ s = 0
        BY <2>3, <2>5, <3>2, H_DPDef
      <3>4. u \in Words(n)
        BY <2>2, <2>5, <3>3 DEF Words, Letters
      <3>5. Part(u, n, 0) = 0
        BY <3>4, PartStep
      <3>6. QED
        BY <2>3, <2>5, <3>3, <3>4, <3>5
    <2>6. CASE j # 0
      <3> DEFINE q == j - 1
                 h == Height(u, n, j)
                 A == H_DP[q][h]
                 B == IF h > 0 THEN H_DP[q][h - 1] ELSE 0
                 C == H_DP[q][h + 1]
                 With(v) == [u EXCEPT ![q] = v]
      <3>1. /\ q \in 0 .. n /\ q \in 0 .. n - 1 /\ q \in 0 .. W /\ j = q + 1 /\ q \in 0 .. W - 1
            /\ ~(j <= q) /\ j \in 0 .. n
        BY <1>0, <2>1, <2>6
      <3>2. Good(q)
        <4> HIDE DEF Good, q
        <4>1. QED
          BY <2>1, <3>1
      <3> HIDE DEF q
      <3>3. h \in Nat /\ h <= 1 + n - j
        BY <2>2, <2>4, <3>1
      <3>4. /\ h \in 0 .. MAXW + 1 /\ h \in 0 .. MAXW /\ h + 1 \in 0 .. MAXW + 1
            /\ (h > 0 => h - 1 \in 0 .. MAXW + 1)
        <4>1. h \in Nat /\ h <= 1 + n - j /\ j \in Nat /\ j >= 1 /\ n <= W
          BY <2>1, <2>6, <3>3
        <4> HIDE DEF h
        <4>2. h <= W
          BY <1>0, <4>1
        <4>3. QED
          BY <1>0, <4>1, <4>2
      <3>5. A \in Nat /\ B \in Nat /\ C \in Nat /\ H_DP[j][h] = A + B + C
        <4>1. A \in Nat /\ B \in Nat /\ C \in Nat
          BY <3>1, <3>4, H_DPDef
        <4>2. H_DP[j][h] = A + B + C
          BY <3>1, <3>4, H_DPDef
        <4>3. QED
          BY <4>1, <4>2
      \* Whatever letter is put at q, the rank below has to make up the rest.
      <3>6. ASSUME NEW v \in Letters, NEW b \in Nat, NEW d \in Nat, s = b + d,
                   h + Val(v) >= 0, d < H_DP[q][h + Val(v)],
                   v = "N" => b = 0, v = "R" => b = A, v = "L" => b = A + B
            PROVE  FALSE
        <4> DEFINE w == With(v)
        <4>1. w \in [0 .. n - 1 -> Letters] /\ w[q] = v /\ \A i \in j .. n - 1 : w[i] = u[i]
          BY <3>1
        <4> HIDE DEF w
        <4>2. \A x \in j .. n : Height(w, n, x) = Height(u, n, x)
          <5>1. ASSUME NEW x \in j .. n PROVE Height(w, n, x) = Height(u, n, x)
            <6>1. \A i \in x .. n - 1 : w[i] = u[i]
              BY <3>1, <4>1
            <6>2. \A l : {i \in x .. n - 1 : w[i] = l} = {i \in x .. n - 1 : u[i] = l}
              BY <6>1
            <6>3. QED
              BY <6>2 DEF Height, Count
          <5>2. QED
            BY <5>1
        <4>3. Height(w, n, j) = h
          BY <3>1, <4>2
        <4>4. Height(w, n, q) = h + Val(v)
          BY <3>1, <4>1, <4>3, HeightStep
        <4>5. Opened(q, w)
          <5>1. ASSUME NEW x \in q .. n PROVE Height(w, n, x) >= 0
            <6>1. x = q \/ x \in j .. n
              BY <3>1
            <6>2. QED
              BY <2>2, <3>6, <4>2, <4>4, <6>1
          <5>2. QED
            BY <5>1
        <4>6. Closing(q, w, d)
          <5> HIDE DEF Opened, Closing
          <5>1. QED
            BY <3>2, <3>6, <4>1, <4>4, <4>5
        <4>7. PICK t \in Words(n) : (\A i \in q .. n - 1 : t[i] = w[i]) /\ Part(t, n, q) = d
          BY <4>6
        <4>8. \A i \in j .. n - 1 : t[i] = u[i]
          <5>1. ASSUME NEW i \in j .. n - 1 PROVE t[i] = u[i]
            <6>1. i \in q .. n - 1 /\ i # q
              BY <3>1, <5>1
            <6>2. t[i] = w[i]
              BY <4>7, <6>1
            <6>3. w[i] = u[i]
              BY <4>1, <6>1
            <6>4. QED
              BY <6>2, <6>3
          <5>2. QED
            BY <5>1
        <4>9. Height(t, n, j) = h
          <5>1. \A l : {i \in j .. n - 1 : t[i] = l} = {i \in j .. n - 1 : u[i] = l}
            BY <4>8
          <5>2. QED
            BY <5>1 DEF Height, Count
        <4>10. t[q] = v
          BY <3>1, <4>1, <4>7
        <4>11. Below(t, n, q) = b
          <5>1. /\ t[q] = "N" => Below(t, n, q) = 0
                /\ t[q] = "R" => Below(t, n, q) = A
                /\ t[q] = "L" => Below(t, n, q) = A + B
            BY <3>1, <4>9, BelowType
          <5>2. QED
            BY <3>6, <4>10, <5>1 DEF Letters
        <4>12. Part(t, n, j) = s
          <5>1. Part(t, n, j) = Below(t, n, q) + Part(t, n, q)
            BY <3>1, PartStep
          <5>2. QED
            BY <3>6, <4>7, <4>11, <5>1
        <4>13. QED
          BY <2>3, <4>8, <4>12
      <3> DEFINE a == A
                 b == B
                 c == C
      <3>7. a \in Nat /\ b \in Nat /\ c \in Nat /\ s < a + b + c
        BY <2>3, <3>5
      <3> HIDE DEF a, b, c
      <3>8. CASE s < a
        <4>1. s = 0 + s /\ h + Val("N") = h /\ "N" \in Letters /\ 0 \in Nat /\ h >= 0
          BY <3>3 DEF Val, Letters
        <4>2. QED
          BY <3>8, <4>1, <3>6 DEF a
      <3>9. CASE a <= s /\ s < a + b
        <4>1. s = a + (s - a) /\ s - a \in Nat /\ s - a < b
          BY <3>7, <3>9
        <4>2. h > 0 /\ b = H_DP[q][h - 1]
          BY <3>3, <4>1 DEF b
        <4>3. h + Val("R") = h - 1 /\ h - 1 >= 0 /\ "R" \in Letters
          BY <3>3, <4>2 DEF Val, Letters
        <4>4. a = A
          BY DEF a
        <4> DEFINE d == s - a
        <4>5. s = a + d /\ d \in Nat /\ d < H_DP[q][h + Val("R")] /\ h + Val("R") >= 0
          BY <4>1, <4>2, <4>3
        <4> HIDE DEF d
        <4>6. QED
          BY <3>7, <4>3, <4>4, <4>5, <3>6
      <3>10. CASE a + b <= s
        <4>1. s = (a + b) + (s - (a + b)) /\ s - (a + b) \in Nat /\ s - (a + b) < c /\ a + b \in Nat
          BY <3>7, <3>10
        <4>2. h + Val("L") = h + 1 /\ h + 1 >= 0 /\ "L" \in Letters
          BY <3>3 DEF Val, Letters
        <4>3. a + b = A + B /\ c = H_DP[q][h + 1]
          BY DEF a, b, c
        <4> DEFINE d == s - (a + b)
                   e == a + b
        <4>5. s = e + d /\ d \in Nat /\ e \in Nat /\ d < H_DP[q][h + Val("L")] /\ h + Val("L") >= 0
              /\ e = A + B
          BY <4>1, <4>2, <4>3
        <4> HIDE DEF d, e
        <4>6. QED
          BY <4>2, <4>5, <3>6
      <3>11. QED
        BY <3>7, <3>8, <3>9, <3>10
    <2>7. QED
      BY <2>5, <2>6
  <1>2. Good(k)
    <2> HIDE DEF Good
    <2>1. QED
      BY <1>1
  <1>3. QED
    BY <1>2

\* Every number below H_DP[n][1] is the rank of a word.
THEOREM RankOnto ==
  ASSUME NEW n \in Nat, n <= W, NEW r \in 0 .. H_DP[n][1] - 1
  PROVE  \E t \in Words(n) : rank_full(t, n) = r
  <1> DEFINE m == [q \in 0 .. n - 1 |-> "N"]
  <1>1. n \in 0 .. n /\ n \in 0 .. W /\ 1 \in 0 .. MAXW + 1
    BY GridAssumption
  <1>2. H_DP[n][1] \in Nat
    BY <1>1, H_DPDef
  <1>3. m \in [0 .. n - 1 -> Letters] /\ Height(m, n, n) = 1
    BY HeightStep DEF Letters
  <1> HIDE DEF m
  <1>4. \A q \in n .. n : Height(m, n, q) >= 0
    BY <1>3
  <1>5. r \in Nat /\ r < H_DP[n][Height(m, n, n)]
    BY <1>2, <1>3
  <1>6. PICK t \in Words(n) : Part(t, n, n) = r
    BY <1>1, <1>3, <1>4, <1>5, Complete
  <1>7. QED
    BY <1>6, PartStep

-----------------------------------------------------------------------------
(***************************************************************************)
(* Words stay words.                                                       *)
(***************************************************************************)
\* A balance is an integer, and goes on by one position at either end.
LEMMA BalStep ==
  ASSUME NEW m, NEW a \in Int, NEW b \in Int, a < b
  PROVE  /\ Bal(m, a, b) \in Int
         /\ Bal(m, a, b) = Val(m[a]) + Bal(m, a + 1, b) /\ Bal(m, a + 1, b) \in Int
         /\ Bal(m, a, b) = Bal(m, a, b - 1) + Val(m[b - 1]) /\ Bal(m, a, b - 1) \in Int
  <1>1. a + 1 \in Int /\ b - 1 \in Int /\ a <= a + 1 /\ a + 1 <= b /\ a <= b - 1 /\ b - 1 <= b
        /\ (b - 1) + 1 = b
    OBVIOUS
  <1>2. Bal(m, a, a + 1) = Val(m[a]) /\ Bal(m, b - 1, b) = Val(m[b - 1])
    BY <1>1, BalOne
  <1>3. /\ Bal(m, a, a + 1) \in Int /\ Bal(m, a + 1, b) \in Int
        /\ Bal(m, a, b) = Bal(m, a, a + 1) + Bal(m, a + 1, b)
    BY <1>1, BalSplit
  <1>4. /\ Bal(m, a, b - 1) \in Int /\ Bal(m, b - 1, b) \in Int
        /\ Bal(m, a, b) = Bal(m, a, b - 1) + Bal(m, b - 1, b)
    BY <1>1, BalSplit
  <1>5. QED
    BY <1>2, <1>3, <1>4

\* A word changed between two positions is a word if the change is as high and never below zero.
LEMMA Replace ==
  ASSUME NEW n \in Nat, NEW m \in Words(n), NEW t \in [0 .. n - 1 -> Letters],
         NEW lo \in 0 .. n, NEW hi \in 0 .. n, lo <= hi,
         \A i \in 0 .. n - 1 : i < lo \/ i >= hi => t[i] = m[i],
         Bal(t, lo, hi) = Bal(m, lo, hi),
         \A q \in lo + 1 .. hi - 1 : Height(m, n, hi) + Bal(t, q, hi) >= 0
  PROVE  t \in Words(n)
  <1>0. /\ Height(m, n, 0) = 0 /\ \A q \in 0 .. n - 1 : Height(m, n, q) >= 0
        /\ Height(m, n, n) = 1
    BY HeightStep DEF Words
  <1>1. Height(m, n, hi) = 1 + Bal(m, hi, n) /\ Height(t, n, hi) = 1 + Bal(t, hi, n)
    <2>1. n \in 0 .. n /\ hi <= n
      OBVIOUS
    <2>2. Height(m, n, n) = 1 /\ Height(t, n, n) = 1
      BY HeightStep
    <2>3. /\ Height(m, n, hi) = Height(m, n, n) + Bal(m, hi, n)
          /\ Height(t, n, hi) = Height(t, n, n) + Bal(t, hi, n)
      BY <2>1, HeightFrom
    <2>4. QED
      BY <2>2, <2>3
  <1>2. ASSUME NEW q \in 0 .. n, hi <= q PROVE Height(t, n, q) = Height(m, n, q)
    <2>1. n \in 0 .. n /\ q <= n /\ q \in Int /\ n \in Int
      OBVIOUS
    <2>2. /\ Height(m, n, q) = Height(m, n, n) + Bal(m, q, n)
          /\ Height(t, n, q) = Height(t, n, n) + Bal(t, q, n)
      BY <2>1, HeightFrom
    <2>3. \A i \in q .. n - 1 : m[i] = t[i]
      BY <1>2
    <2>4. Bal(m, q, n) = Bal(t, q, n)
      BY <2>1, <2>3, BalSame
    <2>5. QED
      BY <2>2, <2>4, HeightStep
  <1>3. Height(t, n, hi) = Height(m, n, hi) /\ hi <= hi
    BY <1>2
  <1>4. Height(t, n, lo) = Height(m, n, lo)
    <2>1. /\ Height(m, n, lo) = Height(m, n, hi) + Bal(m, lo, hi)
          /\ Height(t, n, lo) = Height(t, n, hi) + Bal(t, lo, hi)
      BY HeightFrom
    <2>2. QED
      BY <2>1, <1>3
  <1>5. ASSUME NEW q \in 0 .. n, q <= lo PROVE Height(t, n, q) = Height(m, n, q)
    <2>1. /\ Height(m, n, q) = Height(m, n, lo) + Bal(m, q, lo)
          /\ Height(t, n, q) = Height(t, n, lo) + Bal(t, q, lo)
      BY <1>5, HeightFrom
    <2>2. q \in Int /\ lo \in Int /\ \A i \in q .. lo - 1 : m[i] = t[i]
      OBVIOUS
    <2>3. Bal(m, q, lo) = Bal(t, q, lo)
      BY <2>2, BalSame
    <2>4. QED
      BY <2>1, <2>3, <1>4
  <1>6. ASSUME NEW q \in 0 .. n - 1 PROVE Height(t, n, q) >= 0
    <2>1. CASE q <= lo
      <3>1. q \in 0 .. n
        OBVIOUS
      <3>2. QED
        BY <1>0, <1>5, <2>1, <3>1
    <2>2. CASE hi <= q
      <3>1. q \in 0 .. n
        OBVIOUS
      <3>2. QED
        BY <1>0, <1>2, <2>2, <3>1
    <2>3. CASE lo < q /\ q < hi
      <3>1. q \in 0 .. n /\ q <= hi /\ q \in lo + 1 .. hi - 1
        BY <2>3
      <3>2. Height(t, n, q) = Height(t, n, hi) + Bal(t, q, hi)
        BY <3>1, HeightFrom
      <3>3. QED
        BY <1>3, <3>1, <3>2
    <2>4. QED
      BY <2>1, <2>2, <2>3
  <1>7. Height(t, n, 0) = 0
    <2>1. 0 \in 0 .. n /\ 0 <= lo
      OBVIOUS
    <2>2. QED
      BY <1>0, <1>5, <2>1
  <1>8. QED
    BY <1>6, <1>7 DEF Words, Letters

\* Balances over the positions p and p - 1.
LEMMA BalPair ==
  ASSUME NEW m, NEW p \in Int
  PROVE  /\ Bal(m, p, p + 1) = Val(m[p])
         /\ Bal(m, p - 1, p) = Val(m[p - 1])
         /\ Bal(m, p - 1, p + 1) = Val(m[p - 1]) + Val(m[p])
  <1>1. p - 1 \in Int /\ p + 1 \in Int /\ p - 1 <= p /\ p <= p + 1 /\ (p - 1) + 1 = p
    OBVIOUS
  <1>2. Bal(m, p, p + 1) = Val(m[p]) /\ Bal(m, p - 1, p) = Val(m[p - 1])
    BY <1>1, BalOne
  <1>3. Bal(m, p - 1, p + 1) = Bal(m, p - 1, p) + Bal(m, p, p + 1)
    BY <1>1, BalSplit
  <1>4. QED
    BY <1>2, <1>3

\* Two letters for the two of an edge, as high together: a word, whatever is in the rest.
LEMMA ReplacePair ==
  ASSUME NEW m \in Words(W), NEW p \in 1 .. W - 1, NEW a \in Letters, NEW b \in Letters,
         Val(a) + Val(b) = Val(m[p]) + Val(m[p - 1]), Val(a) >= 0 \/ a = m[p] \/ Val(b) = 0
  PROVE  /\ Put(m, p, a, b) \in Words(W)
         /\ Put(m, p, a, b)[p] = a /\ Put(m, p, a, b)[p - 1] = b
         /\ \A i \in 0 .. W - 1 : i # p /\ i # p - 1 => Put(m, p, a, b)[i] = m[i]
  <1> DEFINE t == Put(m, p, a, b)
             lo == p - 1
             hi == p + 1
  <1>0. W \in Nat /\ W >= 2 /\ p \in 0 .. W - 1 /\ p - 1 \in 0 .. W - 1 /\ p # p - 1 /\ p \in Int
    BY GridAssumption
  <1>1. m \in [0 .. W - 1 -> Letters]
    BY DEF Words, Letters
  <1>2. /\ t \in [0 .. W - 1 -> Letters] /\ t[p] = a /\ t[p - 1] = b
        /\ \A i \in 0 .. W - 1 : i # p /\ i # p - 1 => t[i] = m[i]
    BY <1>0, <1>1 DEF Put
  <1> HIDE DEF t
  <1>3. Bal(t, lo, hi) = Bal(m, lo, hi)
    <2>1. Bal(t, lo, hi) = Val(b) + Val(a) /\ Bal(m, lo, hi) = Val(m[p - 1]) + Val(m[p])
      BY <1>0, <1>2, BalPair
    <2>2. \A v \in Letters : Val(v) \in Int
      BY DEF Val
    <2>3. QED
      BY <1>0, <1>1, <2>1, <2>2
  <1>4. ASSUME NEW q \in lo + 1 .. hi - 1 PROVE Height(m, W, hi) + Bal(t, q, hi) >= 0
    <2>1. q = p
      BY <1>0
    <2>2. Bal(t, q, hi) = Val(a)
      BY <1>0, <1>2, <2>1, BalPair
    <2>3. p + 1 \in 0 .. W /\ p \in 0 .. W /\ p \in 0 .. W - 1
      BY <1>0
    <2>4. Height(m, W, p + 1) >= 0 /\ Height(m, W, p + 1) \in Int
      BY <1>0, <2>3, WordType
    <2>5. CASE Val(a) >= 0
      <3>1. Val(a) \in Int
        BY DEF Val
      <3>2. QED
        BY <2>2, <2>4, <2>5, <3>1
    <2>6. CASE a = m[p]
      <3>1. Height(m, W, p) >= 0 /\ Height(m, W, p) = Height(m, W, p + 1) + Val(m[p])
        BY <1>0, <2>3, WordType, HeightStep
      <3>2. QED
        BY <2>2, <2>6, <3>1
    <2>7. CASE Val(b) = 0
      <3>1. Height(m, W, p - 1) >= 0 /\ Height(m, W, p - 1) = Height(m, W, p) + Val(m[p - 1])
            /\ Height(m, W, p) = Height(m, W, p + 1) + Val(m[p])
        <4>1. p - 1 \in 0 .. W /\ p - 1 \in 0 .. W - 1 /\ (p - 1) + 1 = p
          BY <1>0, <2>3
        <4>2. QED
          BY <1>0, <2>3, <4>1, WordType, HeightStep
      <3>2. \A v \in Letters : Val(v) \in Int
        BY DEF Val
      <3>3. m[p] \in Letters /\ m[p - 1] \in Letters
        BY <1>0, <1>1
      <3>4. QED
        BY <2>2, <2>4, <2>7, <3>1, <3>2, <3>3
    <2>8. QED
      BY <2>5, <2>6, <2>7
  <1>5. /\ lo \in 0 .. W /\ hi \in 0 .. W /\ lo <= hi
        /\ \A i \in 0 .. W - 1 : i < lo \/ i >= hi => t[i] = m[i]
    BY <1>0, <1>2
  <1> HIDE DEF lo, hi
  <1>6. t \in Words(W)
    BY <1>0, <1>2, <1>3, <1>4, <1>5, Replace
  <1>7. QED
    BY <1>2, <1>6 DEF t

\* The partner of the second of two L at p and p - 1 is an R that can take its place.
LEMMA MatchLeft ==
  ASSUME NEW m \in Words(W), NEW p \in 1 .. W - 1, m[p] = "L", m[p - 1] = "L",
         NEW q \in closure_match_left(m, p)
  PROVE  /\ q \in 0 .. p - 2 /\ m[q] = "R"
         /\ [Put(m, p, "N", "N") EXCEPT ![q] = "L"] \in Words(W)
  <1> DEFINE t == [Put(m, p, "N", "N") EXCEPT ![q] = "L"]
             e == p - 1
             f == p + 1
  <1>0. W \in Nat /\ W >= 2 /\ p \in Int /\ p >= 1 /\ p <= W - 1
    BY GridAssumption
  <1>1. m \in [0 .. W - 1 -> Letters]
    BY DEF Words, Letters
  <1>2. /\ q \in 0 .. p - 2
        /\ Count(m, q .. p - 2, "R") - Count(m, q .. p - 2, "L") = 1
        /\ \A r \in q + 1 .. p - 2 : ~(Count(m, r .. p - 2, "R") - Count(m, r .. p - 2, "L") = 1)
    BY DEF closure_match_left
  <1>3. e \in Int /\ f \in Int /\ q \in Int /\ q < e /\ e <= f /\ q >= 0 /\ e - 1 = p - 2 /\ e <= W /\ f <= W
        /\ q <= f
    BY <1>0, <1>2
  <1> HIDE DEF e, f
  \* The balance from r up to the pair: none is below -1 before q is.
  <1>4. ASSUME NEW r \in Int, r <= e
        PROVE  /\ Bal(m, r, e) \in Int
               /\ Count(m, r .. p - 2, "R") - Count(m, r .. p - 2, "L") = 1 <=> Bal(m, r, e) = -1
    <2> DEFINE x == Count(m, r .. p - 2, "R")
               y == Count(m, r .. p - 2, "L")
    <2>1. IsFiniteSet(r .. p - 2)
      BY <1>0, FS_Interval
    <2>2. x \in Nat /\ y \in Nat
      BY <2>1, CountType
    <2>3. Bal(m, r, e) = y - x
      BY <1>3 DEF Bal
    <2> HIDE DEF x, y
    <2>4. Bal(m, r, e) \in Int /\ (x - y = 1 <=> Bal(m, r, e) = -1)
      BY <2>2, <2>3
    <2>5. QED
      BY <2>4 DEF x, y
  <1>5. Bal(m, q, e) = -1 /\ \A r \in q + 1 .. e - 1 : Bal(m, r, e) # -1
    <2>1. Bal(m, q, e) = -1
      BY <1>2, <1>3, <1>4
    <2>2. ASSUME NEW r \in q + 1 .. e - 1 PROVE Bal(m, r, e) # -1
      <3>1. r \in Int /\ r <= e /\ r \in q + 1 .. p - 2
        BY <1>3
      <3>2. QED
        BY <1>2, <1>4, <3>1
    <2>3. QED
      BY <2>1, <2>2
  <1>6. ASSUME NEW r \in q + 1 .. e PROVE Bal(m, r, e) >= 0
    <2> DEFINE Bad == {d \in Nat : e - d >= q + 1 /\ ~(Bal(m, e - d, e) >= 0)}
    <2>1. Bad = {}
      <3>1. SUFFICES ASSUME Bad # {} PROVE FALSE
        OBVIOUS
      <3>2. PICK d \in Bad : \A c \in Bad : d <= c
        BY <3>1, NatMin
      <3> DEFINE l == e - d
      <3>3. d \in Nat /\ l \in Int /\ l >= q + 1 /\ l <= e /\ ~(Bal(m, l, e) >= 0)
        BY <1>3, <3>2
      <3>4. d # 0
        <4>1. ASSUME d = 0 PROVE FALSE
          <5>1. l = e
            BY <1>3, <4>1
          <5>2. Bal(m, e, e) = 0
            BY <1>3, BalOne
          <5>3. QED
            BY <3>3, <5>1, <5>2
        <4>2. QED
          BY <4>1
      <3>5. d - 1 \in Nat /\ e - (d - 1) = l + 1 /\ ~(d <= d - 1) /\ l + 1 >= q + 1 /\ l < e /\ l \in q + 1 .. e - 1
        BY <1>3, <3>3, <3>4
      <3>6. d - 1 \notin Bad
        BY <3>2, <3>5
      <3>7. Bal(m, l + 1, e) >= 0
        BY <3>5, <3>6
      <3> HIDE DEF l, Bad
      <3>8. Bal(m, l, e) = Val(m[l]) + Bal(m, l + 1, e) /\ Bal(m, l + 1, e) \in Int
        BY <1>3, <3>3, <3>5, BalStep
      <3>9. Val(m[l]) \in {-1, 0, 1}
        BY DEF Val
      <3>10. Bal(m, l, e) = -1
        BY <3>3, <3>7, <3>8, <3>9
      <3>11. QED
        BY <1>5, <3>5, <3>10
    <2>2. e - r \in Nat /\ e - (e - r) = r /\ r >= q + 1
      BY <1>3
    <2>3. QED
      BY <2>1, <2>2
  <1>7. m[q] = "R" /\ Bal(m, q + 1, e) = 0
    <2>1. /\ Bal(m, q, e) = Val(m[q]) + Bal(m, q + 1, e) /\ Bal(m, q + 1, e) \in Int
      BY <1>3, BalStep
    <2>2. Bal(m, q + 1, e) >= 0
      BY <1>3, <1>6
    <2>3. Val(m[q]) \in {-1, 0, 1} /\ (m[q] # "R" => Val(m[q]) >= 0)
      BY DEF Val
    <2>4. QED
      BY <1>5, <2>1, <2>2, <2>3
  <1>8. /\ t \in [0 .. W - 1 -> Letters] /\ t[p] = "N" /\ t[p - 1] = "N" /\ t[q] = "L"
        /\ \A i \in 0 .. W - 1 : i # p /\ i # p - 1 /\ i # q => t[i] = m[i]
    BY <1>0, <1>1, <1>2 DEF Put, Letters
  <1> HIDE DEF t
  <1>9. /\ Bal(t, e, f) = 0 /\ Bal(m, e, f) = 2
        /\ Bal(t, p, f) = 0
    <2>1. /\ Bal(t, p, p + 1) = Val("N") /\ Bal(t, p - 1, p + 1) = Val("N") + Val("N")
          /\ Bal(m, p - 1, p + 1) = Val("L") + Val("L")
      BY <1>0, <1>8, BalPair
    <2>2. QED
      BY <2>1 DEF e, f, Val
  \* Below the pair, nothing but the partner is changed.
  <1>10. ASSUME NEW r \in q + 1 .. e PROVE Bal(t, r, f) = Bal(m, r, e) /\ Bal(m, r, e) \in Int
    <2>1. r \in Int /\ r <= e
      BY <1>3
    <2>2. \A i \in r .. e - 1 : t[i] = m[i]
      BY <1>0, <1>3, <1>8 DEF e
    <2>3. Bal(t, r, e) = Bal(m, r, e)
      BY <1>3, <2>1, <2>2, BalSame
    <2>4. Bal(t, r, f) = Bal(t, r, e) + Bal(t, e, f) /\ Bal(t, r, e) \in Int
      BY <1>3, <2>1, BalSplit
    <2>5. QED
      BY <1>9, <2>3, <2>4
  <1>11. Bal(t, q, f) = Bal(m, q, f)
    <2>1. Bal(m, q, f) = Bal(m, q, e) + Bal(m, e, f)
      BY <1>3, BalSplit
    <2>2. Bal(t, q, f) = Val(t[q]) + Bal(t, q + 1, f)
      BY <1>3, BalStep
    <2>3. Bal(t, q + 1, f) = 0
      BY <1>3, <1>7, <1>10
    <2>4. Val("L") = 1
      BY DEF Val
    <2>5. QED
      BY <1>5, <1>8, <1>9, <2>1, <2>2, <2>3, <2>4
  <1>12. Height(m, W, f) \in Nat
    BY <1>0, <1>3, WordType DEF f
  <1>13. ASSUME NEW r \in q + 1 .. f - 1 PROVE Height(m, W, f) + Bal(t, r, f) >= 0
    <2>1. r = p \/ r \in q + 1 .. e
      BY <1>0, <1>3 DEF e, f
    <2>2. CASE r = p
      BY <1>9, <1>12, <2>2
    <2>3. CASE r \in q + 1 .. e
      BY <1>6, <1>10, <1>12, <2>3
    <2>4. QED
      BY <2>1, <2>2, <2>3
  <1>14. /\ q \in 0 .. W /\ f \in 0 .. W /\ q <= f
         /\ \A i \in 0 .. W - 1 : i < q \/ i >= f => t[i] = m[i]
    <2>1. q \in 0 .. W /\ f \in 0 .. W /\ q <= f
      BY <1>0, <1>3
    <2>2. ASSUME NEW i \in 0 .. W - 1, i < q \/ i >= f PROVE i # p /\ i # p - 1 /\ i # q
      BY <1>0, <1>3, <2>2 DEF e, f
    <2>3. QED
      BY <1>8, <2>1, <2>2
  <1>15. t \in Words(W)
    BY <1>0, <1>8, <1>11, <1>13, <1>14, Replace
  <1>16. QED
    BY <1>2, <1>7, <1>15 DEF t

\* The partner of the first of two R is an L that can take its place.
LEMMA MatchRight ==
  ASSUME NEW m \in Words(W), NEW p \in 1 .. W - 1, m[p] = "R", m[p - 1] = "R",
         NEW q \in closure_match_right(m, p)
  PROVE  /\ q \in p + 1 .. W - 1 /\ m[q] = "L"
         /\ [Put(m, p, "N", "N") EXCEPT ![q] = "R"] \in Words(W)
  <1> DEFINE t == [Put(m, p, "N", "N") EXCEPT ![q] = "R"]
             d == p - 1
             e == p + 1
             f == q + 1
  <1>0. W \in Nat /\ W >= 2 /\ p \in Int /\ p >= 1 /\ p <= W - 1
    BY GridAssumption
  <1>1. m \in [0 .. W - 1 -> Letters]
    BY DEF Words, Letters
  <1>2. /\ q \in p + 1 .. W - 1
        /\ Count(m, p + 1 .. q, "L") - Count(m, p + 1 .. q, "R") = 1
        /\ \A r \in p + 1 .. q - 1 : ~(Count(m, p + 1 .. r, "L") - Count(m, p + 1 .. r, "R") = 1)
    BY DEF closure_match_right
  <1>3. /\ d \in Int /\ e \in Int /\ f \in Int /\ q \in Int /\ e <= q /\ e < f /\ f <= W /\ q < f
        /\ d <= e /\ d <= f /\ d >= 0 /\ f - 1 = q /\ p <= e /\ p <= f /\ d < p
    BY <1>0, <1>2
  \* The balance above the pair up to and with r.
  <1>4. ASSUME NEW r \in Int, e <= r
        PROVE  /\ Bal(m, e, r + 1) \in Int
               /\ Count(m, p + 1 .. r, "L") - Count(m, p + 1 .. r, "R") = 1 <=> Bal(m, e, r + 1) = 1
    <2> DEFINE x == Count(m, p + 1 .. r, "L")
               y == Count(m, p + 1 .. r, "R")
    <2>1. IsFiniteSet(p + 1 .. r) /\ (r + 1) - 1 = r
      BY <1>0, FS_Interval
    <2>2. x \in Nat /\ y \in Nat
      BY <2>1, CountType
    <2>3. Bal(m, e, r + 1) = x - y
      BY <2>1 DEF Bal
    <2> HIDE DEF x, y
    <2>4. Bal(m, e, r + 1) \in Int /\ (x - y = 1 <=> Bal(m, e, r + 1) = 1)
      BY <2>2, <2>3
    <2>5. QED
      BY <2>4 DEF x, y
  <1>5. Bal(m, e, f) = 1 /\ \A r \in e + 1 .. q : Bal(m, e, r) # 1
    <2>1. Bal(m, e, f) = 1
      BY <1>2, <1>3, <1>4
    <2>2. ASSUME NEW r \in e + 1 .. q PROVE Bal(m, e, r) # 1
      <3>1. r - 1 \in Int /\ e <= r - 1 /\ (r - 1) + 1 = r /\ r - 1 \in p + 1 .. q - 1
        BY <1>3
      <3>2. QED
        BY <1>2, <1>4, <3>1
    <2>3. QED
      BY <2>1, <2>2
  <1> HIDE DEF d, e, f
  <1>6. ASSUME NEW r \in e .. q PROVE Bal(m, e, r) <= 0
    <2> DEFINE Bad == {c \in Nat : e + c <= q /\ ~(Bal(m, e, e + c) <= 0)}
    <2>1. Bad = {}
      <3>1. SUFFICES ASSUME Bad # {} PROVE FALSE
        OBVIOUS
      <3>2. PICK c \in Bad : \A b \in Bad : c <= b
        BY <3>1, NatMin
      <3> DEFINE l == e + c
      <3>3. c \in Nat /\ l \in Int /\ l >= e /\ l <= q /\ ~(Bal(m, e, l) <= 0)
        BY <1>3, <3>2
      <3>4. c # 0
        <4>1. ASSUME c = 0 PROVE FALSE
          <5>1. l = e
            BY <1>3, <4>1
          <5>2. Bal(m, e, e) = 0
            BY <1>3, BalOne
          <5>3. QED
            BY <3>3, <5>1, <5>2
        <4>2. QED
          BY <4>1
      <3>5. c - 1 \in Nat /\ e + (c - 1) = l - 1 /\ ~(c <= c - 1) /\ l - 1 <= q /\ e < l /\ l \in e + 1 .. q
        BY <1>3, <3>3, <3>4
      <3>6. c - 1 \notin Bad
        BY <3>2, <3>5
      <3>7. Bal(m, e, l - 1) <= 0
        BY <3>5, <3>6
      <3> HIDE DEF l, Bad
      <3>8. /\ Bal(m, e, l) = Bal(m, e, l - 1) + Val(m[l - 1]) /\ Bal(m, e, l - 1) \in Int
        BY <1>3, <3>3, <3>5, BalStep
      <3>9. Val(m[l - 1]) \in {-1, 0, 1}
        BY DEF Val
      <3>10. Bal(m, e, l) = 1
        BY <3>3, <3>7, <3>8, <3>9
      <3>11. QED
        BY <1>5, <3>5, <3>10
    <2>2. r - e \in Nat /\ e + (r - e) = r /\ r <= q
      BY <1>3
    <2>3. QED
      BY <2>1, <2>2
  <1>7. m[q] = "L" /\ Bal(m, e, q) = 0
    <2>1. Bal(m, e, f) = Bal(m, e, f - 1) + Val(m[f - 1]) /\ Bal(m, e, f - 1) \in Int
      BY <1>3, BalStep
    <2>2. Bal(m, e, q) <= 0
      BY <1>3, <1>6
    <2>3. Val(m[q]) \in {-1, 0, 1} /\ (m[q] # "L" => Val(m[q]) <= 0)
      BY DEF Val
    <2>4. QED
      BY <1>3, <1>5, <2>1, <2>2, <2>3
  <1>8. /\ t \in [0 .. W - 1 -> Letters] /\ t[p] = "N" /\ t[p - 1] = "N" /\ t[q] = "R"
        /\ \A i \in 0 .. W - 1 : i # p /\ i # p - 1 /\ i # q => t[i] = m[i]
    BY <1>0, <1>1, <1>2 DEF Put, Letters
  <1> HIDE DEF t
  <1>9. /\ Bal(t, d, e) = 0 /\ Bal(m, d, e) = -2 /\ Bal(t, p, e) = 0
    <2>1. /\ Bal(t, p, p + 1) = Val("N") /\ Bal(t, p - 1, p + 1) = Val("N") + Val("N")
          /\ Bal(m, p - 1, p + 1) = Val("R") + Val("R")
      BY <1>0, <1>8, BalPair
    <2>2. QED
      BY <2>1 DEF d, e, Val
  <1>10. Bal(t, q, f) = -1
    <2>1. Bal(t, q, q + 1) = Val(t[q])
      BY <1>3, BalOne
    <2>2. QED
      BY <1>8, <2>1 DEF f, Val
  \* Above the pair, nothing but the partner is changed.
  <1>11. ASSUME NEW r \in e .. q PROVE Bal(t, r, f) = -1 - Bal(m, e, r) /\ Bal(m, e, r) \in Int
    <2>1. r \in Int /\ e <= r /\ r <= q /\ q <= f
      BY <1>3
    <2>2. \A i \in r .. q - 1 : t[i] = m[i]
      BY <1>0, <1>3, <1>8 DEF e
    <2>3. Bal(t, r, q) = Bal(m, r, q)
      BY <1>3, <2>1, <2>2, BalSame
    <2>4. Bal(t, r, f) = Bal(t, r, q) + Bal(t, q, f) /\ Bal(t, r, q) \in Int
      BY <1>3, <2>1, BalSplit
    <2>5. /\ Bal(m, e, q) = Bal(m, e, r) + Bal(m, r, q)
          /\ Bal(m, e, r) \in Int /\ Bal(m, r, q) \in Int
      BY <1>3, <2>1, BalSplit
    <2>6. QED
      BY <1>7, <1>10, <2>3, <2>4, <2>5
  <1>12. Bal(t, e, f) = -1
    <2>1. Bal(m, e, e) = 0
      BY <1>3, BalOne
    <2>2. e \in e .. q
      BY <1>3
    <2>3. QED
      BY <1>11, <2>1, <2>2
  <1>13. Bal(t, d, f) = Bal(m, d, f) /\ Bal(m, d, f) = -1
    <2>1. Bal(m, d, f) = Bal(m, d, e) + Bal(m, e, f) /\ Bal(t, d, f) = Bal(t, d, e) + Bal(t, e, f)
      BY <1>3, BalSplit
    <2>2. QED
      BY <1>5, <1>9, <1>12, <2>1
  \* The word has an R more than an L from the pair to the partner: it is above zero there.
  <1>14. Height(m, W, f) \in Int /\ Height(m, W, f) >= 1
    <2>1. d \in 0 .. W /\ f \in 0 .. W
      BY <1>0, <1>3
    <2>2. Height(m, W, d) \in Nat /\ Height(m, W, f) \in Nat
      BY <1>0, <2>1, WordType
    <2>3. Height(m, W, d) = Height(m, W, f) + Bal(m, d, f)
      BY <1>0, <1>3, <2>1, HeightFrom
    <2>4. QED
      BY <1>13, <2>2, <2>3
  <1>15. ASSUME NEW r \in d + 1 .. f - 1 PROVE Height(m, W, f) + Bal(t, r, f) >= 0
    <2>1. r = p \/ r \in e .. q
      BY <1>0, <1>3 DEF d, e
    <2>2. CASE r = p
      <3>1. Bal(t, p, f) = Bal(t, p, e) + Bal(t, e, f)
        BY <1>0, <1>3, BalSplit
      <3>2. QED
        BY <1>9, <1>12, <1>14, <2>2, <3>1
    <2>3. CASE r \in e .. q
      BY <1>6, <1>11, <1>14, <2>3
    <2>4. QED
      BY <2>1, <2>2, <2>3
  <1>16. /\ d \in 0 .. W /\ f \in 0 .. W /\ d <= f
         /\ \A i \in 0 .. W - 1 : i < d \/ i >= f => t[i] = m[i]
    <2>1. d \in 0 .. W /\ f \in 0 .. W /\ d <= f
      BY <1>0, <1>3
    <2>2. ASSUME NEW i \in 0 .. W - 1, i < d \/ i >= f PROVE i # p /\ i # p - 1 /\ i # q
      BY <1>0, <1>3, <2>2 DEF d, f
    <2>3. QED
      BY <1>8, <2>1, <2>2
  <1>17. t \in Words(W)
    BY <1>0, <1>8, <1>13, <1>15, <1>16, Replace
  <1>18. QED
    BY <1>2, <1>7, <1>17 DEF t

\* A word and what is left of it without an empty position are as high everywhere: both are words.
LEMMA Shrunk ==
  ASSUME NEW t \in [0 .. W - 1 -> Letters], NEW s \in [0 .. W - 2 -> Letters],
         NEW at \in 0 .. W - 1, t[at] = "N",
         \A i \in 0 .. W - 2 : s[i] = IF i < at THEN t[i] ELSE t[i + 1]
  PROVE  t \in Words(W) <=> s \in Words(W - 1)
  <1> DEFINE n == W - 1
             b == at + 1
  <1>0. /\ W \in Nat /\ n \in Nat /\ W = n + 1 /\ at \in 0 .. n /\ at \in 0 .. W /\ b \in 0 .. W
        /\ W - 2 = n - 1 /\ n \in 0 .. n /\ W \in 0 .. W /\ n \in Int /\ W \in Int /\ at \in Int
    BY GridAssumption
  <1>1. Height(s, n, n) = 1 /\ Height(t, W, W) = 1
    BY <1>0, HeightStep
  <1> HIDE DEF n, b
  <1>2. ASSUME NEW q \in at .. n PROVE Height(s, n, q) = Height(t, W, q + 1)
    <2>1. q \in 0 .. n /\ q <= n /\ q + 1 \in 0 .. W /\ q + 1 <= W /\ q \in Int
      BY <1>0
    <2>2. /\ Height(s, n, q) = Height(s, n, n) + Bal(s, q, n)
          /\ Height(t, W, q + 1) = Height(t, W, W) + Bal(t, q + 1, W)
      BY <1>0, <2>1, HeightFrom
    <2>3. \A i \in q .. n - 1 : s[i] = t[i + 1]
      BY <1>0, <2>1
    <2>4. Bal(s, q, n) = Bal(t, q + 1, n + 1)
      BY <1>0, <2>1, <2>3, BalShift
    <2>5. QED
      BY <1>0, <1>1, <2>2, <2>4
  <1>3. Height(t, W, at) = Height(s, n, at)
    <2>1. Height(t, W, at) = Height(t, W, at + 1) + Val(t[at]) /\ Height(t, W, at) \in Int
          /\ Height(t, W, at + 1) \in Int
      BY <1>0, HeightStep DEF b
    <2>2. at \in at .. n
      BY <1>0
    <2>3. Height(s, n, at) = Height(t, W, at + 1)
      BY <1>2, <2>2
    <2>4. QED
      BY <2>1, <2>3 DEF Val
  <1>4. ASSUME NEW q \in 0 .. at PROVE Height(s, n, q) = Height(t, W, q)
    <2>1. q \in 0 .. n /\ q \in 0 .. W /\ q <= at /\ q \in Int
      BY <1>0
    <2>2. /\ Height(s, n, q) = Height(s, n, at) + Bal(s, q, at)
          /\ Height(t, W, q) = Height(t, W, at) + Bal(t, q, at)
      BY <1>0, <2>1, HeightFrom
    <2>3. \A i \in q .. at - 1 : s[i] = t[i]
      BY <1>0, <2>1
    <2>4. Bal(s, q, at) = Bal(t, q, at)
      BY <1>0, <2>1, <2>3, BalSame
    <2>5. QED
      BY <1>3, <2>2, <2>4
  <1>5. ASSUME t \in Words(W) PROVE s \in Words(n)
    <2>1. Height(t, W, 0) = 0 /\ \A q \in 0 .. W - 1 : Height(t, W, q) >= 0
      BY <1>5 DEF Words
    <2>2. Height(s, n, 0) = 0
      BY <1>0, <1>4, <2>1
    <2>3. ASSUME NEW q \in 0 .. n - 1 PROVE Height(s, n, q) >= 0
      <3>1. q \in 0 .. W - 1 /\ q + 1 \in 0 .. W - 1 /\ (q \in 0 .. at \/ q \in at .. n)
        BY <1>0
      <3>2. QED
        BY <1>2, <1>4, <2>1, <3>1
    <2>4. s \in [0 .. n - 1 -> Letters]
      BY <1>0
    <2>5. QED
      BY <2>2, <2>3, <2>4 DEF Words, Letters
  <1>6. ASSUME s \in Words(n) PROVE t \in Words(W)
    <2>1. Height(s, n, 0) = 0 /\ \A q \in 0 .. n - 1 : Height(s, n, q) >= 0
      BY <1>6 DEF Words
    <2>2. Height(t, W, 0) = 0
      BY <1>0, <1>4, <2>1
    <2>3. ASSUME NEW q \in 0 .. W - 1 PROVE Height(t, W, q) >= 0
      <3>1. CASE q \in 0 .. at
        <4>1. q = n \/ q \in 0 .. n - 1
          BY <1>0, <3>1
        <4>2. Height(s, n, q) >= 0
          BY <1>1, <2>1, <4>1
        <4>3. QED
          BY <1>4, <3>1, <4>2
      <3>2. CASE q \notin 0 .. at
        <4>1. q - 1 \in 0 .. n - 1 /\ q - 1 \in at .. n /\ (q - 1) + 1 = q
          BY <1>0, <3>2
        <4>2. Height(s, n, q - 1) = Height(t, W, (q - 1) + 1)
          BY <1>2, <4>1
        <4>3. QED
          BY <2>1, <4>1, <4>2
      <3>3. QED
        BY <3>1, <3>2
    <2>4. QED
      BY <2>2, <2>3 DEF Words, Letters
  <1>7. QED
    BY <1>5, <1>6 DEF n

\* mshrink makes a blocked word of a word that is empty at the position ...
LEMMA ShrinkWord ==
  ASSUME NEW t \in Words(W), NEW at \in 0 .. W - 1, t[at] = "N"
  PROVE  /\ mshrink(t, at) \in Words(W - 1)
         /\ \A i \in 0 .. W - 2 : mshrink(t, at)[i] = IF i < at THEN t[i] ELSE t[i + 1]
  <1> DEFINE s == mshrink(t, at)
  <1>0. W \in Nat /\ t \in [0 .. W - 1 -> Letters]
    BY GridAssumption DEF Words, Letters
  <1>1. \A i \in 0 .. W - 2 : s[i] = IF i < at THEN t[i] ELSE t[i + 1]
    BY DEF mshrink
  <1>2. \A i \in 0 .. W - 2 : (IF i < at THEN t[i] ELSE t[i + 1]) \in Letters
    BY <1>0
  <1>3. s \in [0 .. W - 2 -> Letters]
    BY <1>2 DEF mshrink
  <1> HIDE DEF s
  <1>4. s \in Words(W - 1)
    BY <1>0, <1>1, <1>3, Shrunk
  <1>5. QED
    BY <1>1, <1>4 DEF s

\* ... and minsert makes a word of a blocked word.
LEMMA InsertWord ==
  ASSUME NEW s \in Words(W - 1), NEW at \in 0 .. W - 1
  PROVE  /\ minsert(s, at) \in Words(W)
         /\ \A i \in 0 .. W - 1 :
               minsert(s, at)[i] = IF i < at THEN s[i] ELSE IF i = at THEN "N" ELSE s[i - 1]
  <1> DEFINE t == minsert(s, at)
  <1>0. W \in Nat /\ s \in [0 .. W - 2 -> Letters]
    <2>1. (W - 1) - 1 = W - 2 /\ W \in Nat
      BY GridAssumption
    <2>2. s \in [0 .. (W - 1) - 1 -> Letters]
      BY DEF Words, Letters
    <2>3. QED
      BY <2>1, <2>2
  <1>1. \A i \in 0 .. W - 1 : t[i] = IF i < at THEN s[i] ELSE IF i = at THEN "N" ELSE s[i - 1]
    BY DEF minsert
  <1>2. \A i \in 0 .. W - 1 : (IF i < at THEN s[i] ELSE IF i = at THEN "N" ELSE s[i - 1]) \in Letters
    BY <1>0 DEF Letters
  <1>3. t \in [0 .. W - 1 -> Letters]
    BY <1>2 DEF minsert
  <1> HIDE DEF t
  <1>4. \A i \in 0 .. W - 2 : s[i] = IF i < at THEN t[i] ELSE t[i + 1]
    BY <1>0, <1>1
  <1>5. t[at] = "N"
    BY <1>1
  <1>6. t \in Words(W)
    BY <1>0, <1>3, <1>4, <1>5, Shrunk
  <1>7. QED
    BY <1>1, <1>6 DEF t

-----------------------------------------------------------------------------
(***************************************************************************)
(* Groups.                                                                 *)
(***************************************************************************)
\* Two words are occupied alike outside an edge.
Alike(m, t, p) == \A i \in 0 .. W - 1 : i # p /\ i # p - 1 => (m[i] # "N" <=> t[i] # "N")

\* Where a word goes: to a word occupied alike, or to what is left of one without p or p - 1.
LEMMA Included ==
  ASSUME NEW m \in Words(W), NEW p \in 1 .. W - 1, NEW c \in include_horizontal(m, p)
  PROVE  \E t \in Words(W) :
            /\ Alike(m, t, p)
            /\ \/ c = MainCell(t)
               \/ \E at \in {p - 1, p} : t[at] = "N" /\ c = BlockCell(mshrink(t, at))
  <1> DEFINE a == m[p]
             b == m[p - 1]
             empty == Put(m, p, "N", "N")
             Keep(t, at) == IF p = 1 THEN MainCell(t) ELSE BlockCell(mshrink(t, at))
             Goes(d) == \E t \in Words(W) :
                           /\ Alike(m, t, p)
                           /\ \/ d = MainCell(t)
                              \/ \E at \in {p - 1, p} : t[at] = "N" /\ d = BlockCell(mshrink(t, at))
  <1>0. /\ W \in Nat /\ W >= 2 /\ p \in 0 .. W - 1 /\ p - 1 \in 0 .. W - 1 /\ p # p - 1
        /\ a \in Letters /\ b \in Letters
    <2>1. W \in Nat /\ W >= 2 /\ p \in 0 .. W - 1 /\ p - 1 \in 0 .. W - 1 /\ p # p - 1
      BY GridAssumption
    <2>2. QED
      BY <2>1, WordType
  <1>1. ASSUME NEW t \in Words(W), \A i \in 0 .. W - 1 : i # p /\ i # p - 1 => t[i] = m[i]
        PROVE  Alike(m, t, p)
    BY <1>1 DEF Alike
  <1>2. ASSUME NEW t \in Words(W), NEW at \in {p - 1, p}, t[at] = "N", Alike(m, t, p), c = Keep(t, at)
        PROVE  Goes(c)
    BY <1>2
  <1>3. include_horizontal(m, p) =
           CASE a = "N" /\ b = "N" -> {MainCell(Put(m, p, "L", "R"))}
             [] a = "N" /\ b # "N" -> {Keep(IF p = 1 THEN Put(m, p, b, "N") ELSE m, p)}
             [] a # "N" /\ b = "N" -> {MainCell(Put(m, p, "N", a))}
             [] a = "L" /\ b = "L" -> {Keep([empty EXCEPT ![q] = "L"], p - 1) :
                                         q \in closure_match_left(m, p)}
             [] a = "R" /\ b = "R" -> {Keep([empty EXCEPT ![q] = "R"], p - 1) :
                                         q \in closure_match_right(m, p)}
             [] a = "R" /\ b = "L" -> {Keep(empty, p - 1)}
             [] OTHER -> {}
    BY DEF include_horizontal
  <1>4. Val("N") = 0 /\ Val("L") = 1 /\ Val("R") = -1 /\ \A v \in Letters : Val(v) \in Int
    BY DEF Val
  <1> HIDE DEF Goes, Keep, empty
  <1>5. CASE a = "N" /\ b = "N"
    <2> DEFINE t == Put(m, p, "L", "R")
    <2>1. c = MainCell(t)
      BY <1>3, <1>5
    <2>2. t \in Words(W) /\ Alike(m, t, p)
      <3>1. "L" \in Letters /\ "R" \in Letters
        BY DEF Letters
      <3>2. Val("L") + Val("R") = Val(m[p]) + Val(m[p - 1]) /\ Val("L") >= 0
        BY <1>4, <1>5
      <3>3. QED
        BY <1>1, <3>1, <3>2, ReplacePair
    <2> HIDE DEF t
    <2>3. QED
      BY <2>1, <2>2
  <1>6. CASE a = "N" /\ b # "N"
    <2>1. CASE p = 1
      <3> DEFINE t == Put(m, p, b, "N")
      <3>1. c = MainCell(t)
        BY <1>3, <1>6, <2>1 DEF Keep
      <3>2. t \in Words(W) /\ \A i \in 0 .. W - 1 : i # p /\ i # p - 1 => t[i] = m[i]
        <4>1. "N" \in Letters
          BY DEF Letters
        <4>2. Val(b) + Val("N") = Val(m[p]) + Val(m[p - 1]) /\ Val("N") = 0
          BY <1>0, <1>4, <1>6
        <4>3. QED
          BY <1>0, <4>1, <4>2, ReplacePair
      <3> HIDE DEF t
      <3>3. QED
        BY <1>1, <3>1, <3>2
    <2>2. CASE p # 1
      <3>1. c = BlockCell(mshrink(m, p)) /\ p \in {p - 1, p} /\ m[p] = "N"
        BY <1>3, <1>6, <2>2 DEF Keep
      <3>2. Alike(m, m, p)
        BY DEF Alike
      <3>3. QED
        BY <3>1, <3>2
    <2>3. QED
      BY <2>1, <2>2
  <1>7. CASE a # "N" /\ b = "N"
    <2> DEFINE t == Put(m, p, "N", a)
    <2>1. c = MainCell(t)
      BY <1>3, <1>7
    <2>2. t \in Words(W) /\ \A i \in 0 .. W - 1 : i # p /\ i # p - 1 => t[i] = m[i]
      <3>1. "N" \in Letters
        BY DEF Letters
      <3>2. Val("N") + Val(a) = Val(m[p]) + Val(m[p - 1]) /\ Val("N") >= 0
        BY <1>0, <1>4, <1>7
      <3>3. QED
        BY <1>0, <3>1, <3>2, ReplacePair
    <2> HIDE DEF t
    <2>3. QED
      BY <1>1, <2>1, <2>2
  <1>8. CASE a = "L" /\ b = "L"
    <2>1. PICK q \in closure_match_left(m, p) : c = Keep([empty EXCEPT ![q] = "L"], p - 1)
      BY <1>3, <1>8
    <2> DEFINE t == [empty EXCEPT ![q] = "L"]
    <2>2. q \in 0 .. p - 2 /\ m[q] = "R" /\ t \in Words(W)
      BY <1>8, MatchLeft DEF empty
    <2>3. t[p - 1] = "N" /\ t[q] = "L" /\ \A i \in 0 .. W - 1 : i # p /\ i # p - 1 /\ i # q => t[i] = m[i]
      <3>1. m \in [0 .. W - 1 -> Letters]
        BY DEF Words, Letters
      <3>2. QED
        BY <1>0, <2>2, <3>1 DEF empty, Put
    <2> HIDE DEF t
    <2>4. Alike(m, t, p)
      BY <2>2, <2>3 DEF Alike
    <2>5. c = Keep(t, p - 1)
      BY <2>1 DEF t
    <2>6. QED
      BY <1>2, <2>2, <2>3, <2>4, <2>5 DEF Goes
  <1>9. CASE a = "R" /\ b = "R"
    <2>1. PICK q \in closure_match_right(m, p) : c = Keep([empty EXCEPT ![q] = "R"], p - 1)
      BY <1>3, <1>9
    <2> DEFINE t == [empty EXCEPT ![q] = "R"]
    <2>2. q \in p + 1 .. W - 1 /\ m[q] = "L" /\ t \in Words(W)
      BY <1>9, MatchRight DEF empty
    <2>3. t[p - 1] = "N" /\ t[q] = "R" /\ \A i \in 0 .. W - 1 : i # p /\ i # p - 1 /\ i # q => t[i] = m[i]
      <3>1. m \in [0 .. W - 1 -> Letters]
        BY DEF Words, Letters
      <3>2. QED
        BY <1>0, <2>2, <3>1 DEF empty, Put
    <2> HIDE DEF t
    <2>4. Alike(m, t, p)
      BY <2>2, <2>3 DEF Alike
    <2>5. c = Keep(t, p - 1)
      BY <2>1 DEF t
    <2>6. QED
      BY <1>2, <2>2, <2>3, <2>4, <2>5 DEF Goes
  <1>10. CASE a = "R" /\ b = "L"
    <2>1. c = Keep(empty, p - 1)
      BY <1>3, <1>10
    <2>2. empty \in Words(W) /\ empty[p - 1] = "N"
          /\ \A i \in 0 .. W - 1 : i # p /\ i # p - 1 => empty[i] = m[i]
      <3>1. "N" \in Letters
        BY DEF Letters
      <3>2. Val("N") + Val("N") = Val(m[p]) + Val(m[p - 1]) /\ Val("N") >= 0
        BY <1>4, <1>10
      <3>3. QED
        BY <3>1, <3>2, ReplacePair DEF empty
    <2>3. QED
      BY <1>1, <1>2, <2>1, <2>2 DEF Goes
  <1>11. ~(a = "L" /\ b = "R")
    BY <1>3
  <1>12. Goes(c)
    BY <1>0, <1>5, <1>6, <1>7, <1>8, <1>9, <1>10, <1>11 DEF Letters, Goes
  <1>13. QED
    BY <1>12 DEF Goes

\* The cells: the main words below MainN, the blocked words above it, one cell each.
LEMMA CellsAre ==
  /\ MainN \in Nat /\ BlockN \in Nat
  /\ \A m \in Words(W) : MainCell(m) \in 0 .. MainN - 1 /\ MainCell(m) \in Ranks
  /\ \A s \in Words(W - 1) : BlockCell(s) \in MainN .. MainN + BlockN - 1 /\ BlockCell(s) \in Ranks
  /\ \A m \in Words(W) : \A t \in Words(W) : MainCell(m) = MainCell(t) => m = t
  /\ \A s \in Words(W - 1) : \A t \in Words(W - 1) : BlockCell(s) = BlockCell(t) => s = t
  /\ \A c \in Ranks : \/ \E m \in Words(W) : c = MainCell(m)
                      \/ \E s \in Words(W - 1) : c = BlockCell(s)
  <1> DEFINE n == W - 1
  <1>0. W \in Nat /\ n \in Nat /\ n <= W /\ W <= W /\ n \in 0 .. W /\ W \in 0 .. W /\ 1 \in 0 .. MAXW + 1
    BY GridAssumption
  <1> HIDE DEF n
  <1>1. MainN \in Nat /\ BlockN \in Nat /\ MainN = H_DP[W][1] /\ BlockN = H_DP[n][1]
    BY <1>0, H_DPDef DEF MainN, BlockN, n
  <1>2. \A m \in Words(W) : rank_full(m, W) \in 0 .. MainN - 1
    BY <1>0, <1>1, RankInjective
  <1>3. \A s \in Words(n) : rank_full(s, n) \in 0 .. BlockN - 1
    BY <1>0, <1>1, RankInjective
  <1>4. \A m \in Words(W) : MainCell(m) \in 0 .. MainN - 1 /\ MainCell(m) \in Ranks
    BY <1>1, <1>2 DEF MainCell, Ranks
  <1>5. \A s \in Words(n) : BlockCell(s) \in MainN .. MainN + BlockN - 1 /\ BlockCell(s) \in Ranks
    BY <1>1, <1>3 DEF BlockCell, Ranks, n
  <1>6. \A m \in Words(W) : \A t \in Words(W) : MainCell(m) = MainCell(t) => m = t
    BY <1>0, RankInjective DEF MainCell
  <1>7. ASSUME NEW s \in Words(n), NEW t \in Words(n), BlockCell(s) = BlockCell(t) PROVE s = t
    <2> DEFINE x == rank_full(s, n)
               y == rank_full(t, n)
    <2>1. x \in Nat /\ y \in Nat /\ MainN + x = MainN + y
      BY <1>1, <1>3, <1>7 DEF BlockCell, n
    <2> HIDE DEF x, y
    <2>2. x = y
      BY <1>1, <2>1
    <2>3. QED
      BY <1>0, <2>2, RankInjective DEF x, y
  <1>8. ASSUME NEW c \in Ranks
        PROVE  \/ \E m \in Words(W) : c = MainCell(m)
               \/ \E s \in Words(n) : c = BlockCell(s)
    <2>1. CASE c < MainN
      <3>1. c \in 0 .. H_DP[W][1] - 1
        BY <1>1, <2>1 DEF Ranks
      <3>2. QED
        BY <1>0, <3>1, RankOnto DEF MainCell
    <2>2. CASE ~(c < MainN)
      <3> DEFINE r == c - MainN
      <3>1. r \in 0 .. H_DP[n][1] - 1 /\ c = MainN + r
        BY <1>1, <2>2 DEF Ranks
      <3> HIDE DEF r
      <3>2. PICK s \in Words(n) : rank_full(s, n) = r
        BY <1>0, <3>1, RankOnto
      <3>3. c = BlockCell(s)
        BY <3>1, <3>2 DEF BlockCell, n
      <3>4. QED
        BY <3>3
    <2>3. QED
      BY <2>1, <2>2
  <1>9. QED
    BY <1>1, <1>4, <1>5, <1>6, <1>7, <1>8 DEF n

\* The column a position of a blocked word stands for.
BlockedAt(p_lo, q) == IF q < p_lo - 1 THEN q ELSE q - 1

\* Which words are in a group.
LEMMA InGroup ==
  ASSUME NEW p_hi, NEW p_lo, NEW occ
  PROVE  /\ \A m \in Words(W) : MainCell(m) \in GroupCells(p_hi, p_lo, occ) <=>
               \A q \in window_candidates(p_hi, p_lo) : m[q] # "N" <=> q \in occ
         /\ \A s \in Words(W - 1) : BlockCell(s) \in GroupCells(p_hi, p_lo, occ) <=>
               \A q \in window_candidates(p_hi, p_lo) : s[BlockedAt(p_lo, q)] # "N" <=> q \in occ
  <1> DEFINE G == GroupCells(p_hi, p_lo, occ)
             F == window_candidates(p_hi, p_lo)
             M(m) == \A q \in F : m[q] # "N" <=> q \in occ
             B(s) == \A q \in F : s[BlockedAt(p_lo, q)] # "N" <=> q \in occ
  <1>1. G = {MainCell(m) : m \in {x \in Words(W) : M(x)}}
            \cup {BlockCell(s) : s \in {x \in Words(W - 1) : B(x)}}
    BY DEF GroupCells, BlockedAt
  <1> HIDE DEF G, M, B
  <1>2. \A m \in Words(W) : \A s \in Words(W - 1) : MainCell(m) # BlockCell(s)
    <2>1. ASSUME NEW m \in Words(W), NEW s \in Words(W - 1) PROVE MainCell(m) # BlockCell(s)
      <3>1. MainCell(m) \in 0 .. MainN - 1 /\ BlockCell(s) \in MainN .. MainN + BlockN - 1
            /\ MainN \in Nat /\ BlockN \in Nat
        BY CellsAre
      <3>2. QED
        BY <3>1
    <2>2. QED
      BY <2>1
  <1>3. ASSUME NEW m \in Words(W) PROVE MainCell(m) \in G <=> M(m)
    <2>1. ASSUME MainCell(m) \in G PROVE M(m)
      <3>1. PICK t \in Words(W) : M(t) /\ MainCell(m) = MainCell(t)
        BY <1>1, <1>2, <2>1
      <3>2. QED
        BY <3>1, CellsAre
    <2>2. QED
      BY <1>1, <2>1
  <1>4. ASSUME NEW s \in Words(W - 1) PROVE BlockCell(s) \in G <=> B(s)
    <2>1. ASSUME BlockCell(s) \in G PROVE B(s)
      <3>1. PICK t \in Words(W - 1) : B(t) /\ BlockCell(s) = BlockCell(t)
        BY <1>1, <1>2, <2>1
      <3>2. QED
        BY <3>1, CellsAre
    <2>2. QED
      BY <1>1, <2>1
  <1>5. QED
    BY <1>3, <1>4 DEF G, M, B

\* Each cell of the vector is in exactly one group of a window.
THEOREM GroupsPartition ==
  ASSUME NEW p_hi \in 1 .. W - 1, NEW p_lo \in 1 .. p_hi
  PROVE  \A c \in Ranks : \E occ \in SUBSET window_candidates(p_hi, p_lo) :
            /\ c \in GroupCells(p_hi, p_lo, occ)
            /\ \A other \in SUBSET window_candidates(p_hi, p_lo) :
                  c \in GroupCells(p_hi, p_lo, other) => other = occ
  <1> DEFINE F == window_candidates(p_hi, p_lo)
  <1>1. ASSUME NEW c \in Ranks
        PROVE  \E occ \in SUBSET F :
                 /\ c \in GroupCells(p_hi, p_lo, occ)
                 /\ \A other \in SUBSET F : c \in GroupCells(p_hi, p_lo, other) => other = occ
    <2>1. CASE \E m \in Words(W) : c = MainCell(m)
      <3>1. PICK m \in Words(W) : c = MainCell(m)
        BY <2>1
      <3> DEFINE occ == {q \in F : m[q] # "N"}
      <3>2. \A o : c \in GroupCells(p_hi, p_lo, o) <=> \A q \in F : m[q] # "N" <=> q \in o
        BY <3>1, InGroup
      <3>3. \A q \in F : m[q] # "N" <=> q \in occ
        OBVIOUS
      <3>4. occ \in SUBSET F
        OBVIOUS
      <3>5. ASSUME NEW other \in SUBSET F, c \in GroupCells(p_hi, p_lo, other) PROVE other = occ
        <4>1. \A q \in F : m[q] # "N" <=> q \in other
          BY <3>2, <3>5
        <4>2. QED
          BY <4>1
      <3> HIDE DEF occ
      <3>6. QED
        BY <3>2, <3>3, <3>4, <3>5
    <2>2. CASE \E s \in Words(W - 1) : c = BlockCell(s)
      <3>1. PICK s \in Words(W - 1) : c = BlockCell(s)
        BY <2>2
      <3> DEFINE occ == {q \in F : s[BlockedAt(p_lo, q)] # "N"}
      <3>2. \A o : c \in GroupCells(p_hi, p_lo, o) <=>
                     \A q \in F : s[BlockedAt(p_lo, q)] # "N" <=> q \in o
        BY <3>1, InGroup
      <3>3. \A q \in F : s[BlockedAt(p_lo, q)] # "N" <=> q \in occ
        OBVIOUS
      <3>4. occ \in SUBSET F
        OBVIOUS
      <3>5. ASSUME NEW other \in SUBSET F, c \in GroupCells(p_hi, p_lo, other) PROVE other = occ
        <4>1. \A q \in F : s[BlockedAt(p_lo, q)] # "N" <=> q \in other
          BY <3>2, <3>5
        <4>2. QED
          BY <4>1
      <3> HIDE DEF occ
      <3>6. QED
        BY <3>2, <3>3, <3>4, <3>5
    <2>3. QED
      BY <2>1, <2>2, CellsAre
  <1>2. QED
    BY <1>1

\* An edge of the window leads from a group to the same group.
LEMMA EdgeInGroup ==
  ASSUME NEW p_hi \in 1 .. W - 1, NEW p_lo \in 1 .. p_hi, NEW p \in p_lo .. p_hi, NEW occ,
         NEW e \in Edge(p)
  PROVE  /\ e[1] \in Ranks /\ e[2] \in Ranks
         /\ e[1] \in GroupCells(p_hi, p_lo, occ) <=> e[2] \in GroupCells(p_hi, p_lo, occ)
  <1> DEFINE G == GroupCells(p_hi, p_lo, occ)
             F == window_candidates(p_hi, p_lo)
  <1>0. /\ W \in Nat /\ W >= 2 /\ p \in 1 .. W - 1 /\ p \in 0 .. W - 1 /\ p - 1 \in 0 .. W - 1
        /\ p_lo <= p /\ p <= p_hi /\ p_lo \in Nat /\ p_hi \in Nat /\ p \in Nat
    BY GridAssumption
  <1>1. \A q \in F : q \in 0 .. W - 1 /\ q # p /\ q # p - 1 /\ (q < p_lo - 1 \/ q > p_hi)
    BY <1>0 DEF window_candidates
  <1> HIDE DEF G, F
  <1>2. /\ \A m \in Words(W) : MainCell(m) \in G <=> \A q \in F : m[q] # "N" <=> q \in occ
        /\ \A s \in Words(W - 1) : BlockCell(s) \in G <=>
              \A q \in F : s[BlockedAt(p_lo, q)] # "N" <=> q \in occ
    BY InGroup DEF G, F
  \* What is left of a word without an empty position of the edge is in the word's group.
  <1>3. ASSUME NEW t \in Words(W), NEW s \in Words(W - 1),
               \A q \in F : s[BlockedAt(p_lo, q)] = t[q]
        PROVE  MainCell(t) \in G <=> BlockCell(s) \in G
    BY <1>2, <1>3
  <1>4. CASE \E m \in Words(W) : e = <<MainCell(m), MainCell(m)>>
    BY <1>4, CellsAre
  <1>5. CASE \E s \in Words(W - 1) : e = <<BlockCell(s), MainCell(minsert(s, p))>>
    <2>1. PICK s \in Words(W - 1) : e = <<BlockCell(s), MainCell(minsert(s, p))>>
      BY <1>5
    <2> DEFINE t == minsert(s, p)
    <2>2. /\ t \in Words(W)
          /\ \A i \in 0 .. W - 1 : t[i] = IF i < p THEN s[i] ELSE IF i = p THEN "N" ELSE s[i - 1]
      BY <1>0, InsertWord
    <2> HIDE DEF t
    <2>3. ASSUME NEW q \in F PROVE s[BlockedAt(p_lo, q)] = t[q]
      <3>1. CASE q < p_lo - 1
        <4>1. q < p /\ q \in 0 .. W - 1
          BY <1>0, <1>1, <3>1
        <4>2. QED
          BY <2>2, <3>1, <4>1 DEF BlockedAt
      <3>2. CASE q > p_hi
        <4>1. ~(q < p) /\ q # p /\ q \in 0 .. W - 1 /\ ~(q < p_lo - 1)
          BY <1>0, <1>1, <3>2
        <4>2. QED
          BY <2>2, <4>1 DEF BlockedAt
      <3>3. QED
        BY <1>1, <3>1, <3>2
    <2>4. MainCell(t) \in G <=> BlockCell(s) \in G
      BY <1>3, <2>2, <2>3
    <2>5. e[1] = BlockCell(s) /\ e[2] = MainCell(t)
      BY <2>1 DEF t
    <2>6. QED
      BY <2>2, <2>4, <2>5, CellsAre DEF G
  <1>6. CASE \E m \in Words(W) : e \in {MainCell(m)} \X include_horizontal(m, p)
    <2>1. PICK m \in Words(W) : e \in {MainCell(m)} \X include_horizontal(m, p)
      BY <1>6
    <2> DEFINE c == e[2]
    <2>2. e[1] = MainCell(m) /\ c \in include_horizontal(m, p)
      BY <2>1
    <2> HIDE DEF c
    <2>3. PICK t \in Words(W) :
             /\ Alike(m, t, p)
             /\ \/ c = MainCell(t)
                \/ \E at \in {p - 1, p} : t[at] = "N" /\ c = BlockCell(mshrink(t, at))
      BY <1>0, <2>2, Included
    <2>4. MainCell(m) \in G <=> MainCell(t) \in G
      <3>1. \A q \in F : m[q] # "N" <=> t[q] # "N"
        BY <1>1, <2>3 DEF Alike
      <3>2. QED
        BY <1>2, <3>1
    <2>5. CASE c = MainCell(t)
      BY <2>2, <2>4, <2>5, CellsAre DEF G, c
    <2>6. CASE \E at \in {p - 1, p} : t[at] = "N" /\ c = BlockCell(mshrink(t, at))
      <3>1. PICK at \in {p - 1, p} : t[at] = "N" /\ c = BlockCell(mshrink(t, at))
        BY <2>6
      <3> DEFINE s == mshrink(t, at)
      <3>2. /\ s \in Words(W - 1)
            /\ \A i \in 0 .. W - 2 : s[i] = IF i < at THEN t[i] ELSE t[i + 1]
        <4>1. at \in 0 .. W - 1
          BY <1>0
        <4>2. QED
          BY <3>1, <4>1, ShrinkWord
      <3> HIDE DEF s
      <3>3. ASSUME NEW q \in F PROVE s[BlockedAt(p_lo, q)] = t[q]
        <4>1. CASE q < p_lo - 1
          <5>1. q < at /\ q \in 0 .. W - 2
            BY <1>0, <1>1, <4>1
          <5>2. QED
            BY <3>2, <4>1, <5>1 DEF BlockedAt
        <4>2. CASE q > p_hi
          <5>1. ~(q - 1 < at) /\ q - 1 \in 0 .. W - 2 /\ (q - 1) + 1 = q /\ ~(q < p_lo - 1)
            BY <1>0, <1>1, <4>2
          <5>2. QED
            BY <3>2, <5>1 DEF BlockedAt
        <4>3. QED
          BY <1>1, <4>1, <4>2
      <3>4. MainCell(t) \in G <=> BlockCell(s) \in G
        BY <1>3, <3>2, <3>3
      <3>5. c = BlockCell(s)
        BY <3>1 DEF s
      <3>6. QED
        BY <2>2, <2>4, <3>2, <3>4, <3>5, CellsAre DEF G, c
    <2>7. QED
      BY <2>3, <2>5, <2>6
  <1>7. QED
    BY <1>4, <1>5, <1>6 DEF Edge

\* SetToSeq lists elements of a finite set.
LEMMA Listing ==
  ASSUME NEW S, IsFiniteSet(S)
  PROVE  SetToSeq(S) \in Seq(S)
  <1> DEFINE n == Cardinality(S)
             P(f) == f \in [1 .. n -> S] /\ IsInjective(f)
             g == SetToSeq(S)
  <1>1. n \in Nat /\ ExistsBijection(1 .. n, S)
    BY FS_CardinalityType
  <1>2. PICK f : f \in Bijection(1 .. n, S)
    BY <1>1 DEF ExistsBijection
  <1>3. P(f)
    BY <1>2 DEF Bijection, Injection, IsInjective
  <1>4. g \in [1 .. n -> S]
    BY <1>3 DEF SetToSeq
  <1> HIDE DEF g, n
  <1>5. g \in Seq(S)
    BY <1>1, <1>4
  <1>6. QED
    BY <1>5 DEF g

\* What flows into the cells: cells, and into those of a group cells of the group.
LEMMA SourcesInGroup ==
  ASSUME NEW p_hi \in 1 .. W - 1, NEW p_lo \in 1 .. p_hi, NEW p \in p_lo .. p_hi, NEW occ
  PROVE  /\ p \in 1 .. W - 1 /\ GroupCells(p_hi, p_lo, occ) \in SUBSET Ranks
         /\ \A c \in GroupCells(p_hi, p_lo, occ) :
               Sources[p][c] \in Seq(GroupCells(p_hi, p_lo, occ))
  <1> DEFINE G == GroupCells(p_hi, p_lo, occ)
             Into(c) == {e[1] : e \in {x \in Edge(p) : x[2] = c}}
  <1>1. p \in 1 .. W - 1
    BY GridAssumption
  <1>2. G \in SUBSET Ranks
    <2>1. \A c \in G : (\E m \in Words(W) : c = MainCell(m)) \/ (\E s \in Words(W - 1) : c = BlockCell(s))
      BY DEF GroupCells
    <2> HIDE DEF G
    <2>2. QED
      BY <2>1, CellsAre
  <1>3. \A c \in Ranks : Sources[p][c] = SetToSeq(Into(c))
    BY <1>1 DEF Sources
  <1> HIDE DEF G, Into
  <1>4. ASSUME NEW c \in G PROVE Sources[p][c] \in Seq(G)
    <2>1. Into(c) \in SUBSET G /\ Into(c) \in SUBSET Ranks
      <3>1. \A e \in Edge(p) : e[1] \in Ranks /\ (e[1] \in G <=> e[2] \in G)
        BY EdgeInGroup DEF G
      <3>2. QED
        BY <1>4, <3>1 DEF Into
    <2>2. IsFiniteSet(Ranks)
      <3>1. MainN + BlockN - 1 \in Int /\ 0 \in Int
        BY CellsAre
      <3>2. QED
        BY <3>1, FS_Interval DEF Ranks
    <2>3. IsFiniteSet(Into(c))
      BY <2>1, <2>2, FS_Subset
    <2>4. SetToSeq(Into(c)) \in Seq(Into(c))
      BY <2>3, Listing
    <2>5. SetToSeq(Into(c)) \in Seq(G)
      BY <2>1, <2>4
    <2>6. QED
      BY <1>2, <1>3, <1>4, <2>5
  <1>5. QED
    BY <1>1, <1>2, <1>4 DEF G

\* The groups of any window are closed: what flows into a group at one of the edges is its own.
THEOREM GroupsAreClosed ==
  ASSUME NEW p_hi \in 1 .. W - 1, NEW p_lo \in 1 .. p_hi, NEW occ
  PROVE  Closed(p_hi, p_lo, occ)
  <1> DEFINE G == GroupCells(p_hi, p_lo, occ)
  <1>1. ASSUME NEW p \in p_lo .. p_hi, NEW c \in G PROVE ToSet(Sources[p][c]) \in SUBSET G
    <2>1. Sources[p][c] \in Seq(G)
      BY SourcesInGroup
    <2> HIDE DEF G
    <2>2. QED
      BY <2>1 DEF ToSet
  <1>2. QED
    BY <1>1 DEF Closed

-----------------------------------------------------------------------------
(***************************************************************************)
(* Windows.                                                                *)
(***************************************************************************)
\* Sequences over a set, one after the other, are a sequence over the set.
LEMMA Flattened ==
  ASSUME NEW G, NEW seqs \in Seq(Seq(G))
  PROVE  FlattenSeq(seqs) \in Seq(G)
  <1> DEFINE n == Len(seqs)
             Next1(f, i) == IF i = 1 THEN seqs[i] ELSE f[i - 1] \o seqs[i]
             Solves(f, k) == f = [i \in 1 .. k |-> Next1(f, i)]
             Bad == {k \in 1 .. n : ~\E f : Solves(f, k) /\ f[k] \in Seq(G)}
  <1>1. n \in Nat /\ \A i \in 1 .. n : seqs[i] \in Seq(G)
    OBVIOUS
  <1>2. CASE n = 0
    <2>1. seqs = <<>> /\ FlattenSeq(seqs) = seqs
      BY <1>2 DEF FlattenSeq
    <2>2. <<>> \in Seq(G)
      OBVIOUS
    <2>3. QED
      BY <2>1, <2>2
  <1>3. CASE n # 0
    <2>1. Bad = {}
      <3>1. SUFFICES ASSUME Bad # {} PROVE FALSE
        OBVIOUS
      <3>2. PICK k \in Bad : \A j \in Bad : k <= j
        <4>1. Bad \in SUBSET Nat
          <5> HIDE DEF Solves, n
          <5>1. QED
            BY <1>1
        <4> HIDE DEF Bad
        <4>2. QED
          BY <3>1, <4>1, NatMin
      <3>3. CASE k = 1
        <4> DEFINE f == [i \in 1 .. 1 |-> seqs[1]]
        <4>1. f[1] \in Seq(G)
          BY <1>1, <1>3
        <4>2. \A i \in 1 .. 1 : i = 1
          OBVIOUS
        <4>3. f = [i \in 1 .. 1 |-> Next1(f, i)]
          BY <4>2
        <4>4. QED
          BY <3>2, <3>3, <4>1, <4>3
      <3>4. CASE k # 1
        <4>1. k \in Nat /\ k - 1 \in 1 .. n /\ ~(k <= k - 1) /\ k - 1 \in 1 .. k /\ k \in 1 .. k
          BY <3>4
        <4>2. PICK h : Solves(h, k - 1) /\ h[k - 1] \in Seq(G)
          BY <3>2, <4>1
        <4> DEFINE last == h[k - 1] \o seqs[k]
                   f == [i \in 1 .. k |-> IF i = k THEN last ELSE h[i]]
        <4>3. last \in Seq(G)
          <5>1. seqs[k] \in Seq(G)
            BY <1>1
          <5>2. QED
            BY <4>2, <5>1
        <4>4. \A i \in 1 .. k - 1 : h[i] = Next1(h, i)
          BY <4>2
        <4> HIDE DEF last
        <4>5. ASSUME NEW i \in 1 .. k PROVE f[i] = Next1(f, i)
          <5>1. CASE i = k
            <6>1. f[k] = last /\ f[k - 1] = h[k - 1]
              BY <4>1
            <6>2. QED
              BY <3>4, <5>1, <6>1 DEF last
          <5>2. CASE i # k
            <6>1. i \in 1 .. k - 1 /\ f[i] = h[i]
              BY <4>1, <5>2
            <6>2. i # 1 => f[i - 1] = h[i - 1]
              BY <4>1, <6>1
            <6>3. QED
              BY <4>4, <6>1, <6>2
          <5>3. QED
            BY <5>1, <5>2
        <4>6. f = [i \in 1 .. k |-> f[i]] /\ f[k] = last
          BY <4>1
        <4> HIDE DEF f
        <4>7. Solves(f, k)
          BY <4>5, <4>6
        <4>8. QED
          BY <3>2, <4>3, <4>6, <4>7
      <3>5. QED
        BY <3>3, <3>4
    <2>2. \A k \in 1 .. n : \E f : Solves(f, k)
      <3> HIDE DEF Solves, n
      <3>1. QED
        BY <2>1
    <2>3. n \in 1 .. n
      BY <1>1, <1>3
    <2> DEFINE flatten == CHOOSE f : Solves(f, n)
    <2>4. FlattenSeq(seqs) = flatten[n]
      BY <1>3 DEF FlattenSeq
    <2>5. Solves(flatten, n)
      BY <2>2, <2>3
    <2> HIDE DEF flatten
    <2>6. \A i \in 1 .. n : flatten[i] = Next1(flatten, i)
      BY <2>5
    <2> DEFINE Off == {i \in 1 .. n : flatten[i] \notin Seq(G)}
    <2>7. Off = {}
      <3>1. SUFFICES ASSUME Off # {} PROVE FALSE
        OBVIOUS
      <3>2. PICK k \in Off : \A j \in Off : k <= j
        <4>1. Off \in SUBSET Nat
          OBVIOUS
        <4> HIDE DEF Off
        <4>2. QED
          BY <3>1, <4>1, NatMin
      <3>3. CASE k = 1
        BY <1>1, <2>6, <3>2, <3>3
      <3>4. CASE k # 1
        <4>1. k - 1 \in 1 .. n /\ ~(k <= k - 1)
          BY <3>4
        <4>2. flatten[k - 1] \in Seq(G) /\ seqs[k] \in Seq(G)
          BY <1>1, <3>2, <4>1
        <4>3. flatten[k] = flatten[k - 1] \o seqs[k]
          BY <2>6, <3>4
        <4> DEFINE a == flatten[k - 1]
                   b == seqs[k]
        <4>4. a \in Seq(G) /\ b \in Seq(G) /\ flatten[k] = a \o b
          BY <4>2, <4>3
        <4> HIDE DEF a, b
        <4>5. flatten[k] \in Seq(G)
          BY <4>4
        <4>6. QED
          BY <3>2, <4>5
      <3>5. QED
        BY <3>3, <3>4
    <2>8. QED
      BY <2>3, <2>4, <2>7
  <1>4. QED
    BY <1>2, <1>3

\* Flow at the edge p of a window, from that at the edge before.
FlowAt(flow, p_hi, p) ==
    IF p = p_hi THEN Sources[p]
    ELSE [c \in Ranks |-> FlattenSeq([i \in DOMAIN Sources[p][c] |-> flow[p + 1][Sources[p][c][i]]])]

\* What flows into a group in a window, on any way through the edges, is the group's own.
LEMMA FlowInGroup ==
  ASSUME NEW p_hi \in 1 .. W - 1, NEW p_lo \in 1 .. p_hi, NEW occ
  PROVE  \A c \in GroupCells(p_hi, p_lo, occ) :
            Flow(p_hi, p_lo)[c] \in Seq(GroupCells(p_hi, p_lo, occ))
  <1> DEFINE G == GroupCells(p_hi, p_lo, occ)
             Solves(f, l) == f = [p \in l .. p_hi |-> FlowAt(f, p_hi, p)]
             Bad == {k \in Nat : p_hi - k >= p_lo /\ ~\E f : Solves(f, p_hi - k)}
  <1>0. p_hi \in Nat /\ p_lo \in Nat /\ p_lo <= p_hi /\ p_lo >= 1
    BY GridAssumption
  <1>1. Bad = {}
    <2>1. SUFFICES ASSUME Bad # {} PROVE FALSE
      OBVIOUS
    <2>2. PICK k \in Bad : \A j \in Bad : k <= j
      <3>1. Bad \in SUBSET Nat
        OBVIOUS
      <3> HIDE DEF Bad
      <3>2. QED
        BY <2>1, <3>1, NatMin
    <2> DEFINE l == p_hi - k
    <2>3. l \in Nat /\ l >= p_lo /\ l <= p_hi /\ ~\E f : Solves(f, l)
      BY <1>0, <2>2
    <2>4. CASE k = 0
      <3> DEFINE f == [p \in p_hi .. p_hi |-> Sources[p]]
      <3>1. \A p \in p_hi .. p_hi : FlowAt(f, p_hi, p) = Sources[p]
        BY <1>0 DEF FlowAt
      <3>2. Solves(f, p_hi)
        BY <3>1
      <3>3. l = p_hi
        BY <1>0, <2>4
      <3> HIDE DEF l, Solves, f
      <3>4. QED
        BY <2>3, <3>2, <3>3
    <2>5. CASE k # 0
      <3>1. k - 1 \in Nat /\ ~(k <= k - 1) /\ p_hi - (k - 1) = l + 1 /\ l + 1 >= p_lo /\ l # p_hi /\ l + 1 <= p_hi
            /\ l \in l .. p_hi /\ l + 1 \in l .. p_hi /\ l \in Nat /\ l < p_hi
        BY <1>0, <2>2, <2>5
      <3>2. k - 1 \notin Bad
        BY <2>2, <3>1
      <3>3. PICK h : Solves(h, l + 1)
        BY <3>1, <3>2
      <3> HIDE DEF l
      <3> DEFINE first == FlowAt(h, p_hi, l)
                 f == [p \in l .. p_hi |-> IF p = l THEN first ELSE h[p]]
      <3>4. \A p \in l + 1 .. p_hi : h[p] = FlowAt(h, p_hi, p)
        BY <3>3
      <3>5. \A p \in l .. p_hi : f[p] = IF p = l THEN first ELSE h[p]
        OBVIOUS
      <3>6. f = [p \in l .. p_hi |-> f[p]]
        OBVIOUS
      <3> HIDE DEF first, f
      <3>7. ASSUME NEW p \in l .. p_hi PROVE f[p] = FlowAt(f, p_hi, p)
        <4>1. p # p_hi => f[p + 1] = h[p + 1]
          <5>1. p # p_hi => p + 1 \in l .. p_hi /\ p + 1 # l
            BY <1>0, <3>1
          <5>2. QED
            BY <3>5, <5>1
        <4>2. FlowAt(f, p_hi, p) = FlowAt(h, p_hi, p)
          BY <4>1 DEF FlowAt
        <4>3. CASE p = l
          BY <3>5, <4>2, <4>3 DEF first
        <4>4. CASE p # l
          <5>1. p \in l + 1 .. p_hi
            BY <1>0, <3>1, <4>4
          <5>2. QED
            BY <3>4, <3>5, <4>2, <4>4, <5>1
        <4>5. QED
          BY <4>3, <4>4
      <3>8. Solves(f, l)
        BY <3>6, <3>7
      <3>9. QED
        BY <2>3, <3>8
    <2>6. QED
      BY <2>4, <2>5
  <1>2. \E f : Solves(f, p_lo)
    <2>1. p_hi - p_lo \in Nat /\ p_hi - (p_hi - p_lo) = p_lo /\ p_lo >= p_lo
      BY <1>0
    <2> HIDE DEF Solves
    <2>2. QED
      BY <1>1, <2>1
  <1> DEFINE flow == CHOOSE f : Solves(f, p_lo)
  <1>3. Flow(p_hi, p_lo) = flow[p_lo]
    BY DEF Flow, FlowAt
  <1>4. Solves(flow, p_lo)
    BY <1>2
  <1> HIDE DEF flow
  <1>5. \A p \in p_lo .. p_hi : flow[p] = FlowAt(flow, p_hi, p)
    BY <1>4
  <1> HIDE DEF G, Solves, Bad
  <1>6. G \in SUBSET Ranks /\ \A p \in p_lo .. p_hi : \A c \in G : Sources[p][c] \in Seq(G)
    <2>1. p_lo \in p_lo .. p_hi
      BY <1>0
    <2>2. QED
      BY <2>1, SourcesInGroup DEF G
  <1> DEFINE Off == {k \in Nat : p_hi - k >= p_lo /\ ~\A c \in G : flow[p_hi - k][c] \in Seq(G)}
  <1>7. Off = {}
    <2>1. SUFFICES ASSUME Off # {} PROVE FALSE
      OBVIOUS
    <2>2. PICK k \in Off : \A j \in Off : k <= j
      <3>1. Off \in SUBSET Nat
        OBVIOUS
      <3> HIDE DEF Off
      <3>2. QED
        BY <2>1, <3>1, NatMin
    <2> DEFINE l == p_hi - k
    <2>3. k \in Nat /\ l \in Nat /\ l \in p_lo .. p_hi /\ ~\A c \in G : flow[l][c] \in Seq(G)
      BY <1>0, <2>2
    <2>4. CASE k = 0
      <3>1. l = p_hi
        BY <1>0, <2>4
      <3> HIDE DEF l
      <3>2. flow[l] = Sources[l]
        BY <1>5, <2>3, <3>1 DEF FlowAt
      <3>3. QED
        BY <1>6, <2>3, <3>2
    <2>5. CASE k # 0
      <3>1. k - 1 \in Nat /\ ~(k <= k - 1) /\ p_hi - (k - 1) = l + 1 /\ l + 1 >= p_lo /\ l # p_hi
        BY <1>0, <2>2, <2>5
      <3>2. k - 1 \notin Off
        BY <2>2, <3>1
      <3>3. \A c \in G : flow[l + 1][c] \in Seq(G)
        BY <3>1, <3>2
      <3> HIDE DEF l, Off
      <3>4. ASSUME NEW c \in G PROVE flow[l][c] \in Seq(G)
        <4> DEFINE from == Sources[l][c]
                   parts == [i \in DOMAIN from |-> flow[l + 1][from[i]]]
        <4>1. flow[l][c] = FlattenSeq(parts)
          <5>1. flow[l] = FlowAt(flow, p_hi, l)
            BY <1>5, <2>3
          <5>2. c \in Ranks
            BY <1>6
          <5>3. FlowAt(flow, p_hi, l)[c] = FlattenSeq(parts)
            BY <3>1, <5>2 DEF FlowAt
          <5>4. QED
            BY <5>1, <5>3
        <4>2. from \in Seq(G)
          BY <1>6, <2>3
        <4> HIDE DEF from
        <4>3. Len(from) \in Nat /\ DOMAIN from = 1 .. Len(from) /\ \A i \in 1 .. Len(from) : from[i] \in G
          BY <4>2
        <4>4. \A i \in 1 .. Len(from) : flow[l + 1][from[i]] \in Seq(G)
          BY <3>3, <4>3
        <4>5. parts \in [1 .. Len(from) -> Seq(G)]
          BY <4>3, <4>4
        <4> HIDE DEF parts
        <4>6. parts \in Seq(Seq(G))
          BY <4>3, <4>5
        <4>7. QED
          BY <4>1, <4>6, Flattened
      <3>5. QED
        BY <2>3, <3>4
    <2>6. QED
      BY <2>4, <2>5
  <1>8. \A c \in G : flow[p_lo][c] \in Seq(G)
    <2>1. p_hi - p_lo \in Nat /\ p_hi - (p_hi - p_lo) = p_lo /\ p_lo >= p_lo
      BY <1>0
    <2>2. QED
      BY <1>7, <2>1
  <1>9. QED
    BY <1>3, <1>8 DEF G

\* What a window adds up for one cell.
Added(mod, from, v) ==
    LET sum[i \in 0 .. Len(from)] ==
            IF i = 0 THEN 0
            ELSE (sum[i - 1] + (IF from[i] \in DOMAIN v THEN v[from[i]] ELSE 0)) % mod
    IN  sum[Len(from)]

\* Buffers that agree on the cells added up give the same sum.
LEMMA AddedSame ==
  ASSUME NEW mod, NEW B, NEW from \in Seq(B), NEW u, NEW v, B \in SUBSET DOMAIN u, B \in SUBSET DOMAIN v,
         \A c \in B : u[c] = v[c]
  PROVE  Added(mod, from, u) = Added(mod, from, v)
  <1> DEFINE n == Len(from)
             Term(w, i) == IF from[i] \in DOMAIN w THEN w[from[i]] ELSE 0
             Sums(w, f) == f = [i \in 0 .. n |-> IF i = 0 THEN 0 ELSE (f[i - 1] + Term(w, i)) % mod]
  <1>1. n \in Nat /\ \A i \in 1 .. n : from[i] \in B
    OBVIOUS
  <1>2. \A i \in 1 .. n : Term(u, i) = Term(v, i)
    BY <1>1
  <1>3. Added(mod, from, u) = (CHOOSE f : Sums(u, f))[n] /\ Added(mod, from, v) = (CHOOSE f : Sums(v, f))[n]
    BY DEF Added
  <1> HIDE DEF n, Term
  <1>4. ASSUME NEW f PROVE Sums(u, f) <=> Sums(v, f)
    <2>1. \A i \in 0 .. n : (IF i = 0 THEN 0 ELSE (f[i - 1] + Term(u, i)) % mod)
                            = (IF i = 0 THEN 0 ELSE (f[i - 1] + Term(v, i)) % mod)
      BY <1>1, <1>2
    <2>2. [i \in 0 .. n |-> IF i = 0 THEN 0 ELSE (f[i - 1] + Term(u, i)) % mod]
          = [i \in 0 .. n |-> IF i = 0 THEN 0 ELSE (f[i - 1] + Term(v, i)) % mod]
      BY <2>1
    <2>3. QED
      BY <2>2
  <1> HIDE DEF Sums
  <1>5. (CHOOSE f : Sums(u, f)) = (CHOOSE f : Sums(v, f))
    BY <1>4
  <1>6. QED
    BY <1>3, <1>5

\* A batch of groups can be worked on alone: what a window makes of its cells is what the window
\* makes of the whole vector, there.
THEOREM WindowLocal ==
  ASSUME NEW p_hi \in 1 .. W - 1, NEW p_lo \in 1 .. p_hi, NEW O, NEW mod, NEW v, DOMAIN v = Ranks,
         NEW B, B = UNION {GroupCells(p_hi, p_lo, occ) : occ \in O}
  PROVE  WindowSteps(mod, Flow(p_hi, p_lo), [c \in B |-> v[c]])
         = [c \in B |-> WindowSteps(mod, Flow(p_hi, p_lo), v)[c]]
  <1> DEFINE flow == Flow(p_hi, p_lo)
             u == [c \in B |-> v[c]]
  <1>1. \A w : WindowSteps(mod, flow, w) = [c \in DOMAIN w |-> Added(mod, flow[c], w)]
    BY DEF WindowSteps, Added
  <1>2. ASSUME NEW occ PROVE GroupCells(p_hi, p_lo, occ) \in SUBSET Ranks
    <2>1. p_lo \in p_lo .. p_hi
      BY GridAssumption
    <2>2. QED
      BY <2>1, SourcesInGroup
  <1>3. B \in SUBSET Ranks
    BY <1>2
  <1>4. ASSUME NEW c \in B PROVE flow[c] \in Seq(B)
    <2>1. PICK occ \in O : c \in GroupCells(p_hi, p_lo, occ)
      OBVIOUS
    <2>2. flow[c] \in Seq(GroupCells(p_hi, p_lo, occ))
      BY <2>1, FlowInGroup
    <2>3. GroupCells(p_hi, p_lo, occ) \in SUBSET B
      OBVIOUS
    <2> HIDE DEF flow
    <2>4. QED
      BY <2>2, <2>3
  <1> HIDE DEF flow
  <1>5. ASSUME NEW c \in B PROVE Added(mod, flow[c], u) = Added(mod, flow[c], v)
    <2>1. B \in SUBSET DOMAIN u /\ B \in SUBSET DOMAIN v /\ \A b \in B : u[b] = v[b]
      BY <1>3
    <2> DEFINE from == flow[c]
    <2>2. from \in Seq(B)
      BY <1>4
    <2> HIDE DEF u, from
    <2>3. Added(mod, from, u) = Added(mod, from, v)
      BY <2>1, <2>2, AddedSame
    <2>4. QED
      BY <2>3 DEF from
  <1>6. WindowSteps(mod, flow, u) = [c \in B |-> Added(mod, flow[c], u)]
    BY <1>1
  <1>7. \A c \in B : WindowSteps(mod, flow, v)[c] = Added(mod, flow[c], v)
    BY <1>1, <1>3
  <1> HIDE DEF u
  <1>8. WindowSteps(mod, flow, u) = [c \in B |-> WindowSteps(mod, flow, v)[c]]
    BY <1>5, <1>6, <1>7
  <1>9. QED
    BY <1>8 DEF flow, u

-----------------------------------------------------------------------------
(***************************************************************************)
(* Partners.                                                               *)
(***************************************************************************)
\* Two counts compared are a balance.
LEMMA CountBal ==
  ASSUME NEW m, NEW a \in Int, NEW b \in Int, a <= b
  PROVE  /\ Bal(m, a, b) \in Int
         /\ (Count(m, a .. b - 1, "R") - Count(m, a .. b - 1, "L") = 1) <=> Bal(m, a, b) = -1
         /\ (Count(m, a .. b - 1, "L") - Count(m, a .. b - 1, "R") = 1) <=> Bal(m, a, b) = 1
  <1> DEFINE x == Count(m, a .. b - 1, "R")
             y == Count(m, a .. b - 1, "L")
  <1>1. IsFiniteSet(a .. b - 1)
    BY FS_Interval
  <1>2. x \in Nat /\ y \in Nat
    BY <1>1, CountType
  <1>3. Bal(m, a, b) = y - x
    BY DEF Bal
  <1> HIDE DEF x, y
  <1>4. Bal(m, a, b) \in Int /\ (x - y = 1 <=> Bal(m, a, b) = -1) /\ (y - x = 1 <=> Bal(m, a, b) = 1)
    BY <1>2, <1>3
  <1>5. QED
    BY <1>4 DEF x, y

\* The closure always finds the partner: the ways out of its loops for want of one are never taken.
LEMMA PartnerLeft ==
  ASSUME NEW m \in Words(W), NEW p \in 1 .. W - 1, m[p] = "L", m[p - 1] = "L"
  PROVE  \E q : closure_match_left(m, p) = {q}
  <1> DEFINE e == p - 1
             Low == {d \in 1 .. e : Bal(m, e - d, e) <= -1}
  <1>0. W \in Nat /\ W >= 2 /\ p \in Int /\ p >= 1 /\ p <= W - 1 /\ e \in Nat /\ e \in Int /\ e <= W /\ p - 2 = e - 1
    BY GridAssumption
  <1> HIDE DEF e
  <1>1. Bal(m, 0, e) <= -1 /\ e >= 1
    <2>1. e \in 0 .. W /\ p + 1 \in 0 .. W /\ 0 \in 0 .. W /\ e <= p + 1 /\ 0 <= e
      BY <1>0 DEF e
    <2>2. Height(m, W, e) = Height(m, W, p + 1) + Bal(m, e, p + 1)
          /\ Height(m, W, 0) = Height(m, W, e) + Bal(m, 0, e)
      BY <1>0, <2>1, HeightFrom
    <2>3. Height(m, W, 0) = 0 /\ Height(m, W, p + 1) \in Nat
      BY <1>0, <2>1, WordType
    <2>4. Bal(m, e, p + 1) = 2
      BY <1>0, BalPair DEF e, Val
    <2>5. Bal(m, 0, e) \in Int
      BY <1>0, CountBal
    <2>6. Bal(m, 0, e) <= -1
      BY <2>2, <2>3, <2>4, <2>5
    <2>7. e # 0
      <3>1. ASSUME e = 0 PROVE FALSE
        <4>1. Bal(m, 0, 0) = 0
          BY BalOne
        <4>2. QED
          BY <2>6, <3>1, <4>1
      <3>2. QED
        BY <3>1
    <2>8. QED
      BY <1>0, <2>6, <2>7
  <1>2. PICK d \in Low : \A c \in Low : d <= c
    <2>1. e \in Low
      <3>1. e \in 1 .. e /\ e - e = 0
        BY <1>0, <1>1
      <3>2. QED
        BY <1>1, <3>1
    <2>2. Low \in SUBSET Nat
      BY <1>0
    <2> HIDE DEF Low
    <2>3. QED
      BY <2>1, <2>2, NatMin
  <1> DEFINE q == e - d
  <1>3. d \in Nat /\ d >= 1 /\ q \in Nat /\ q \in Int /\ q < e /\ q \in 0 .. p - 2 /\ Bal(m, q, e) <= -1
    BY <1>0, <1>2
  <1>4. ASSUME NEW r \in q + 1 .. e PROVE Bal(m, r, e) \in Int /\ Bal(m, r, e) >= 0
    <2>1. r \in Int /\ r <= e /\ e - r \in Nat /\ e - (e - r) = r /\ ~(d <= e - r) /\ e - r <= e
      BY <1>0, <1>3
    <2>2. Bal(m, r, e) \in Int
      BY <1>0, <2>1, CountBal
    <2>3. CASE r = e
      <3>1. Bal(m, e, e) = 0
        BY <1>0, BalOne
      <3>2. QED
        BY <2>3, <3>1
    <2>4. CASE r # e
      <3>1. e - r \in 1 .. e
        BY <1>0, <2>1, <2>4
      <3>2. e - r \notin Low
        BY <1>2, <2>1
      <3>3. ~(Bal(m, r, e) <= -1)
        BY <2>1, <3>1, <3>2
      <3>4. QED
        BY <2>2, <3>3
    <2>5. QED
      BY <2>3, <2>4
  <1> HIDE DEF q, Low
  <1>5. Bal(m, q, e) = -1
    <2>1. Bal(m, q, e) = Val(m[q]) + Bal(m, q + 1, e) /\ q + 1 \in q + 1 .. e
      BY <1>0, <1>3, BalStep
    <2>2. Bal(m, q + 1, e) \in Int /\ Bal(m, q + 1, e) >= 0
      BY <1>4, <2>1
    <2>3. Val(m[q]) \in {-1, 0, 1}
      BY DEF Val
    <2>4. QED
      BY <1>3, <2>1, <2>2, <2>3
  <1> DEFINE Closes(r) == Count(m, r .. p - 2, "R") - Count(m, r .. p - 2, "L") = 1
  <1>6. \A r \in 0 .. p - 2 : Closes(r) <=> Bal(m, r, e) = -1
    <2>1. ASSUME NEW r \in 0 .. p - 2 PROVE Closes(r) <=> Bal(m, r, e) = -1
      <3>1. r \in Int /\ r <= e
        BY <1>0
      <3>2. (Count(m, r .. e - 1, "R") - Count(m, r .. e - 1, "L") = 1) <=> Bal(m, r, e) = -1
        BY <1>0, <3>1, CountBal
      <3>3. QED
        BY <1>0, <3>2
    <2>2. QED
      BY <2>1
  <1>7. closure_match_left(m, p) = {x \in 0 .. p - 2 : Closes(x) /\ \A r \in x + 1 .. p - 2 : ~Closes(r)}
    BY DEF closure_match_left
  <1> HIDE DEF Closes
  <1>8. ASSUME NEW r \in q + 1 .. p - 2 PROVE ~Closes(r)
    <2>1. r \in q + 1 .. e /\ r \in 0 .. p - 2
      BY <1>0, <1>3
    <2>2. Bal(m, r, e) \in Int /\ Bal(m, r, e) >= 0
      BY <1>4, <2>1
    <2>3. QED
      BY <1>6, <2>1, <2>2
  <1>9. Closes(q)
    BY <1>3, <1>5, <1>6
  <1>10. ASSUME NEW x \in closure_match_left(m, p) PROVE x = q
    <2>1. x \in 0 .. p - 2 /\ Closes(x) /\ \A r \in x + 1 .. p - 2 : ~Closes(r)
      BY <1>7
    <2>2. ~(x < q) /\ ~(q < x)
      <3>1. x < q => q \in x + 1 .. p - 2
        BY <1>0, <1>3, <2>1
      <3>2. q < x => x \in q + 1 .. p - 2
        BY <1>0, <1>3, <2>1
      <3>3. QED
        BY <1>8, <1>9, <2>1, <3>1, <3>2
    <2>3. QED
      BY <1>3, <2>1, <2>2
  <1>11. q \in closure_match_left(m, p)
    BY <1>3, <1>7, <1>8, <1>9
  <1>12. QED
    BY <1>10, <1>11

LEMMA PartnerRight ==
  ASSUME NEW m \in Words(W), NEW p \in 1 .. W - 1, m[p] = "R", m[p - 1] = "R"
  PROVE  \E q : closure_match_right(m, p) = {q}
  <1> DEFINE e == p + 1
             High == {q \in e .. W - 1 : Bal(m, e, q + 1) >= 1}
  <1>0. W \in Nat /\ W >= 2 /\ p \in Int /\ p >= 1 /\ p <= W - 1 /\ e \in Nat /\ e \in Int /\ e <= W
    BY GridAssumption
  <1>1. Bal(m, e, W) >= 1 /\ e <= W - 1
    <2>1. p - 1 \in 0 .. W /\ e \in 0 .. W /\ W \in 0 .. W /\ p - 1 <= e /\ e <= W
      BY <1>0
    <2>2. Height(m, W, p - 1) = Height(m, W, e) + Bal(m, p - 1, e)
          /\ Height(m, W, e) = Height(m, W, W) + Bal(m, e, W)
      BY <1>0, <2>1, HeightFrom
    <2>3. Height(m, W, W) = 1 /\ Height(m, W, p - 1) \in Nat
      BY <1>0, <2>1, WordType
    <2>4. Bal(m, p - 1, e) = -2
      BY <1>0, BalPair DEF Val
    <2> HIDE DEF e
    <2>5. Bal(m, e, W) \in Int
      BY <1>0, CountBal
    <2>6. Bal(m, e, W) >= 1
      BY <2>2, <2>3, <2>4, <2>5
    <2>7. e # W
      <3>1. ASSUME e = W PROVE FALSE
        <4>1. Bal(m, W, W) = 0
          BY <1>0, BalOne
        <4>2. QED
          BY <2>6, <3>1, <4>1
      <3>2. QED
        BY <3>1
    <2>8. QED
      BY <1>0, <2>6, <2>7
  <1> HIDE DEF e
  <1>2. PICK q \in High : \A x \in High : q <= x
    <2>1. W - 1 \in High
      <3>1. W - 1 \in e .. W - 1 /\ (W - 1) + 1 = W
        BY <1>0, <1>1
      <3>2. QED
        BY <1>1, <3>1
    <2>2. High \in SUBSET Nat
      BY <1>0
    <2> HIDE DEF High
    <2>3. QED
      BY <2>1, <2>2, NatMin
  <1>3. q \in Nat /\ q \in Int /\ q >= e /\ q <= W - 1 /\ q \in p + 1 .. W - 1 /\ Bal(m, e, q + 1) >= 1
    BY <1>0, <1>2 DEF e
  <1>4. ASSUME NEW r \in e .. q PROVE Bal(m, e, r) \in Int /\ Bal(m, e, r) <= 0
    <2>1. r \in Int /\ e <= r
      BY <1>0, <1>3
    <2>2. Bal(m, e, r) \in Int
      BY <1>0, <2>1, CountBal
    <2>3. CASE r = e
      <3>1. Bal(m, e, e) = 0
        BY <1>0, BalOne
      <3>2. QED
        BY <2>3, <3>1
    <2>4. CASE r # e
      <3>1. r - 1 \in e .. W - 1 /\ (r - 1) + 1 = r /\ ~(q <= r - 1)
        BY <1>0, <1>3, <2>1, <2>4
      <3>2. r - 1 \notin High
        BY <1>2, <3>1
      <3>3. ~(Bal(m, e, r) >= 1)
        BY <3>1, <3>2
      <3>4. QED
        BY <2>2, <3>3
    <2>5. QED
      BY <2>3, <2>4
  <1> HIDE DEF High
  <1>5. Bal(m, e, q + 1) = 1
    <2>1. q + 1 \in Int /\ e < q + 1 /\ (q + 1) - 1 = q /\ q \in e .. q
      BY <1>0, <1>3
    <2>2. Bal(m, e, q + 1) = Bal(m, e, (q + 1) - 1) + Val(m[(q + 1) - 1])
      BY <1>0, <2>1, BalStep
    <2>3. Bal(m, e, q) \in Int /\ Bal(m, e, q) <= 0
      BY <1>4, <2>1
    <2>4. Val(m[q]) \in {-1, 0, 1}
      BY DEF Val
    <2>5. QED
      BY <1>3, <2>1, <2>2, <2>3, <2>4
  <1> DEFINE Closes(r) == Count(m, p + 1 .. r, "L") - Count(m, p + 1 .. r, "R") = 1
  <1>6. ASSUME NEW r \in p + 1 .. W - 1 PROVE Closes(r) <=> Bal(m, e, r + 1) = 1
    <2>1. r + 1 \in Int /\ e <= r + 1 /\ (r + 1) - 1 = r /\ e = p + 1
      BY <1>0 DEF e
    <2>2. (Count(m, e .. (r + 1) - 1, "L") - Count(m, e .. (r + 1) - 1, "R") = 1) <=> Bal(m, e, r + 1) = 1
      BY <1>0, <2>1, CountBal
    <2>3. QED
      BY <2>1, <2>2
  <1>7. closure_match_right(m, p) =
           {x \in p + 1 .. W - 1 : Closes(x) /\ \A r \in p + 1 .. x - 1 : ~Closes(r)}
    BY DEF closure_match_right
  <1> HIDE DEF Closes
  <1>8. ASSUME NEW r \in p + 1 .. q - 1 PROVE ~Closes(r)
    <2>1. r + 1 \in e .. q /\ r \in p + 1 .. W - 1
      BY <1>0, <1>3 DEF e
    <2>2. Bal(m, e, r + 1) \in Int /\ Bal(m, e, r + 1) <= 0
      BY <1>4, <2>1
    <2>3. QED
      BY <1>6, <2>1, <2>2
  <1>9. Closes(q)
    BY <1>3, <1>5, <1>6
  <1>10. ASSUME NEW x \in closure_match_right(m, p) PROVE x = q
    <2>1. x \in p + 1 .. W - 1 /\ Closes(x) /\ \A r \in p + 1 .. x - 1 : ~Closes(r)
      BY <1>7
    <2>2. ~(x < q) /\ ~(q < x)
      <3>1. x < q => x \in p + 1 .. q - 1
        BY <1>0, <1>3, <2>1
      <3>2. q < x => q \in p + 1 .. x - 1
        BY <1>0, <1>3, <2>1
      <3>3. QED
        BY <1>8, <1>9, <2>1, <3>1, <3>2
    <2>3. QED
      BY <1>3, <2>1, <2>2
  <1>11. q \in closure_match_right(m, p)
    BY <1>3, <1>7, <1>8, <1>9
  <1>12. QED
    BY <1>10, <1>11

\* Including an edge leads to exactly one cell, but for an edge between an L and the R below it,
\* which would close a cycle: no count is lost for want of a partner.
THEOREM IncludedOnce ==
  ASSUME NEW m \in Words(W), NEW p \in 1 .. W - 1
  PROVE  IF m[p] = "L" /\ m[p - 1] = "R" THEN include_horizontal(m, p) = {}
         ELSE \E c \in Ranks : include_horizontal(m, p) = {c}
  <1> DEFINE a == m[p]
             b == m[p - 1]
  <1>1. a \in Letters /\ b \in Letters
    <2>1. p \in 0 .. W - 1 /\ p - 1 \in 0 .. W - 1
      BY GridAssumption
    <2>2. QED
      BY <2>1, WordType, GridAssumption
  <1>2. ASSUME NEW c \in include_horizontal(m, p) PROVE c \in Ranks
    <2>1. PICK t \in Words(W) :
             \/ c = MainCell(t)
             \/ \E at \in {p - 1, p} : t[at] = "N" /\ c = BlockCell(mshrink(t, at))
      BY Included
    <2>2. CASE c = MainCell(t)
      BY <2>2, CellsAre
    <2>3. CASE \E at \in {p - 1, p} : t[at] = "N" /\ c = BlockCell(mshrink(t, at))
      <3>1. PICK at \in {p - 1, p} : t[at] = "N" /\ c = BlockCell(mshrink(t, at))
        BY <2>3
      <3>2. at \in 0 .. W - 1
        BY GridAssumption
      <3>3. mshrink(t, at) \in Words(W - 1)
        BY <3>1, <3>2, ShrinkWord
      <3>4. QED
        BY <3>1, <3>3, CellsAre
    <2>4. QED
      BY <2>1, <2>2, <2>3
  <1>3. ASSUME a = "L", b = "R" PROVE include_horizontal(m, p) = {}
    BY <1>3 DEF include_horizontal
  <1>4. ASSUME ~(a = "L" /\ b = "R") PROVE \E c : include_horizontal(m, p) = {c}
    <2>1. CASE a = "L" /\ b = "L"
      <3>1. PICK q : closure_match_left(m, p) = {q}
        BY <2>1, PartnerLeft
      <3> DEFINE t == [Put(m, p, "N", "N") EXCEPT ![q] = "L"]
                 c == IF p = 1 THEN MainCell(t) ELSE BlockCell(mshrink(t, p - 1))
      <3>2. include_horizontal(m, p) =
               {IF p = 1 THEN MainCell([Put(m, p, "N", "N") EXCEPT ![x] = "L"])
                ELSE BlockCell(mshrink([Put(m, p, "N", "N") EXCEPT ![x] = "L"], p - 1)) :
                  x \in closure_match_left(m, p)}
        BY <2>1 DEF include_horizontal
      <3>3. include_horizontal(m, p) = {c}
        BY <3>1, <3>2
      <3> HIDE DEF c
      <3>4. QED
        BY <3>3
    <2>2. CASE a = "R" /\ b = "R"
      <3>1. PICK q : closure_match_right(m, p) = {q}
        BY <2>2, PartnerRight
      <3> DEFINE t == [Put(m, p, "N", "N") EXCEPT ![q] = "R"]
                 c == IF p = 1 THEN MainCell(t) ELSE BlockCell(mshrink(t, p - 1))
      <3>2. include_horizontal(m, p) =
               {IF p = 1 THEN MainCell([Put(m, p, "N", "N") EXCEPT ![x] = "R"])
                ELSE BlockCell(mshrink([Put(m, p, "N", "N") EXCEPT ![x] = "R"], p - 1)) :
                  x \in closure_match_right(m, p)}
        BY <2>2 DEF include_horizontal
      <3>3. include_horizontal(m, p) = {c}
        BY <3>1, <3>2
      <3> HIDE DEF c
      <3>4. QED
        BY <3>3
    <2>3. CASE a = "N" \/ b = "N" \/ (a = "R" /\ b = "L")
      BY <2>3 DEF include_horizontal
    <2>4. QED
      BY <1>1, <1>4, <2>1, <2>2, <2>3 DEF Letters
  <1>5. QED
    BY <1>2, <1>3, <1>4

-----------------------------------------------------------------------------
(***************************************************************************)
(* The line of heights of a word, with the L of the start above it.        *)
(***************************************************************************)
Line(m) == [q \in 0 .. W + 1 |-> IF q = W + 1 THEN 0 ELSE Height(m, W, q)]
Open(m) == PathEnds(Line(m), W + 1)
Pairs(m) == Mates(Line(m), W + 1)

\* What a letter does to the line.
LEMMA LineOf ==
  ASSUME NEW m \in Words(W)
  PROVE  /\ Profile(Line(m), W + 1) /\ W + 1 \in Nat /\ Line(m)[W] = 1 /\ Line(m)[W + 1] = 0 /\ W \in Nat /\ W > 1
         /\ \A q \in 0 .. W + 1 : Line(m)[q] \in Nat
         /\ \A q \in 0 .. W : Line(m)[q] = Height(m, W, q)
         /\ \A q \in 0 .. W - 1 : m[q] \in Letters /\ Line(m)[q] = Line(m)[q + 1] + Val(m[q])
         /\ Open(m) = {q \in 0 .. W - 1 : m[q] # "N"} \cup {W}
  <1> DEFINE h == Line(m)
  <1>0. W \in Nat /\ W > 1 /\ W + 1 \in Nat /\ (W + 1) - 1 = W
    BY WAssumption
  <1>1. /\ \A q \in 0 .. W - 1 : m[q] \in Letters
        /\ Height(m, W, 0) = 0 /\ Height(m, W, W) = 1
        /\ \A q \in 0 .. W : Height(m, W, q) \in Nat
        /\ \A q \in 0 .. W - 1 : Height(m, W, q) = Height(m, W, q + 1) + Val(m[q])
    <2>1. W <= W
      BY <1>0
    <2>2. QED
      BY <1>0, <2>1, WordType
  <1>2. h[W + 1] = 0 /\ \A q \in 0 .. W : h[q] = Height(m, W, q)
    BY <1>0 DEF Line
  <1>3. h[0] = 0 /\ h[W] = 1 /\ \A q \in 0 .. W + 1 : h[q] \in Nat
    <2>1. 0 \in 0 .. W /\ W \in 0 .. W /\ \A q \in 0 .. W + 1 : q = W + 1 \/ q \in 0 .. W
      BY <1>0
    <2>2. QED
      BY <1>1, <1>2, <2>1
  <1>4. \A q \in 0 .. W - 1 : h[q] = h[q + 1] + Val(m[q])
    <2>1. \A q \in 0 .. W - 1 : q \in 0 .. W /\ q + 1 \in 0 .. W
      BY <1>0
    <2>2. QED
      BY <1>1, <1>2, <2>1
  <1>5. \A q \in 0 .. W - 1 : Val(m[q]) \in {0, 1, -1} /\ (Val(m[q]) = 0 <=> m[q] = "N")
    BY <1>1 DEF Val, Letters
  <1> HIDE DEF h
  <1>6. Profile(h, W + 1)
    <2>1. ASSUME NEW q \in 0 .. (W + 1) - 1
          PROVE h[q] = h[q + 1] \/ h[q] = h[q + 1] + 1 \/ h[q + 1] = h[q] + 1
      <3>1. CASE q = W
        BY <1>2, <1>3, <3>1
      <3>2. CASE q # W
        <4>1. q \in 0 .. W - 1 /\ q \in 0 .. W + 1 /\ q + 1 \in 0 .. W + 1
          BY <1>0, <3>2
        <4>2. QED
          BY <1>3, <1>4, <1>5, <4>1
      <3>3. QED
        BY <3>1, <3>2
    <2>2. QED
      BY <1>2, <1>3, <2>1 DEF Profile
  <1>7. PathEnds(h, W + 1) = {q \in 0 .. W - 1 : m[q] # "N"} \cup {W}
    <2>1. ASSUME NEW q \in 0 .. W - 1 PROVE h[q] # h[q + 1] <=> m[q] # "N"
      <3>1. q \in 0 .. W + 1 /\ q + 1 \in 0 .. W + 1
        BY <1>0
      <3>2. QED
        BY <1>3, <1>4, <1>5, <3>1
    <2>2. \A q : q \in 0 .. (W + 1) - 1 <=> q \in 0 .. W - 1 \/ q = W
      BY <1>0
    <2>3. W \notin 0 .. W - 1 /\ h[W] # h[W + 1]
      BY <1>0, <1>2, <1>3
    <2>4. QED
      BY <2>1, <2>2, <2>3 DEF PathEnds
  <1>8. QED
    BY <1>0, <1>1, <1>2, <1>3, <1>4, <1>6, <1>7 DEF h, Open

\* Where two words have the same letters, their lines run in parallel.
LEMMA LineShift ==
  ASSUME NEW m \in Words(W), NEW t \in Words(W), NEW a \in 0 .. W, NEW b \in 0 .. W, a <= b,
         \A i \in a .. b - 1 : m[i] = t[i]
  PROVE  \A q \in a .. b : Line(t)[q] - Line(t)[b] = Line(m)[q] - Line(m)[b]
  <1> SUFFICES ASSUME NEW q \in a .. b PROVE Line(t)[q] - Line(t)[b] = Line(m)[q] - Line(m)[b]
    OBVIOUS
  <1>1. W \in Nat /\ q \in 0 .. W /\ q <= b /\ q \in Int /\ b \in Int
    BY WAssumption
  <1>2. Height(m, W, q) = Height(m, W, b) + Bal(m, q, b) /\ Height(t, W, q) = Height(t, W, b) + Bal(t, q, b)
    <2>1. Height(m, W, q) = Height(m, W, b) + Bal(m, q, b)
      BY <1>1, HeightFrom
    <2>2. Height(t, W, q) = Height(t, W, b) + Bal(t, q, b)
      BY <1>1, HeightFrom
    <2>3. QED
      BY <2>1, <2>2
  <1>3. Height(m, W, q) \in Int /\ Height(t, W, q) \in Int /\ Height(m, W, b) \in Int /\ Height(t, W, b) \in Int
    BY <1>1, HeightStep
  <1>4. Bal(m, q, b) = Bal(t, q, b) /\ Bal(m, q, b) \in Int
    <2>1. \A i \in q .. b - 1 : m[i] = t[i]
      OBVIOUS
    <2>2. Bal(m, q, b) = Bal(t, q, b)
      BY <1>1, <2>1, BalSame
    <2>3. Bal(m, q, b) \in Int
      BY <1>1, CountBal
    <2>4. QED
      BY <2>2, <2>3
  <1>5. Line(m)[q] = Height(m, W, q) /\ Line(m)[b] = Height(m, W, b)
        /\ Line(t)[q] = Height(t, W, q) /\ Line(t)[b] = Height(t, W, b)
    BY <1>1, LineOf
  <1>6. QED
    BY <1>2, <1>3, <1>4, <1>5

\* Words with the same line are the same.
LEMMA LineInjective ==
  ASSUME NEW m \in Words(W), NEW t \in Words(W), \A q \in 1 .. W - 1 : Line(m)[q] = Line(t)[q]
  PROVE  m = t
  <1>1. \A q \in 0 .. W : Line(m)[q] = Line(t)[q] /\ Line(m)[q] \in Nat
    <2>1. \A q \in 0 .. W : (q = 0 \/ q = W \/ q \in 1 .. W - 1) /\ q \in 0 .. W + 1
      BY WAssumption
    <2>2. Line(m)[0] = Line(t)[0]
      BY LineOf DEF Profile
    <2>3. QED
      BY <2>1, <2>2, LineOf
  <1>2. ASSUME NEW q \in 0 .. W - 1 PROVE m[q] = t[q]
    <2>1. q \in 0 .. W /\ q + 1 \in 0 .. W
      BY WAssumption
    <2>2. /\ m[q] \in Letters /\ Line(m)[q] = Line(m)[q + 1] + Val(m[q])
          /\ t[q] \in Letters /\ Line(t)[q] = Line(t)[q + 1] + Val(t[q])
      BY LineOf
    <2>3. Val(m[q]) \in Int /\ Val(t[q]) \in Int
      BY DEF Val
    <2>4. Val(m[q]) = Val(t[q])
      BY <1>1, <2>1, <2>2, <2>3
    <2>5. QED
      BY <2>2, <2>4 DEF Val, Letters
  <1>3. m \in [0 .. W - 1 -> {"N", "R", "L"}] /\ t \in [0 .. W - 1 -> {"N", "R", "L"}]
    BY DEF Words
  <1>4. m = [q \in 0 .. W - 1 |-> m[q]] /\ t = [q \in 0 .. W - 1 |-> t[q]]
    BY <1>3
  <1>5. [q \in 0 .. W - 1 |-> m[q]] = [q \in 0 .. W - 1 |-> t[q]]
    BY <1>2
  <1>6. QED
    BY <1>4, <1>5

\* Two letters next to each other that are replaced change the line between them only.
LEMMA LinePair ==
  ASSUME NEW m \in Words(W), NEW t \in Words(W), NEW p \in 1 .. W - 1,
         Val(t[p]) + Val(t[p - 1]) = Val(m[p]) + Val(m[p - 1]),
         \A i \in 0 .. W - 1 : i # p /\ i # p - 1 => t[i] = m[i]
  PROVE  Elsewhere(Line(m), Line(t), W + 1, p) /\ Line(t)[p] = Line(m)[p + 1] + Val(t[p])
  <1> DEFINE h == Line(m)
             k == Line(t)
  <1>0. W \in Nat /\ p \in 0 .. W - 1 /\ p - 1 \in 0 .. W - 1 /\ p + 1 \in 0 .. W /\ p - 1 \in 0 .. W /\ W \in 0 .. W
        /\ p + 1 <= W /\ 0 <= p - 1 /\ 0 \in 0 .. W /\ p \in Int
    BY WAssumption
  <1>1. /\ h[W] = 1 /\ k[W] = 1 /\ h[W + 1] = 0 /\ k[W + 1] = 0
        /\ \A q \in 0 .. W + 1 : h[q] \in Nat /\ k[q] \in Nat
        /\ \A q \in 0 .. W - 1 : h[q] = h[q + 1] + Val(m[q]) /\ k[q] = k[q + 1] + Val(t[q])
    BY LineOf
  <1>2. \A q \in p + 1 .. W : k[q] - k[W] = h[q] - h[W]
    <2>1. \A i \in p + 1 .. W - 1 : m[i] = t[i]
      BY <1>0
    <2>2. QED
      BY <1>0, <2>1, LineShift
  <1>3. \A q \in 0 .. p - 1 : k[q] - k[p - 1] = h[q] - h[p - 1]
    <2>1. \A i \in 0 .. (p - 1) - 1 : m[i] = t[i]
      BY <1>0
    <2>2. QED
      BY <1>0, <2>1, LineShift
  <1> HIDE DEF h, k
  <1>4. \A q \in p + 1 .. W : k[q] = h[q]
    BY <1>0, <1>1, <1>2
  <1>5. k[p + 1] = h[p + 1] /\ h[p] = h[p + 1] + Val(m[p]) /\ k[p] = k[p + 1] + Val(t[p])
        /\ h[p - 1] = h[p] + Val(m[p - 1]) /\ k[p - 1] = k[p] + Val(t[p - 1])
    <2>1. p + 1 \in p + 1 .. W /\ (p - 1) + 1 = p
      BY <1>0
    <2>2. QED
      BY <1>0, <1>1, <1>4, <2>1
  <1>6. k[p - 1] = h[p - 1]
    <2>1. Val(t[p]) \in Int /\ Val(t[p - 1]) \in Int /\ Val(m[p]) \in Int /\ Val(m[p - 1]) \in Int
      BY DEF Val
    <2>2. h[p + 1] \in Int
      BY <1>0, <1>1
    <2>3. QED
      BY <1>5, <2>1, <2>2
  <1>7. \A q \in 0 .. p - 1 : k[q] = h[q]
    BY <1>0, <1>1, <1>3, <1>6
  <1>8. \A r \in 0 .. W + 1 : r # p => k[r] = h[r]
    <2>1. \A r \in 0 .. W + 1 : r = W + 1 \/ r \in 0 .. p - 1 \/ r \in p + 1 .. W \/ r = p
      BY <1>0
    <2>2. QED
      BY <1>1, <1>4, <1>7, <2>1
  <1>9. QED
    BY <1>5, <1>8 DEF Elsewhere, h, k

\* The partner that the code searches for is the one that belongs to the letter.
LEMMA ClosureLeft ==
  ASSUME NEW m \in Words(W), NEW p \in 1 .. W - 1, m[p] = "L", m[p - 1] = "L",
         NEW q \in closure_match_left(m, p)
  PROVE  Arc(Line(m), p - 1, q)
  <1> DEFINE h == Line(m)
             Shut(r) == Count(m, r .. p - 2, "R") - Count(m, r .. p - 2, "L") = 1
  <1>0. W \in Nat /\ p - 1 \in 0 .. W /\ p - 1 \in 0 .. (W + 1) - 1 /\ p - 1 \in 0 .. W - 1 /\ p \in 0 .. W - 1 /\ (p - 1) + 1 = p
        /\ W + 1 \in Nat /\ p \in 0 .. W + 1 /\ p - 1 \in 0 .. W + 1 /\ (p - 1) - 1 = p - 2 /\ p \in Int
    BY WAssumption
  <1>1. /\ Profile(h, W + 1) /\ \A r \in 0 .. W + 1 : h[r] \in Nat
        /\ \A r \in 0 .. W : h[r] = Height(m, W, r)
        /\ h[p - 1] = h[p] + 1
    <2>1. h[p - 1] = h[(p - 1) + 1] + Val(m[p - 1])
      BY <1>0, LineOf
    <2>2. QED
      BY <1>0, <2>1, LineOf DEF Val
  <1>2. \A r \in 0 .. p - 1 : Shut(r) <=> h[r] = h[p]
    <2> SUFFICES ASSUME NEW r \in 0 .. p - 1 PROVE Shut(r) <=> h[r] = h[p]
      OBVIOUS
    <2>1. r \in 0 .. W /\ r <= p - 1 /\ r \in Int /\ p - 1 \in Int /\ r \in 0 .. W + 1
      BY <1>0
    <2>2. h[r] = h[p - 1] + Bal(m, r, p - 1) /\ Bal(m, r, p - 1) \in Int
      <3>1. Height(m, W, r) = Height(m, W, p - 1) + Bal(m, r, p - 1)
        BY <1>0, <2>1, HeightFrom
      <3>2. QED
        BY <1>0, <1>1, <2>1, <3>1, CountBal
    <2>3. Shut(r) <=> Bal(m, r, p - 1) = -1
      BY <1>0, <2>1, CountBal
    <2>4. h[r] \in Int /\ h[p] \in Int
      BY <1>0, <1>1, <2>1
    <2> HIDE DEF h, Shut
    <2>5. QED
      BY <1>1, <2>2, <2>3, <2>4
  <1>3. q \in 0 .. p - 2 /\ Shut(q) /\ \A r \in q + 1 .. p - 2 : ~Shut(r)
    BY DEF closure_match_left
  <1> HIDE DEF h, Shut
  <1>4. PICK y \in 0 .. (W + 1) - 1 : Arc(h, p - 1, y)
    <2>1. h[p - 1] > h[(p - 1) + 1]
      BY <1>0, <1>1
    <2>2. QED
      BY <1>0, <1>1, <2>1, ArcOfL
  <1>5. y < p - 1 /\ y \in Int /\ h[y] = h[p] /\ \A r \in y + 1 .. p - 1 : h[r] > h[y]
    BY <1>0, <1>4 DEF Arc
  <1>6. y = q
    <2>1. Shut(y)
      BY <1>0, <1>2, <1>5
    <2>2. ASSUME q < y PROVE FALSE
      <3>1. y \in q + 1 .. p - 2
        BY <1>0, <1>3, <1>5, <2>2
      <3>2. QED
        BY <1>3, <2>1, <3>1
    <2>3. ASSUME y < q PROVE FALSE
      <3>1. q \in y + 1 .. p - 1 /\ q \in 0 .. p - 1
        BY <1>0, <1>3, <1>5, <2>3
      <3>2. h[q] = h[p] /\ h[q] > h[y] /\ h[p] \in Nat
        BY <1>0, <1>1, <1>2, <1>3, <1>5, <3>1
      <3>3. QED
        BY <1>5, <3>2
    <2>4. QED
      BY <1>3, <1>5, <2>2, <2>3
  <1>7. QED
    BY <1>4, <1>6 DEF h

\* The same for the other side.
LEMMA ClosureRight ==
  ASSUME NEW m \in Words(W), NEW p \in 1 .. W - 1, m[p] = "R", m[p - 1] = "R",
         NEW q \in closure_match_right(m, p)
  PROVE  Arc(Line(m), q, p)
  <1> DEFINE h == Line(m)
             Shut(r) == Count(m, p + 1 .. r, "L") - Count(m, p + 1 .. r, "R") = 1
  <1>0. W \in Nat /\ p + 1 \in 0 .. W /\ p \in 0 .. (W + 1) - 1 /\ p \in 0 .. W - 1
        /\ W + 1 \in Nat /\ p \in 0 .. W + 1 /\ p + 1 \in 0 .. W + 1 /\ p \in Int /\ p + 1 \in Int
    BY WAssumption
  <1>1. /\ Profile(h, W + 1) /\ \A r \in 0 .. W + 1 : h[r] \in Nat
        /\ \A r \in 0 .. W : h[r] = Height(m, W, r) /\ h[W + 1] = 0
        /\ h[p + 1] = h[p] + 1
    <2>1. h[p] = h[p + 1] + Val(m[p]) /\ h[p] \in Nat /\ h[p + 1] \in Nat
      BY <1>0, LineOf
    <2>2. QED
      BY <1>0, <2>1, LineOf DEF Val
  <1>2. \A r \in p + 1 .. W - 1 : Shut(r) <=> h[r + 1] = h[p]
    <2> SUFFICES ASSUME NEW r \in p + 1 .. W - 1 PROVE Shut(r) <=> h[r + 1] = h[p]
      OBVIOUS
    <2>1. r + 1 \in 0 .. W /\ p + 1 <= r + 1 /\ r + 1 \in Int /\ (r + 1) - 1 = r /\ r + 1 \in 0 .. W + 1
      BY <1>0
    <2>2. h[p + 1] = h[r + 1] + Bal(m, p + 1, r + 1) /\ Bal(m, p + 1, r + 1) \in Int
      <3>1. Height(m, W, p + 1) = Height(m, W, r + 1) + Bal(m, p + 1, r + 1)
        BY <1>0, <2>1, HeightFrom
      <3>2. QED
        BY <1>0, <1>1, <2>1, <3>1, CountBal
    <2>3. Shut(r) <=> Bal(m, p + 1, r + 1) = 1
      BY <1>0, <2>1, CountBal
    <2>4. h[r + 1] \in Int /\ h[p] \in Int
      BY <1>0, <1>1, <2>1
    <2> HIDE DEF h, Shut
    <2>5. QED
      BY <1>1, <2>2, <2>3, <2>4
  <1>3. q \in p + 1 .. W - 1 /\ Shut(q) /\ \A r \in p + 1 .. q - 1 : ~Shut(r)
    BY DEF closure_match_right
  <1> HIDE DEF h, Shut
  <1>4. PICK x \in 0 .. (W + 1) - 1 : Arc(h, x, p)
    <2>1. h[p + 1] > h[p]
      BY <1>0, <1>1
    <2>2. QED
      BY <1>0, <1>1, <2>1, ArcOfR
  <1>5. p < x /\ x \in Int /\ h[x + 1] = h[p] /\ \A r \in p + 1 .. x : h[r] > h[p]
    BY <1>4 DEF Arc
  <1>6. x = q
    <2>1. q + 1 \in 0 .. W /\ h[q + 1] = h[p] /\ q \in Int
      BY <1>0, <1>2, <1>3
    <2>2. ASSUME q < x PROVE FALSE
      <3>1. q + 1 \in p + 1 .. x /\ h[p] \in Nat
        BY <1>0, <1>1, <1>3, <1>5, <2>1, <2>2
      <3>2. QED
        BY <1>5, <2>1, <3>1
    <2>3. ASSUME x < q PROVE FALSE
      <3>1. x \in p + 1 .. q - 1 /\ x \in p + 1 .. W - 1
        BY <1>0, <1>3, <1>5, <2>1, <2>3
      <3>2. QED
        BY <1>2, <1>3, <1>5, <3>1
    <2>4. QED
      BY <1>5, <2>1, <2>2, <2>3
  <1>7. QED
    BY <1>4, <1>6 DEF h

-----------------------------------------------------------------------------
(***************************************************************************)
(* include_horizontal on whole words: the blocked position is kept as one  *)
(* where no path ends.                                                     *)
(***************************************************************************)
Emptied(m, p) == Put(m, p, "N", "N")
Including(m, p) ==
    CASE m[p] = "N" /\ m[p - 1] = "N" -> {Put(m, p, "L", "R")}
      [] m[p] = "N" /\ m[p - 1] # "N" -> {Put(m, p, m[p - 1], "N")}
      [] m[p] # "N" /\ m[p - 1] = "N" -> {Put(m, p, "N", m[p])}
      [] m[p] = "L" /\ m[p - 1] = "L" -> {[Emptied(m, p) EXCEPT ![q] = "L"] : q \in closure_match_left(m, p)}
      [] m[p] = "R" /\ m[p - 1] = "R" -> {[Emptied(m, p) EXCEPT ![q] = "R"] : q \in closure_match_right(m, p)}
      [] m[p] = "R" /\ m[p - 1] = "L" -> {Emptied(m, p)}
      [] OTHER -> {}

\* The lower letters of two, when they are replaced.
LEMMA PutAt ==
  ASSUME NEW m \in Words(W), NEW p \in 1 .. W - 1, NEW a, NEW b
  PROVE  /\ Put(m, p, a, b)[p] = a /\ Put(m, p, a, b)[p - 1] = b
         /\ \A i \in 0 .. W - 1 : i # p /\ i # p - 1 => Put(m, p, a, b)[i] = m[i]
         /\ DOMAIN Put(m, p, a, b) = 0 .. W - 1 /\ DOMAIN m = 0 .. W - 1
  <1>1. p \in 0 .. W - 1 /\ p - 1 \in 0 .. W - 1 /\ p # p - 1 /\ DOMAIN m = 0 .. W - 1
    BY WAssumption DEF Words
  <1>2. QED
    BY <1>1 DEF Put

\* What including does to the letters, case by case.
PairCase(m, t, p) ==
    /\ \A i \in 0 .. W - 1 : i # p /\ i # p - 1 => t[i] = m[i]
    /\ \/ m[p] = "N" /\ m[p - 1] = "N" /\ t[p] = "L" /\ t[p - 1] = "R"
       \/ m[p] = "N" /\ m[p - 1] # "N" /\ t[p] = m[p - 1] /\ t[p - 1] = "N"
       \/ m[p] # "N" /\ m[p - 1] = "N" /\ t[p] = "N" /\ t[p - 1] = m[p]
       \/ m[p] = "R" /\ m[p - 1] = "L" /\ t[p] = "N" /\ t[p - 1] = "N"
LeftCase(m, t, p, q) ==
    /\ m[p] = "L" /\ m[p - 1] = "L" /\ q \in 0 .. p - 2 /\ m[q] = "R" /\ Arc(Line(m), p - 1, q)
    /\ t[p] = "N" /\ t[p - 1] = "N" /\ t[q] = "L"
    /\ \A i \in 0 .. W - 1 : i # p /\ i # p - 1 /\ i # q => t[i] = m[i]
RightCase(m, t, p, q) ==
    /\ m[p] = "R" /\ m[p - 1] = "R" /\ q \in p + 1 .. W - 1 /\ m[q] = "L" /\ Arc(Line(m), q, p)
    /\ t[p] = "N" /\ t[p - 1] = "N" /\ t[q] = "R"
    /\ \A i \in 0 .. W - 1 : i # p /\ i # p - 1 /\ i # q => t[i] = m[i]

\* Including gives a word, in one of these ways.
LEMMA IncludingCases ==
  ASSUME NEW m \in Words(W), NEW p \in 1 .. W - 1, NEW t \in Including(m, p)
  PROVE  /\ t \in Words(W)
         /\ PairCase(m, t, p) \/ (\E q : LeftCase(m, t, p, q)) \/ (\E q : RightCase(m, t, p, q))
  <1>0. W \in Nat /\ p \in 0 .. W - 1 /\ p - 1 \in 0 .. W - 1 /\ p \in Int
    BY WAssumption
  <1>1. m[p] \in Letters /\ m[p - 1] \in Letters
    BY <1>0, LineOf
  <1>2. "N" \in Letters /\ "L" \in Letters /\ "R" \in Letters /\ Val("N") = 0 /\ Val("L") = 1 /\ Val("R") = -1
        /\ Val(m[p]) \in Int /\ Val(m[p - 1]) \in Int
    BY DEF Letters, Val
  <1>3. CASE m[p] = "N" /\ m[p - 1] = "N"
    <2>1. t = Put(m, p, "L", "R")
      BY <1>3 DEF Including
    <2>2. Val("L") + Val("R") = Val(m[p]) + Val(m[p - 1]) /\ Val("L") >= 0
      BY <1>2, <1>3
    <2>3. t \in Words(W)
      BY <1>2, <2>1, <2>2, ReplacePair
    <2>4. PairCase(m, t, p)
      BY <1>3, <2>1, PutAt DEF PairCase
    <2>5. QED
      BY <2>3, <2>4
  <1>4. CASE m[p] = "N" /\ m[p - 1] # "N"
    <2>1. t = Put(m, p, m[p - 1], "N")
      BY <1>4 DEF Including
    <2>2. Val(m[p - 1]) + Val("N") = Val(m[p]) + Val(m[p - 1]) /\ Val("N") = 0
      BY <1>2, <1>4
    <2>3. t \in Words(W)
      BY <1>1, <1>2, <2>1, <2>2, ReplacePair
    <2>4. PairCase(m, t, p)
      BY <1>4, <2>1, PutAt DEF PairCase
    <2>5. QED
      BY <2>3, <2>4
  <1>5. CASE m[p] # "N" /\ m[p - 1] = "N"
    <2>1. t = Put(m, p, "N", m[p])
      BY <1>5 DEF Including
    <2>2. Val("N") + Val(m[p]) = Val(m[p]) + Val(m[p - 1]) /\ Val("N") >= 0
      BY <1>2, <1>5
    <2>3. t \in Words(W)
      BY <1>1, <1>2, <2>1, <2>2, ReplacePair
    <2>4. PairCase(m, t, p)
      BY <1>5, <2>1, PutAt DEF PairCase
    <2>5. QED
      BY <2>3, <2>4
  <1>6. CASE m[p] = "R" /\ m[p - 1] = "L"
    <2>1. t = Put(m, p, "N", "N")
      BY <1>6 DEF Including, Emptied
    <2>2. Val("N") + Val("N") = Val(m[p]) + Val(m[p - 1]) /\ Val("N") >= 0
      BY <1>2, <1>6
    <2>3. t \in Words(W)
      BY <1>2, <2>1, <2>2, ReplacePair
    <2>4. PairCase(m, t, p)
      BY <1>6, <2>1, PutAt DEF PairCase
    <2>5. QED
      BY <2>3, <2>4
  <1>7. CASE m[p] = "L" /\ m[p - 1] = "L"
    <2>1. PICK q \in closure_match_left(m, p) : t = [Put(m, p, "N", "N") EXCEPT ![q] = "L"]
      BY <1>7 DEF Including, Emptied
    <2>2. q \in 0 .. p - 2 /\ m[q] = "R" /\ [Put(m, p, "N", "N") EXCEPT ![q] = "L"] \in Words(W)
      BY <1>7, <2>1, MatchLeft
    <2>3. Arc(Line(m), p - 1, q)
      BY <1>7, <2>1, ClosureLeft
    <2>4. q \in 0 .. W - 1 /\ q # p /\ q # p - 1
      BY <1>0, <2>2
    <2>5. /\ t[p] = "N" /\ t[p - 1] = "N" /\ t[q] = "L"
          /\ \A i \in 0 .. W - 1 : i # p /\ i # p - 1 /\ i # q => t[i] = m[i]
      <3> DEFINE e == Put(m, p, "N", "N")
      <3>1. /\ e[p] = "N" /\ e[p - 1] = "N" /\ DOMAIN e = 0 .. W - 1
            /\ \A i \in 0 .. W - 1 : i # p /\ i # p - 1 => e[i] = m[i]
        BY PutAt
      <3>2. t = [e EXCEPT ![q] = "L"]
        BY <2>1
      <3> HIDE DEF e
      <3>3. QED
        BY <1>0, <2>4, <3>1, <3>2
    <2>6. LeftCase(m, t, p, q)
      BY <1>7, <2>2, <2>3, <2>5 DEF LeftCase
    <2>7. QED
      BY <2>1, <2>2, <2>6
  <1>8. CASE m[p] = "R" /\ m[p - 1] = "R"
    <2>1. PICK q \in closure_match_right(m, p) : t = [Put(m, p, "N", "N") EXCEPT ![q] = "R"]
      BY <1>8 DEF Including, Emptied
    <2>2. q \in p + 1 .. W - 1 /\ m[q] = "L" /\ [Put(m, p, "N", "N") EXCEPT ![q] = "R"] \in Words(W)
      BY <1>8, <2>1, MatchRight
    <2>3. Arc(Line(m), q, p)
      BY <1>8, <2>1, ClosureRight
    <2>4. q \in 0 .. W - 1 /\ q # p /\ q # p - 1
      BY <1>0, <2>2
    <2>5. /\ t[p] = "N" /\ t[p - 1] = "N" /\ t[q] = "R"
          /\ \A i \in 0 .. W - 1 : i # p /\ i # p - 1 /\ i # q => t[i] = m[i]
      <3> DEFINE e == Put(m, p, "N", "N")
      <3>1. /\ e[p] = "N" /\ e[p - 1] = "N" /\ DOMAIN e = 0 .. W - 1
            /\ \A i \in 0 .. W - 1 : i # p /\ i # p - 1 => e[i] = m[i]
        BY PutAt
      <3>2. t = [e EXCEPT ![q] = "R"]
        BY <2>1
      <3> HIDE DEF e
      <3>3. QED
        BY <1>0, <2>4, <3>1, <3>2
    <2>6. RightCase(m, t, p, q)
      BY <1>8, <2>2, <2>3, <2>5 DEF RightCase
    <2>7. QED
      BY <2>1, <2>2, <2>6
  <1>9. CASE m[p] = "L" /\ m[p - 1] = "R"
    BY <1>9 DEF Including
  <1>10. QED
    BY <1>1, <1>3, <1>4, <1>5, <1>6, <1>7, <1>8, <1>9 DEF Letters

\* An edge can be included in one way, unless it would close a cycle.
LEMMA IncludingOnce ==
  ASSUME NEW m \in Words(W), NEW p \in 1 .. W - 1
  PROVE  IF m[p] = "L" /\ m[p - 1] = "R" THEN Including(m, p) = {} ELSE \E t : Including(m, p) = {t}
  <1>0. p \in 0 .. W - 1 /\ p - 1 \in 0 .. W - 1
    BY WAssumption
  <1>1. m[p] \in Letters /\ m[p - 1] \in Letters
    BY <1>0, LineOf
  <1>2. CASE m[p] = "N" \/ m[p - 1] = "N" \/ (m[p] = "R" /\ m[p - 1] = "L") \/ (m[p] = "L" /\ m[p - 1] = "R")
    BY <1>2 DEF Including
  <1>3. CASE m[p] = "L" /\ m[p - 1] = "L"
    <2>1. PICK q : closure_match_left(m, p) = {q}
      BY <1>3, PartnerLeft
    <2>2. Including(m, p) = {[Emptied(m, p) EXCEPT ![r] = "L"] : r \in closure_match_left(m, p)}
      BY <1>3 DEF Including
    <2> DEFINE F(r) == [Emptied(m, p) EXCEPT ![r] = "L"]
    <2>3. Including(m, p) = {F(r) : r \in {q}}
      BY <2>1, <2>2
    <2> HIDE DEF F
    <2>4. Including(m, p) = {F(q)}
      BY <2>3
    <2>5. ~(m[p] = "L" /\ m[p - 1] = "R")
      BY <1>3
    <2>6. QED
      BY <2>4, <2>5
  <1>4. CASE m[p] = "R" /\ m[p - 1] = "R"
    <2>1. PICK q : closure_match_right(m, p) = {q}
      BY <1>4, PartnerRight
    <2>2. Including(m, p) = {[Emptied(m, p) EXCEPT ![r] = "R"] : r \in closure_match_right(m, p)}
      BY <1>4 DEF Including
    <2> DEFINE F(r) == [Emptied(m, p) EXCEPT ![r] = "R"]
    <2>3. Including(m, p) = {F(r) : r \in {q}}
      BY <2>1, <2>2
    <2> HIDE DEF F
    <2>4. Including(m, p) = {F(q)}
      BY <2>3
    <2>5. ~(m[p] = "L" /\ m[p - 1] = "R")
      BY <1>4
    <2>6. QED
      BY <2>4, <2>5
  <1>5. QED
    BY <1>1, <1>2, <1>3, <1>4 DEF Letters

\* The cell that stands for a word, blocked at a position or not.
CellOf(m, at, b) == IF b THEN BlockCell(mshrink(m, at)) ELSE MainCell(m)

\* include_horizontal gives the cells of these words: blocked if the vertex reached is done with.
LEMMA IncludingCells ==
  ASSUME NEW m \in Words(W), NEW p \in 1 .. W - 1
  PROVE  include_horizontal(m, p) = {CellOf(t, p - 1, p > 1 /\ m[p - 1] # "N") : t \in Including(m, p)}
  <1>0. p \in 0 .. W - 1 /\ p - 1 \in 0 .. W - 1 /\ p \in Int /\ W \in Nat
    BY WAssumption
  <1>1. m[p] \in Letters /\ m[p - 1] \in Letters
    BY <1>0, LineOf
  <1>2. CASE m[p] = "N" /\ m[p - 1] = "N"
    BY <1>2 DEF Including, include_horizontal, CellOf
  <1>3. CASE m[p] # "N" /\ m[p - 1] = "N"
    BY <1>3 DEF Including, include_horizontal, CellOf
  <1>4. CASE m[p] = "R" /\ m[p - 1] = "L"
    BY <1>0, <1>4 DEF Including, include_horizontal, CellOf, Emptied
  <1>5. CASE m[p] = "L" /\ m[p - 1] = "R"
    BY <1>5 DEF Including, include_horizontal, CellOf
  <1>6. CASE m[p] = "L" /\ m[p - 1] = "L"
    <2>1. PICK q : closure_match_left(m, p) = {q}
      BY <1>6, PartnerLeft
    <2>2. QED
      BY <1>0, <1>6, <2>1 DEF Including, include_horizontal, CellOf, Emptied
  <1>7. CASE m[p] = "R" /\ m[p - 1] = "R"
    <2>1. PICK q : closure_match_right(m, p) = {q}
      BY <1>7, PartnerRight
    <2>2. QED
      BY <1>0, <1>7, <2>1 DEF Including, include_horizontal, CellOf, Emptied
  <1>8. CASE m[p] = "N" /\ m[p - 1] # "N"
    <2>1. mshrink(m, p) = mshrink(Put(m, p, m[p - 1], "N"), p - 1)
      <3> DEFINE t == Put(m, p, m[p - 1], "N")
      <3>1. t[p] = m[p - 1] /\ \A i \in 0 .. W - 1 : i # p /\ i # p - 1 => t[i] = m[i]
        BY PutAt
      <3> HIDE DEF t
      <3>2. ASSUME NEW i \in 0 .. W - 2
            PROVE (IF i < p THEN m[i] ELSE m[i + 1]) = IF i < p - 1 THEN t[i] ELSE t[i + 1]
        <4>1. CASE i < p - 1
          BY <1>0, <3>1, <4>1
        <4>2. CASE i = p - 1
          BY <1>0, <3>1, <4>2
        <4>3. CASE i > p - 1
          <5>1. i + 1 \in 0 .. W - 1 /\ i + 1 # p /\ i + 1 # p - 1 /\ ~(i < p)
            BY <1>0, <4>3
          <5>2. QED
            BY <3>1, <4>3, <5>1
        <4>4. QED
          BY <1>0, <4>1, <4>2, <4>3
      <3>3. QED
        BY <3>2 DEF mshrink, t
    <2>2. CASE p = 1
      BY <1>8, <2>2 DEF Including, include_horizontal, CellOf
    <2>3. CASE p # 1
      <3>1. include_horizontal(m, p) = {BlockCell(mshrink(m, p))}
        BY <1>8, <2>3 DEF include_horizontal
      <3>2. Including(m, p) = {Put(m, p, m[p - 1], "N")} /\ p > 1
        BY <1>0, <1>8, <2>3 DEF Including
      <3>3. QED
        BY <1>8, <2>1, <3>1, <3>2 DEF CellOf
    <2>4. QED
      BY <2>2, <2>3
  <1>9. QED
    BY <1>1, <1>2, <1>3, <1>4, <1>5, <1>6, <1>7, <1>8 DEF Letters

-----------------------------------------------------------------------------
\* How the line changes when two L meet, and the R of the second becomes an L.
LEMMA LineLeft ==
  ASSUME NEW m \in Words(W), NEW t \in Words(W), NEW p \in 1 .. W - 1, NEW q, LeftCase(m, t, p, q)
  PROVE  /\ Line(m)[p] = Line(m)[p + 1] + 1 /\ Line(m)[p - 1] = Line(m)[p] + 1 /\ Line(t)[p] + 1 = Line(m)[p]
         /\ \A r \in 0 .. W + 1 : r > p \/ r <= q => Line(t)[r] = Line(m)[r]
         /\ \A r \in q + 1 .. p - 1 : Line(t)[r] + 2 = Line(m)[r]
  <1> DEFINE h == Line(m)
             k == Line(t)
  <1>0. W \in Nat /\ p \in Int /\ q \in Int /\ 0 <= q /\ q <= p - 2 /\ p <= W - 1
        /\ p \in 0 .. W - 1 /\ p - 1 \in 0 .. W - 1 /\ q \in 0 .. W - 1 /\ (p - 1) + 1 = p
    BY WAssumption DEF LeftCase
  <1>1. /\ h[W] = 1 /\ k[W] = 1 /\ h[W + 1] = 0 /\ k[W + 1] = 0
        /\ \A r \in 0 .. W + 1 : h[r] \in Nat /\ k[r] \in Nat
        /\ \A r \in 0 .. W - 1 : h[r] = h[r + 1] + Val(m[r]) /\ k[r] = k[r + 1] + Val(t[r])
    BY LineOf
  <1>2. Val("N") = 0 /\ Val("L") = 1 /\ Val("R") = -1
    BY DEF Val
  <1>3. /\ h[p] = h[p + 1] + 1 /\ h[p - 1] = h[p] + 1 /\ h[q] = h[q + 1] - 1
        /\ k[p] = k[p + 1] /\ k[p - 1] = k[p] /\ k[q] = k[q + 1] + 1
    <2>1. /\ m[p] = "L" /\ m[p - 1] = "L" /\ m[q] = "R" /\ t[p] = "N" /\ t[p - 1] = "N" /\ t[q] = "L"
      BY DEF LeftCase
    <2>2. h[p - 1] = h[(p - 1) + 1] + 1 /\ k[p - 1] = k[(p - 1) + 1] + 0
      BY <1>0, <1>1, <1>2, <2>1
    <2>3. /\ h[p] = h[p + 1] + 1 /\ h[q] = h[q + 1] + (-1) /\ k[p] = k[p + 1] + 0 /\ k[q] = k[q + 1] + 1
      BY <1>0, <1>1, <1>2, <2>1
    <2>4. p + 1 \in 0 .. W + 1 /\ p \in 0 .. W + 1 /\ q + 1 \in 0 .. W + 1
      BY <1>0
    <2>5. h[q + 1] \in Nat /\ k[p + 1] \in Nat /\ k[p] \in Nat
      BY <1>1, <2>4
    <2> HIDE DEF h, k
    <2>6. QED
      BY <1>0, <2>2, <2>3, <2>5
  <1>4. \A r \in p + 1 .. W : k[r] - k[W] = h[r] - h[W]
    <2>1. \A i \in p + 1 .. W - 1 : m[i] = t[i]
      BY <1>0 DEF LeftCase
    <2>2. p + 1 \in 0 .. W /\ W \in 0 .. W /\ p + 1 <= W
      BY <1>0
    <2>3. QED
      BY <2>1, <2>2, LineShift
  <1>5. \A r \in q + 1 .. p - 1 : k[r] - k[p - 1] = h[r] - h[p - 1]
    <2>1. \A i \in q + 1 .. (p - 1) - 1 : m[i] = t[i]
      BY <1>0 DEF LeftCase
    <2>2. q + 1 \in 0 .. W /\ p - 1 \in 0 .. W /\ q + 1 <= p - 1
      BY <1>0
    <2>3. QED
      BY <2>1, <2>2, LineShift
  <1>6. \A r \in 0 .. q : k[r] - k[q] = h[r] - h[q]
    <2>1. \A i \in 0 .. q - 1 : m[i] = t[i]
      BY <1>0 DEF LeftCase
    <2>2. 0 \in 0 .. W /\ q \in 0 .. W /\ 0 <= q
      BY <1>0
    <2>3. QED
      BY <2>1, <2>2, LineShift
  <1> HIDE DEF h, k
  <1>7. \A r \in 0 .. W + 1 : r > p => k[r] = h[r]
    <2>1. \A r \in p + 1 .. W : k[r] = h[r]
      BY <1>0, <1>1, <1>4
    <2>2. QED
      BY <1>0, <1>1, <2>1
  <1>8. k[p] + 1 = h[p] /\ k[p - 1] + 2 = h[p - 1]
    <2>1. p + 1 \in 0 .. W + 1
      BY <1>0
    <2>2. k[p + 1] = h[p + 1] /\ h[p + 1] \in Nat
      BY <1>0, <1>1, <1>7, <2>1
    <2>3. QED
      BY <1>3, <2>2
  <1>9. \A r \in q + 1 .. p - 1 : k[r] + 2 = h[r]
    <2>1. \A r \in q + 1 .. p - 1 : r \in 0 .. W + 1
      BY <1>0
    <2>2. k[p - 1] \in Nat /\ h[p - 1] \in Nat
      BY <1>0, <1>1
    <2>3. QED
      BY <1>1, <1>5, <1>8, <2>1, <2>2
  <1>10. k[q] = h[q]
    <2>1. q + 1 \in q + 1 .. p - 1 /\ q + 1 \in 0 .. W + 1
      BY <1>0
    <2>2. k[q + 1] + 2 = h[q + 1] /\ k[q + 1] \in Nat
      BY <1>1, <1>9, <2>1
    <2>3. QED
      BY <1>3, <2>2
  <1>11. \A r \in 0 .. q : k[r] = h[r]
    <2>1. \A r \in 0 .. q : r \in 0 .. W + 1
      BY <1>0
    <2>2. q \in 0 .. W + 1
      BY <1>0
    <2>3. QED
      BY <1>1, <1>6, <1>10, <2>1, <2>2
  <1>12. QED
    BY <1>3, <1>7, <1>8, <1>9, <1>11 DEF h, k

\* How it changes when two R meet, and the L of the first becomes an R.
LEMMA LineRight ==
  ASSUME NEW m \in Words(W), NEW t \in Words(W), NEW p \in 1 .. W - 1, NEW q, RightCase(m, t, p, q)
  PROVE  /\ Line(m)[p + 1] = Line(m)[p] + 1 /\ Line(m)[p] = Line(m)[p - 1] + 1 /\ Line(t)[p] + 1 = Line(m)[p]
         /\ \A r \in 0 .. W + 1 : r > q \/ r < p => Line(t)[r] = Line(m)[r]
         /\ \A r \in p + 1 .. q : Line(t)[r] + 2 = Line(m)[r]
  <1> DEFINE h == Line(m)
             k == Line(t)
  <1>0. W \in Nat /\ p \in Int /\ q \in Int /\ p + 1 <= q /\ q <= W - 1 /\ 1 <= p
        /\ p \in 0 .. W - 1 /\ p - 1 \in 0 .. W - 1 /\ q \in 0 .. W - 1 /\ (p - 1) + 1 = p
    BY WAssumption DEF RightCase
  <1>1. /\ h[W] = 1 /\ k[W] = 1 /\ h[W + 1] = 0 /\ k[W + 1] = 0
        /\ \A r \in 0 .. W + 1 : h[r] \in Nat /\ k[r] \in Nat
        /\ \A r \in 0 .. W - 1 : h[r] = h[r + 1] + Val(m[r]) /\ k[r] = k[r + 1] + Val(t[r])
    BY LineOf
  <1>2. Val("N") = 0 /\ Val("L") = 1 /\ Val("R") = -1
    BY DEF Val
  <1>3. /\ h[p + 1] = h[p] + 1 /\ h[p] = h[p - 1] + 1 /\ h[q] = h[q + 1] + 1
        /\ k[p] = k[p + 1] /\ k[p - 1] = k[p] /\ k[q] = k[q + 1] - 1
    <2>1. /\ m[p] = "R" /\ m[p - 1] = "R" /\ m[q] = "L" /\ t[p] = "N" /\ t[p - 1] = "N" /\ t[q] = "R"
      BY DEF RightCase
    <2>2. h[p - 1] = h[(p - 1) + 1] + (-1) /\ k[p - 1] = k[(p - 1) + 1] + 0
      BY <1>0, <1>1, <1>2, <2>1
    <2>3. /\ h[p] = h[p + 1] + (-1) /\ h[q] = h[q + 1] + 1 /\ k[p] = k[p + 1] + 0 /\ k[q] = k[q + 1] + (-1)
      BY <1>0, <1>1, <1>2, <2>1
    <2>4. p + 1 \in 0 .. W + 1 /\ p \in 0 .. W + 1 /\ q + 1 \in 0 .. W + 1
      BY <1>0
    <2>5. h[p + 1] \in Nat /\ h[p] \in Nat /\ k[p + 1] \in Nat /\ k[p] \in Nat /\ k[q + 1] \in Nat
      BY <1>1, <2>4
    <2> HIDE DEF h, k
    <2>6. QED
      BY <1>0, <2>2, <2>3, <2>5
  <1>4. \A r \in q + 1 .. W : k[r] - k[W] = h[r] - h[W]
    <2>1. \A i \in q + 1 .. W - 1 : m[i] = t[i]
      BY <1>0 DEF RightCase
    <2>2. q + 1 \in 0 .. W /\ W \in 0 .. W /\ q + 1 <= W
      BY <1>0
    <2>3. QED
      BY <2>1, <2>2, LineShift
  <1>5. \A r \in p + 1 .. q : k[r] - k[q] = h[r] - h[q]
    <2>1. \A i \in p + 1 .. q - 1 : m[i] = t[i]
      BY <1>0 DEF RightCase
    <2>2. p + 1 \in 0 .. W /\ q \in 0 .. W /\ p + 1 <= q
      BY <1>0
    <2>3. QED
      BY <2>1, <2>2, LineShift
  <1>6. \A r \in 0 .. p - 1 : k[r] - k[p - 1] = h[r] - h[p - 1]
    <2>1. \A i \in 0 .. (p - 1) - 1 : m[i] = t[i]
      BY <1>0 DEF RightCase
    <2>2. 0 \in 0 .. W /\ p - 1 \in 0 .. W /\ 0 <= p - 1
      BY <1>0
    <2>3. QED
      BY <2>1, <2>2, LineShift
  <1> HIDE DEF h, k
  <1>7. \A r \in 0 .. W + 1 : r > q => k[r] = h[r]
    <2>1. \A r \in q + 1 .. W : k[r] = h[r]
      BY <1>0, <1>1, <1>4
    <2>2. QED
      BY <1>0, <1>1, <2>1
  <1>8. k[q] + 2 = h[q]
    <2>1. q + 1 \in 0 .. W + 1
      BY <1>0
    <2>2. k[q + 1] = h[q + 1] /\ h[q + 1] \in Nat
      BY <1>0, <1>1, <1>7, <2>1
    <2>3. QED
      BY <1>3, <2>2
  <1>9. \A r \in p + 1 .. q : k[r] + 2 = h[r]
    <2>1. \A r \in p + 1 .. q : r \in 0 .. W + 1
      BY <1>0
    <2>2. k[q] \in Nat /\ h[q] \in Nat
      BY <1>0, <1>1
    <2>3. QED
      BY <1>1, <1>5, <1>8, <2>1, <2>2
  <1>10. k[p] + 1 = h[p] /\ k[p - 1] = h[p - 1]
    <2>1. p + 1 \in p + 1 .. q /\ p + 1 \in 0 .. W + 1 /\ p \in 0 .. W + 1 /\ p - 1 \in 0 .. W + 1
      BY <1>0
    <2>2. k[p + 1] + 2 = h[p + 1] /\ k[p + 1] \in Nat /\ h[p] \in Nat /\ h[p - 1] \in Nat
      BY <1>1, <1>9, <2>1
    <2>3. QED
      BY <1>3, <2>2
  <1>11. \A r \in 0 .. W + 1 : r < p => k[r] = h[r]
    <2>1. \A r \in 0 .. W + 1 : r < p => r \in 0 .. p - 1
      BY <1>0
    <2>2. p - 1 \in 0 .. W + 1
      BY <1>0
    <2>3. QED
      BY <1>1, <1>6, <1>10, <2>1, <2>2
  <1>12. QED
    BY <1>3, <1>7, <1>9, <1>10, <1>11 DEF h, k

-----------------------------------------------------------------------------
\* No edge has met the vertex at place q of the front, and it is at no other place.
Fresh(S, f, q) == ~Met(S, f[q]) /\ \A r \in 0 .. W : r # q => f[r] # f[q]

\* What the pairs of a word are.
LEMMA PairsAre ==
  ASSUME NEW m \in Words(W)
  PROVE  /\ Pairing(Open(m), Pairs(m)) /\ Pairs(m) \subseteq Open(m) \X Open(m) /\ Open(m) \subseteq 0 .. W
         /\ \A x, y \in 0 .. W : <<x, y>> \in Pairs(m) <=> Arc(Line(m), x, y) \/ Arc(Line(m), y, x)
         /\ \A e \in Pairs(m) : /\ e[1] \in 0 .. W /\ e[2] \in 0 .. W /\ e = <<e[1], e[2]>>
                                /\ Arc(Line(m), e[1], e[2]) \/ Arc(Line(m), e[2], e[1])
  <1>1. W + 1 \in Nat /\ (W + 1) - 1 = W /\ Profile(Line(m), W + 1)
    BY LineOf
  <1>2. Pairing(Open(m), Pairs(m))
    BY <1>1, MatesPair DEF Open, Pairs
  <1>3. Pairs(m) \subseteq Open(m) \X Open(m)
    BY <1>2 DEF Pairing
  <1>4. Open(m) \subseteq 0 .. W
    BY <1>1 DEF Open, PathEnds
  <1>5. \A x, y \in 0 .. W : <<x, y>> \in Pairs(m) <=> Arc(Line(m), x, y) \/ Arc(Line(m), y, x)
    BY <1>1 DEF Pairs, Mates
  <1>6. \A e \in Pairs(m) : /\ e[1] \in 0 .. W /\ e[2] \in 0 .. W /\ e = <<e[1], e[2]>>
                            /\ Arc(Line(m), e[1], e[2]) \/ Arc(Line(m), e[2], e[1])
    BY <1>1 DEF Pairs, Mates
  <1>7. QED
    BY <1>2, <1>3, <1>4, <1>5, <1>6

\* A new pair: the edge starts a path of its own.
LEMMA LinkNew ==
  ASSUME NEW m \in Words(W), NEW p \in 1 .. W - 1, NEW t \in Words(W), PairCase(m, t, p),
         m[p] = "N", m[p - 1] = "N", NEW S, NEW f,
         Linked(S, f, Open(m), Pairs(m)), NEW i, Ends(i) = {f[p], f[p - 1]}, Fresh(S, f, p), Fresh(S, f, p - 1)
  PROVE  Linked(S \cup {i}, f, Open(t), Pairs(t))
  <1> DEFINE O == Open(m)
             K == Pairs(m)
             g == [q \in 0 .. W |-> IF q = p - 1 THEN f[p] ELSE f[q]]
             P == O \cup {p, p - 1}
             L == K \cup {<<p, p - 1>>, <<p - 1, p>>}
  <1>0. W \in Nat /\ p \in 0 .. W - 1 /\ p - 1 \in 0 .. W - 1 /\ p \in 0 .. W /\ p - 1 \in 0 .. W /\ p # p - 1 /\ p # W /\ p - 1 # W
        /\ (W + 1) - 1 = W /\ (p - 1) + 1 = p /\ p \in 1 .. (W + 1) - 1
    BY WAssumption
  <1>1. t[p] = "L" /\ t[p - 1] = "R" /\ \A r \in 0 .. W - 1 : r # p /\ r # p - 1 => t[r] = m[r]
    BY DEF PairCase
  <1>2. O \subseteq 0 .. W /\ p \notin O /\ p - 1 \notin O /\ K \subseteq O \X O
    BY <1>0, LineOf, PairsAre
  <1>3. Open(t) = P
    BY <1>0, <1>1, LineOf
  <1>4. f[p] # f[p - 1] /\ g[p - 1] = f[p] /\ g[p] = f[p] /\ \A q \in 0 .. W : q # p - 1 => g[q] = f[q]
    BY <1>0 DEF Fresh
  <1>5. Linked(S, g, P, L)
    <2>1. ~Met(S, f[p]) /\ \A q \in O : f[q] # f[p] /\ g[q] = f[q]
      BY <1>0, <1>2, <1>4 DEF Fresh
    <2>2. P = O \cup {p, p - 1}
      OBVIOUS
    <2>3. \A e \in L : e \in K \/ e = <<p, p - 1>> \/ e = <<p - 1, p>>
      OBVIOUS
    <2> DEFINE z == f[p]
               u == p - 1
    <2>4. Linked(S, f, O, K) /\ K \subseteq O \X O /\ p \notin O /\ u \notin O
      BY <1>2
    <2>5. ~Met(S, z) /\ \A q \in O : f[q] # z /\ g[q] = f[q]
      BY <2>1
    <2>6. g[p] = z /\ g[u] = z /\ P = O \cup {p, u} /\ \A e \in L : e \in K \/ e = <<p, u>> \/ e = <<u, p>>
      BY <1>4, <2>3
    <2> HIDE DEF O, K, g, P, L, z, u
    <2>7. Spawning(S, f, O, K, g, P, L, p, u, z)
      BY <2>4, <2>5, <2>6 DEF Spawning
    <2>8. QED
      BY <2>7, LinkedSpawn
  <1>6. ASSUME NEW x \in 0 .. W, NEW y \in 0 .. W, Arc(Line(t), x, y) PROVE (x = p /\ y = p - 1) \/ Arc(Line(m), x, y)
    <2> DEFINE h == Line(m)
               k == Line(t)
    <2>1. Elsewhere(h, k, W + 1, p) /\ k[p] = h[p + 1] + Val(t[p])
      <3>1. Val(t[p]) + Val(t[p - 1]) = Val(m[p]) + Val(m[p - 1])
        BY <1>1 DEF Val
      <3>2. QED
        BY <1>1, <3>1, LinePair
    <2>2. h[p] = h[p + 1] + Val(m[p]) /\ h[p - 1] = h[(p - 1) + 1] + Val(m[p - 1]) /\ h[p + 1] \in Nat /\ h[p] \in Nat
      <3>1. p + 1 \in 0 .. W + 1 /\ p \in 0 .. W + 1
        BY <1>0
      <3>2. QED
        BY <1>0, <3>1, LineOf
    <2>3. h[p + 1] = h[p] /\ h[p - 1] = h[p] /\ k[p] = h[p] + 1
      BY <1>0, <1>1, <2>1, <2>2 DEF Val
    <2>4. Profile(h, W + 1) /\ Profile(k, W + 1) /\ W + 1 \in Nat
      BY LineOf
    <2>5. x \in 0 .. (W + 1) - 1 /\ y \in 0 .. (W + 1) - 1 /\ Arc(k, x, y)
      BY <1>0, <1>6
    <2> HIDE DEF h, k
    <2>6. (x = p /\ y = p - 1) \/ Arc(h, x, y)
      BY <1>0, <2>1, <2>3, <2>4, <2>5, ArcsNew
    <2>7. QED
      BY <2>6 DEF h
  <1>7. Pairs(t) \subseteq L
    <2> SUFFICES ASSUME NEW e \in Pairs(t) PROVE e \in L
      OBVIOUS
    <2>1. /\ e[1] \in 0 .. W /\ e[2] \in 0 .. W /\ e = <<e[1], e[2]>>
          /\ Arc(Line(t), e[1], e[2]) \/ Arc(Line(t), e[2], e[1])
      BY PairsAre
    <2>2. <<e[1], e[2]>> \in K <=> Arc(Line(m), e[1], e[2]) \/ Arc(Line(m), e[2], e[1])
      BY <2>1, PairsAre
    <2>3. QED
      BY <1>6, <2>1, <2>2
  <1>8. Linked(S \cup {i}, f, P, Pairs(t))
    <2>1. ~Met(S, f[p - 1]) /\ Ends(i) = {g[p - 1], f[p - 1]} /\ p - 1 \in P /\ P = (P \ {p - 1}) \cup {p - 1}
      BY <1>4 DEF Fresh
    <2>2. \A q \in P : g[q] # f[p - 1] /\ (q # p - 1 => f[q] = g[q])
      <3>1. \A q \in O : f[q] # f[p - 1] /\ g[q] = f[q]
        BY <1>0, <1>2, <1>4 DEF Fresh
      <3>2. QED
        BY <1>4, <3>1
    <2>3. Pairs(t) \subseteq P \X P
      BY <1>3, PairsAre
    <2>4. L \subseteq P \X P
      BY <1>2
    <2>5. \A e \in Pairs(t) : <<IF e[1] = p - 1 THEN p - 1 ELSE e[1], IF e[2] = p - 1 THEN p - 1 ELSE e[2]>> \in L
      <3>1. \A e \in Pairs(t) : e = <<e[1], e[2]>>
        BY <2>3
      <3>2. QED
        BY <1>7, <3>1
    <2> DEFINE z == f[p - 1]
               u == p - 1
               M == Pairs(t)
    <2>6. ~Met(S, z) /\ Ends(i) = {g[u], z} /\ u \in P /\ P = (P \ {u}) \cup {u} /\ f[u] = z
      BY <2>1
    <2>7. (\A q \in P : g[q] # z) /\ (\A q \in P : q # u => f[q] = g[q])
      BY <2>2
    <2>8. M \subseteq P \X P /\ L \subseteq P \X P
          /\ \A e \in M : <<IF e[1] = u THEN u ELSE e[1], IF e[2] = u THEN u ELSE e[2]>> \in L
      BY <2>3, <2>4, <2>5
    <2>9. (u = u \/ u \notin P) /\ Linked(S, g, P, L)
      BY <1>5
    <2> HIDE DEF O, K, g, P, L, z, u, M
    <2>10. Growing(S, g, P, L, f, P, M, u, u, z, i)
      BY <2>6, <2>7, <2>8, <2>9 DEF Growing
    <2>11. Linked(S \cup {i}, f, P, M)
      BY <2>10, LinkedGrow
    <2>12. QED
      BY <2>11 DEF M
  <1>9. QED
    BY <1>3, <1>8

\* The end at p goes on along the edge.
LEMMA LinkDown ==
  ASSUME NEW m \in Words(W), NEW p \in 1 .. W - 1, NEW t \in Words(W), PairCase(m, t, p),
         m[p] # "N", m[p - 1] = "N", NEW S, NEW f,
         Linked(S, f, Open(m), Pairs(m)), NEW i, Ends(i) = {f[p], f[p - 1]}, Fresh(S, f, p - 1)
  PROVE  Linked(S \cup {i}, f, Open(t), Pairs(t))
  <1> DEFINE O == Open(m)
             K == Pairs(m)
             M == Pairs(t)
             P == (O \ {p}) \cup {p - 1}
             Was(r) == IF r = p - 1 THEN p ELSE r
  <1>0. W \in Nat /\ p \in 0 .. W - 1 /\ p - 1 \in 0 .. W - 1 /\ p \in 0 .. W /\ p - 1 \in 0 .. W /\ p # p - 1 /\ p # W /\ p - 1 # W
        /\ (W + 1) - 1 = W /\ (p - 1) + 1 = p /\ p \in 1 .. (W + 1) - 1
    BY WAssumption
  <1>1. t[p] = "N" /\ t[p - 1] = m[p] /\ \A r \in 0 .. W - 1 : r # p /\ r # p - 1 => t[r] = m[r]
    BY DEF PairCase
  <1>2. O \subseteq 0 .. W /\ p \in O /\ p - 1 \notin O /\ K \subseteq O \X O
    BY <1>0, LineOf, PairsAre
  <1>3. Open(t) = P
    <2>1. O = {r \in 0 .. W - 1 : m[r] # "N"} \cup {W} /\ Open(t) = {r \in 0 .. W - 1 : t[r] # "N"} \cup {W}
      BY LineOf
    <2> HIDE DEF O
    <2>2. ASSUME NEW r \in 0 .. W - 1 PROVE t[r] # "N" <=> r \in P
      <3>1. r \in O <=> m[r] # "N"
        BY <1>0, <2>1
      <3>2. QED
        BY <1>0, <1>1, <3>1
    <2>3. W \in P /\ P \subseteq (0 .. W - 1) \cup {W}
      BY <1>0, <1>1, <2>1
    <2>4. QED
      BY <2>1, <2>2, <2>3
  <1>6. ASSUME NEW x \in 0 .. W, NEW y \in 0 .. W, Arc(Line(t), x, y) PROVE Arc(Line(m), Was(x), Was(y))
    <2> DEFINE h == Line(m)
               k == Line(t)
    <2>1. Elsewhere(h, k, W + 1, p) /\ k[p] = h[p + 1] + Val(t[p])
      <3>1. Val(t[p]) + Val(t[p - 1]) = Val(m[p]) + Val(m[p - 1])
        <4>1. Val("N") = 0 /\ Val(m[p]) \in Int /\ Val(m[p - 1]) \in Int
          BY DEF Val
        <4>2. QED
          BY <1>1, <4>1
      <3>2. QED
        BY <1>1, <3>1, LinePair
    <2>2. h[p] = h[p + 1] + Val(m[p]) /\ h[p - 1] = h[(p - 1) + 1] + Val(m[p - 1]) /\ h[p + 1] \in Nat /\ h[p] \in Nat
      <3>1. p + 1 \in 0 .. W + 1 /\ p \in 0 .. W + 1
        BY <1>0
      <3>2. QED
        BY <1>0, <3>1, LineOf
    <2>3. h[p - 1] = h[p] /\ k[p] = h[p + 1]
      BY <1>0, <1>1, <2>1, <2>2 DEF Val
    <2>4. Profile(h, W + 1) /\ Profile(k, W + 1) /\ W + 1 \in Nat
      BY LineOf
    <2>5. x \in 0 .. (W + 1) - 1 /\ y \in 0 .. (W + 1) - 1 /\ Arc(k, x, y)
      BY <1>0, <1>6
    <2> HIDE DEF h, k
    <2>6. Arc(h, IF x = p - 1 THEN p ELSE x, IF y = p - 1 THEN p ELSE y)
      BY <1>0, <2>1, <2>3, <2>4, <2>5, ArcsDown
    <2>7. QED
      BY <2>6 DEF h
  <1>7. \A e \in M : <<Was(e[1]), Was(e[2])>> \in K
    <2> SUFFICES ASSUME NEW e \in M PROVE <<Was(e[1]), Was(e[2])>> \in K
      OBVIOUS
    <2>1. /\ e[1] \in 0 .. W /\ e[2] \in 0 .. W
          /\ Arc(Line(t), e[1], e[2]) \/ Arc(Line(t), e[2], e[1])
      BY PairsAre
    <2>2. Was(e[1]) \in 0 .. W /\ Was(e[2]) \in 0 .. W
      BY <1>0, <2>1
    <2>3. Arc(Line(m), Was(e[1]), Was(e[2])) \/ Arc(Line(m), Was(e[2]), Was(e[1]))
      BY <1>6, <2>1
    <2> HIDE DEF Was
    <2>4. QED
      BY <2>2, <2>3, PairsAre
  <1>8. Linked(S \cup {i}, f, P, M)
    <2> DEFINE z == f[p - 1]
               u == p
               v == p - 1
    <2>1. ~Met(S, z) /\ Ends(i) = {f[u], z} /\ u \in O /\ v \notin O /\ P = (O \ {u}) \cup {v} /\ f[v] = z
      BY <1>2 DEF Fresh
    <2>2. \A q \in O : f[q] # z
      BY <1>2 DEF Fresh
    <2>3. Linked(S, f, O, K) /\ K \subseteq O \X O /\ M \subseteq P \X P
      BY <1>2, <1>3, PairsAre
    <2>4. \A e \in M : <<IF e[1] = v THEN u ELSE e[1], IF e[2] = v THEN u ELSE e[2]>> \in K
      BY <1>7
    <2> HIDE DEF O, K, P, M, z, u, v
    <2>5. Growing(S, f, O, K, f, P, M, u, v, z, i)
      BY <2>1, <2>2, <2>3, <2>4 DEF Growing
    <2>6. QED
      BY <2>5, LinkedGrow
  <1>9. QED
    BY <1>3, <1>8

\* The end at p - 1 goes back along the edge.
LEMMA LinkUp ==
  ASSUME NEW m \in Words(W), NEW p \in 1 .. W - 1, NEW t \in Words(W), PairCase(m, t, p),
         m[p] = "N", m[p - 1] # "N", NEW S, NEW f,
         Linked(S, f, Open(m), Pairs(m)), NEW i, Ends(i) = {f[p], f[p - 1]}, Fresh(S, f, p)
  PROVE  Linked(S \cup {i}, f, Open(t), Pairs(t))
  <1> DEFINE O == Open(m)
             K == Pairs(m)
             M == Pairs(t)
             P == (O \ {p - 1}) \cup {p}
             Was(r) == IF r = p THEN p - 1 ELSE r
  <1>0. W \in Nat /\ p \in 0 .. W - 1 /\ p - 1 \in 0 .. W - 1 /\ p \in 0 .. W /\ p - 1 \in 0 .. W /\ p # p - 1 /\ p # W /\ p - 1 # W
        /\ (W + 1) - 1 = W /\ (p - 1) + 1 = p /\ p \in 1 .. (W + 1) - 1
    BY WAssumption
  <1>1. t[p] = m[p - 1] /\ t[p - 1] = "N" /\ \A r \in 0 .. W - 1 : r # p /\ r # p - 1 => t[r] = m[r]
    BY DEF PairCase
  <1>2. O \subseteq 0 .. W /\ p - 1 \in O /\ p \notin O /\ K \subseteq O \X O
    BY <1>0, LineOf, PairsAre
  <1>3. Open(t) = P
    <2>1. O = {r \in 0 .. W - 1 : m[r] # "N"} \cup {W} /\ Open(t) = {r \in 0 .. W - 1 : t[r] # "N"} \cup {W}
      BY LineOf
    <2> HIDE DEF O
    <2>2. ASSUME NEW r \in 0 .. W - 1 PROVE t[r] # "N" <=> r \in P
      <3>1. r \in O <=> m[r] # "N"
        BY <1>0, <2>1
      <3>2. QED
        BY <1>0, <1>1, <3>1
    <2>3. W \in P /\ P \subseteq (0 .. W - 1) \cup {W}
      BY <1>0, <1>1, <2>1
    <2>4. QED
      BY <2>1, <2>2, <2>3
  <1>6. ASSUME NEW x \in 0 .. W, NEW y \in 0 .. W, Arc(Line(t), x, y) PROVE Arc(Line(m), Was(x), Was(y))
    <2> DEFINE h == Line(m)
               k == Line(t)
    <2>1. Elsewhere(h, k, W + 1, p) /\ k[p] = h[p + 1] + Val(t[p])
      <3>1. Val(t[p]) + Val(t[p - 1]) = Val(m[p]) + Val(m[p - 1])
        <4>1. Val("N") = 0 /\ Val(m[p]) \in Int /\ Val(m[p - 1]) \in Int
          BY DEF Val
        <4>2. QED
          BY <1>1, <4>1
      <3>2. QED
        BY <1>1, <3>1, LinePair
    <2>2. h[p] = h[p + 1] + Val(m[p]) /\ h[p - 1] = h[(p - 1) + 1] + Val(m[p - 1]) /\ h[p + 1] \in Nat /\ h[p] \in Nat
      <3>1. p + 1 \in 0 .. W + 1 /\ p \in 0 .. W + 1
        BY <1>0
      <3>2. QED
        BY <1>0, <3>1, LineOf
    <2>3. h[p + 1] = h[p] /\ k[p] = h[p - 1]
      BY <1>0, <1>1, <2>1, <2>2 DEF Val
    <2>4. Profile(h, W + 1) /\ Profile(k, W + 1) /\ W + 1 \in Nat
      BY LineOf
    <2>5. x \in 0 .. (W + 1) - 1 /\ y \in 0 .. (W + 1) - 1 /\ Arc(k, x, y)
      BY <1>0, <1>6
    <2> HIDE DEF h, k
    <2>6. Arc(h, IF x = p THEN p - 1 ELSE x, IF y = p THEN p - 1 ELSE y)
      BY <1>0, <2>1, <2>3, <2>4, <2>5, ArcsUp
    <2>7. QED
      BY <2>6 DEF h
  <1>7. \A e \in M : <<Was(e[1]), Was(e[2])>> \in K
    <2> SUFFICES ASSUME NEW e \in M PROVE <<Was(e[1]), Was(e[2])>> \in K
      OBVIOUS
    <2>1. /\ e[1] \in 0 .. W /\ e[2] \in 0 .. W
          /\ Arc(Line(t), e[1], e[2]) \/ Arc(Line(t), e[2], e[1])
      BY PairsAre
    <2>2. Was(e[1]) \in 0 .. W /\ Was(e[2]) \in 0 .. W
      BY <1>0, <2>1
    <2>3. Arc(Line(m), Was(e[1]), Was(e[2])) \/ Arc(Line(m), Was(e[2]), Was(e[1]))
      BY <1>6, <2>1
    <2> HIDE DEF Was
    <2>4. QED
      BY <2>2, <2>3, PairsAre
  <1>8. Linked(S \cup {i}, f, P, M)
    <2> DEFINE z == f[p]
               u == p - 1
               v == p
    <2>1. ~Met(S, z) /\ Ends(i) = {f[u], z} /\ u \in O /\ v \notin O /\ P = (O \ {u}) \cup {v} /\ f[v] = z
      BY <1>2 DEF Fresh
    <2>2. \A q \in O : f[q] # z
      BY <1>2 DEF Fresh
    <2>3. Linked(S, f, O, K) /\ K \subseteq O \X O /\ M \subseteq P \X P
      BY <1>2, <1>3, PairsAre
    <2>4. \A e \in M : <<IF e[1] = v THEN u ELSE e[1], IF e[2] = v THEN u ELSE e[2]>> \in K
      BY <1>7
    <2> HIDE DEF O, K, P, M, z, u, v
    <2>5. Growing(S, f, O, K, f, P, M, u, v, z, i)
      BY <2>1, <2>2, <2>3, <2>4 DEF Growing
    <2>6. QED
      BY <2>5, LinkedGrow
  <1>9. QED
    BY <1>3, <1>8

\* Two ends that face each other meet.
LEMMA LinkMeet ==
  ASSUME NEW m \in Words(W), NEW p \in 1 .. W - 1, NEW t \in Words(W), PairCase(m, t, p), m[p] = "R", m[p - 1] = "L",
         NEW S, NEW f,
         Linked(S, f, Open(m), Pairs(m)), NEW i, Ends(i) = {f[p], f[p - 1]}
  PROVE  Linked(S \cup {i}, f, Open(t), Pairs(t))
  <1> DEFINE O == Open(m)
             K == Pairs(m)
             M == Pairs(t)
             P == O \ {p, p - 1}
             h == Line(m)
             k == Line(t)
  <1>0. W \in Nat /\ p \in 0 .. W - 1 /\ p - 1 \in 0 .. W - 1 /\ p \in 0 .. W /\ p - 1 \in 0 .. W /\ p # p - 1 /\ p # W /\ p - 1 # W
        /\ (W + 1) - 1 = W /\ (p - 1) + 1 = p /\ p \in 1 .. (W + 1) - 1 /\ p + 1 \in 0 .. W + 1 /\ p \in 0 .. W + 1
        /\ p \in Int
    BY WAssumption
  <1>1. /\ m[p] = "R" /\ m[p - 1] = "L" /\ t[p] = "N" /\ t[p - 1] = "N"
        /\ \A r \in 0 .. W - 1 : r # p /\ r # p - 1 => t[r] = m[r]
    BY DEF PairCase
  <1>2. O \subseteq 0 .. W /\ p \in O /\ p - 1 \in O
    BY <1>0, <1>1, LineOf, PairsAre
  <1>3. Open(t) = P
    <2>1. O = {r \in 0 .. W - 1 : m[r] # "N"} \cup {W} /\ Open(t) = {r \in 0 .. W - 1 : t[r] # "N"} \cup {W}
      BY LineOf
    <2> HIDE DEF O
    <2>2. ASSUME NEW r \in 0 .. W - 1 PROVE t[r] # "N" <=> r \in P
      <3>1. r \in O <=> m[r] # "N"
        BY <1>0, <2>1
      <3>2. QED
        BY <1>0, <1>1, <3>1
    <2>3. W \in P /\ P \subseteq (0 .. W - 1) \cup {W}
      BY <1>0, <1>1, <2>1
    <2>4. QED
      BY <2>1, <2>2, <2>3
  <1>4. Profile(h, W + 1) /\ Profile(k, W + 1) /\ W + 1 \in Nat /\ \A r \in 0 .. W + 1 : h[r] \in Nat
    BY LineOf
  <1>5. Elsewhere(h, k, W + 1, p) /\ h[p + 1] = h[p] + 1 /\ h[p - 1] = h[p] + 1 /\ k[p] = h[p] + 1
    <2>1. Val(t[p]) + Val(t[p - 1]) = Val(m[p]) + Val(m[p - 1])
      BY <1>1 DEF Val
    <2>2. Elsewhere(h, k, W + 1, p) /\ k[p] = h[p + 1] + Val(t[p])
      BY <1>1, <2>1, LinePair
    <2>3. h[p] = h[p + 1] + Val(m[p]) /\ h[p - 1] = h[(p - 1) + 1] + Val(m[p - 1]) /\ h[p + 1] \in Nat /\ h[p] \in Nat
      BY <1>0, LineOf
    <2>4. QED
      BY <1>0, <1>1, <2>2, <2>3 DEF Val
  <1>6. ASSUME NEW x \in 0 .. W, NEW y \in 0 .. W, Arc(k, x, y)
        PROVE  Arc(h, x, y) \/ (Arc(h, x, p) /\ Arc(h, p - 1, y))
    <2>1. x \in 0 .. (W + 1) - 1 /\ y \in 0 .. (W + 1) - 1 /\ Arc(k, x, y)
      BY <1>0, <1>6
    <2> HIDE DEF h, k
    <2>2. QED
      BY <1>0, <1>4, <1>5, <2>1, ArcsMeet
  <1>7. ASSUME NEW x \in 0 .. W, NEW y \in 0 .. W, Arc(k, x, y)
        PROVE  \/ <<x, y>> \in K /\ <<y, x>> \in K
               \/ <<x, p>> \in K /\ <<p - 1, y>> \in K /\ <<p, x>> \in K /\ <<y, p - 1>> \in K
               \/ <<x, p - 1>> \in K /\ <<p, y>> \in K /\ <<p - 1, x>> \in K /\ <<y, p>> \in K
    BY <1>0, <1>1, <1>5, <1>6, <1>7, PairsAre
  <1>8. <<p, p - 1>> \notin K
    <2>1. ~Arc(h, p, p - 1) /\ ~Arc(h, p - 1, p)
      <3>1. Arc(h, p, p - 1) => h[p - 1] = h[p + 1] /\ h[p] > h[p - 1]
        BY <1>0 DEF Arc
      <3>2. ~Arc(h, p - 1, p)
        BY <1>0 DEF Arc
      <3>3. p - 1 \in 0 .. W + 1
        BY <1>0
      <3> HIDE DEF h, k
      <3>4. QED
        BY <1>0, <1>4, <1>5, <3>1, <3>2, <3>3
    <2> HIDE DEF h, k
    <2>2. QED
      BY <1>0, <2>1, PairsAre DEF h
  <1>9. \A e \in M : \/ e \in K \/ (<<e[1], p>> \in K /\ <<p - 1, e[2]>> \in K)
                     \/ (<<e[1], p - 1>> \in K /\ <<p, e[2]>> \in K)
    <2> SUFFICES ASSUME NEW e \in M
                 PROVE  \/ e \in K \/ (<<e[1], p>> \in K /\ <<p - 1, e[2]>> \in K)
                        \/ (<<e[1], p - 1>> \in K /\ <<p, e[2]>> \in K)
      OBVIOUS
    <2>1. /\ e[1] \in 0 .. W /\ e[2] \in 0 .. W /\ e = <<e[1], e[2]>>
          /\ Arc(k, e[1], e[2]) \/ Arc(k, e[2], e[1])
      BY PairsAre
    <2> DEFINE x == e[1]
               y == e[2]
    <2> HIDE DEF k, K, x, y
    <2>2. CASE Arc(k, x, y)
      BY <1>7, <2>1, <2>2 DEF x, y
    <2>3. CASE Arc(k, y, x)
      BY <1>7, <2>1, <2>3 DEF x, y
    <2>4. QED
      BY <2>1, <2>2, <2>3 DEF x, y
  <1>10. Linked(S \cup {i}, f, P, M)
    <2> DEFINE u == p - 1
    <2>1. Linked(S, f, O, K) /\ Pairing(O, K) /\ p \in O /\ u \in O /\ <<p, u>> \notin K
          /\ Ends(i) = {f[p], f[u]} /\ P = O \ {p, u} /\ (\A r \in P : f[r] = f[r]) /\ M \subseteq P \X P
      BY <1>2, <1>3, <1>8, PairsAre
    <2>2. \A e \in M : \/ e \in K \/ (<<e[1], p>> \in K /\ <<u, e[2]>> \in K)
                       \/ (<<e[1], u>> \in K /\ <<p, e[2]>> \in K)
      BY <1>9
    <2> HIDE DEF O, K, P, M, u, h, k
    <2>3. Joining(S, f, O, K, f, P, M, p, u, i)
      BY <2>1, <2>2 DEF Joining
    <2>4. QED
      BY <2>3, LinkedJoin
  <1>11. QED
    BY <1>3, <1>10

\* Two L meet.
LEMMA LinkLeft ==
  ASSUME NEW m \in Words(W), NEW p \in 1 .. W - 1, NEW t \in Words(W), NEW q, LeftCase(m, t, p, q),
         NEW S, NEW f,
         Linked(S, f, Open(m), Pairs(m)), NEW i, Ends(i) = {f[p], f[p - 1]}
  PROVE  Linked(S \cup {i}, f, Open(t), Pairs(t))
  <1> DEFINE O == Open(m)
             K == Pairs(m)
             M == Pairs(t)
             P == O \ {p, p - 1}
             h == Line(m)
             k == Line(t)
  <1>0. W \in Nat /\ p \in 0 .. W - 1 /\ p - 1 \in 0 .. W - 1 /\ p \in 0 .. W /\ p - 1 \in 0 .. W /\ p # p - 1 /\ p # W /\ p - 1 # W
        /\ (W + 1) - 1 = W /\ (p - 1) + 1 = p /\ p \in 1 .. (W + 1) - 1 /\ p + 1 \in 0 .. W + 1 /\ p \in 0 .. W + 1
        /\ p \in Int
    BY WAssumption
  <1>1. /\ m[p] = "L" /\ m[p - 1] = "L" /\ t[p] = "N" /\ t[p - 1] = "N" /\ m[q] = "R" /\ t[q] = "L"
        /\ q \in 0 .. W - 1 /\ q \in 0 .. W /\ q # p /\ q # p - 1 /\ Arc(h, p - 1, q) /\ q \in 0 .. (W + 1) - 1
        /\ \A r \in 0 .. W - 1 : r # p /\ r # p - 1 /\ r # q => t[r] = m[r]
    BY <1>0 DEF LeftCase
  <1>2. O \subseteq 0 .. W /\ p \in O /\ p - 1 \in O
    BY <1>0, <1>1, LineOf, PairsAre
  <1>3. Open(t) = P
    <2>1. O = {r \in 0 .. W - 1 : m[r] # "N"} \cup {W} /\ Open(t) = {r \in 0 .. W - 1 : t[r] # "N"} \cup {W}
      BY LineOf
    <2> HIDE DEF O
    <2>2. ASSUME NEW r \in 0 .. W - 1 PROVE t[r] # "N" <=> r \in P
      <3>1. r \in O <=> m[r] # "N"
        BY <1>0, <2>1
      <3>2. QED
        BY <1>0, <1>1, <3>1
    <2>3. W \in P /\ P \subseteq (0 .. W - 1) \cup {W}
      BY <1>0, <1>1, <2>1
    <2>4. QED
      BY <2>1, <2>2, <2>3
  <1>4. Profile(h, W + 1) /\ Profile(k, W + 1) /\ W + 1 \in Nat /\ \A r \in 0 .. W + 1 : h[r] \in Nat
    BY LineOf
  <1>5. /\ h[p] = h[p + 1] + 1 /\ h[p - 1] = h[p] + 1 /\ k[p] + 1 = h[p]
        /\ \A r \in 0 .. W + 1 : r > p \/ r <= q => k[r] = h[r]
        /\ \A r \in q + 1 .. p - 1 : k[r] + 2 = h[r]
    BY LineLeft
  <1>6. ASSUME NEW x \in 0 .. W, NEW y \in 0 .. W, Arc(k, x, y)
        PROVE  (Arc(h, x, y) /\ x # q) \/ (x = q /\ Arc(h, p, y))
    <2>1. x \in 0 .. (W + 1) - 1 /\ y \in 0 .. (W + 1) - 1 /\ Arc(k, x, y)
      BY <1>0, <1>6
    <2> HIDE DEF h, k
    <2>2. QED
      BY <1>0, <1>1, <1>4, <1>5, <2>1, ArcsLeft
  <1>7. ASSUME NEW x \in 0 .. W, NEW y \in 0 .. W, Arc(k, x, y)
        PROVE  \/ <<x, y>> \in K /\ <<y, x>> \in K
               \/ <<x, p>> \in K /\ <<p - 1, y>> \in K /\ <<p, x>> \in K /\ <<y, p - 1>> \in K
               \/ <<x, p - 1>> \in K /\ <<p, y>> \in K /\ <<p - 1, x>> \in K /\ <<y, p>> \in K
    BY <1>0, <1>1, <1>5, <1>6, <1>7, PairsAre
  <1>8. <<p, p - 1>> \notin K
    <2>1. ~Arc(h, p, p - 1) /\ ~Arc(h, p - 1, p)
      <3>1. Arc(h, p, p - 1) => h[p - 1] = h[p + 1] /\ h[p] > h[p - 1]
        BY <1>0 DEF Arc
      <3>2. ~Arc(h, p - 1, p)
        BY <1>0 DEF Arc
      <3>3. p - 1 \in 0 .. W + 1
        BY <1>0
      <3> HIDE DEF h, k
      <3>4. QED
        BY <1>0, <1>4, <1>5, <3>1, <3>2, <3>3
    <2> HIDE DEF h, k
    <2>2. QED
      BY <1>0, <2>1, PairsAre DEF h
  <1>9. \A e \in M : \/ e \in K \/ (<<e[1], p>> \in K /\ <<p - 1, e[2]>> \in K)
                     \/ (<<e[1], p - 1>> \in K /\ <<p, e[2]>> \in K)
    <2> SUFFICES ASSUME NEW e \in M
                 PROVE  \/ e \in K \/ (<<e[1], p>> \in K /\ <<p - 1, e[2]>> \in K)
                        \/ (<<e[1], p - 1>> \in K /\ <<p, e[2]>> \in K)
      OBVIOUS
    <2>1. /\ e[1] \in 0 .. W /\ e[2] \in 0 .. W /\ e = <<e[1], e[2]>>
          /\ Arc(k, e[1], e[2]) \/ Arc(k, e[2], e[1])
      BY PairsAre
    <2> DEFINE x == e[1]
               y == e[2]
    <2> HIDE DEF k, K, x, y
    <2>2. CASE Arc(k, x, y)
      BY <1>7, <2>1, <2>2 DEF x, y
    <2>3. CASE Arc(k, y, x)
      BY <1>7, <2>1, <2>3 DEF x, y
    <2>4. QED
      BY <2>1, <2>2, <2>3 DEF x, y
  <1>10. Linked(S \cup {i}, f, P, M)
    <2> DEFINE u == p - 1
    <2>1. Linked(S, f, O, K) /\ Pairing(O, K) /\ p \in O /\ u \in O /\ <<p, u>> \notin K
          /\ Ends(i) = {f[p], f[u]} /\ P = O \ {p, u} /\ (\A r \in P : f[r] = f[r]) /\ M \subseteq P \X P
      BY <1>2, <1>3, <1>8, PairsAre
    <2>2. \A e \in M : \/ e \in K \/ (<<e[1], p>> \in K /\ <<u, e[2]>> \in K)
                       \/ (<<e[1], u>> \in K /\ <<p, e[2]>> \in K)
      BY <1>9
    <2> HIDE DEF O, K, P, M, u, h, k
    <2>3. Joining(S, f, O, K, f, P, M, p, u, i)
      BY <2>1, <2>2 DEF Joining
    <2>4. QED
      BY <2>3, LinkedJoin
  <1>11. QED
    BY <1>3, <1>10

\* Two R meet.
LEMMA LinkRight ==
  ASSUME NEW m \in Words(W), NEW p \in 1 .. W - 1, NEW t \in Words(W), NEW q, RightCase(m, t, p, q),
         NEW S, NEW f,
         Linked(S, f, Open(m), Pairs(m)), NEW i, Ends(i) = {f[p], f[p - 1]}
  PROVE  Linked(S \cup {i}, f, Open(t), Pairs(t))
  <1> DEFINE O == Open(m)
             K == Pairs(m)
             M == Pairs(t)
             P == O \ {p, p - 1}
             h == Line(m)
             k == Line(t)
  <1>0. W \in Nat /\ p \in 0 .. W - 1 /\ p - 1 \in 0 .. W - 1 /\ p \in 0 .. W /\ p - 1 \in 0 .. W /\ p # p - 1 /\ p # W /\ p - 1 # W
        /\ (W + 1) - 1 = W /\ (p - 1) + 1 = p /\ p \in 1 .. (W + 1) - 1 /\ p + 1 \in 0 .. W + 1 /\ p \in 0 .. W + 1
        /\ p \in Int
    BY WAssumption
  <1>1. /\ m[p] = "R" /\ m[p - 1] = "R" /\ t[p] = "N" /\ t[p - 1] = "N" /\ m[q] = "L" /\ t[q] = "R"
        /\ q \in 0 .. W - 1 /\ q \in 0 .. W /\ q # p /\ q # p - 1 /\ Arc(h, q, p) /\ q \in 0 .. (W + 1) - 1
        /\ \A r \in 0 .. W - 1 : r # p /\ r # p - 1 /\ r # q => t[r] = m[r]
    BY <1>0 DEF RightCase
  <1>2. O \subseteq 0 .. W /\ p \in O /\ p - 1 \in O
    BY <1>0, <1>1, LineOf, PairsAre
  <1>3. Open(t) = P
    <2>1. O = {r \in 0 .. W - 1 : m[r] # "N"} \cup {W} /\ Open(t) = {r \in 0 .. W - 1 : t[r] # "N"} \cup {W}
      BY LineOf
    <2> HIDE DEF O
    <2>2. ASSUME NEW r \in 0 .. W - 1 PROVE t[r] # "N" <=> r \in P
      <3>1. r \in O <=> m[r] # "N"
        BY <1>0, <2>1
      <3>2. QED
        BY <1>0, <1>1, <3>1
    <2>3. W \in P /\ P \subseteq (0 .. W - 1) \cup {W}
      BY <1>0, <1>1, <2>1
    <2>4. QED
      BY <2>1, <2>2, <2>3
  <1>4. Profile(h, W + 1) /\ Profile(k, W + 1) /\ W + 1 \in Nat /\ \A r \in 0 .. W + 1 : h[r] \in Nat
    BY LineOf
  <1>5. /\ h[p + 1] = h[p] + 1 /\ h[p] = h[p - 1] + 1 /\ k[p] + 1 = h[p]
        /\ \A r \in 0 .. W + 1 : r > q \/ r < p => k[r] = h[r]
        /\ \A r \in p + 1 .. q : k[r] + 2 = h[r]
    BY LineRight
  <1>6. ASSUME NEW x \in 0 .. W, NEW y \in 0 .. W, Arc(k, x, y)
        PROVE  (Arc(h, x, y) /\ y # q) \/ (y = q /\ Arc(h, x, p - 1))
    <2>1. x \in 0 .. (W + 1) - 1 /\ y \in 0 .. (W + 1) - 1 /\ Arc(k, x, y)
      BY <1>0, <1>6
    <2> HIDE DEF h, k
    <2>2. QED
      BY <1>0, <1>1, <1>4, <1>5, <2>1, ArcsRight
  <1>7. ASSUME NEW x \in 0 .. W, NEW y \in 0 .. W, Arc(k, x, y)
        PROVE  \/ <<x, y>> \in K /\ <<y, x>> \in K
               \/ <<x, p>> \in K /\ <<p - 1, y>> \in K /\ <<p, x>> \in K /\ <<y, p - 1>> \in K
               \/ <<x, p - 1>> \in K /\ <<p, y>> \in K /\ <<p - 1, x>> \in K /\ <<y, p>> \in K
    BY <1>0, <1>1, <1>5, <1>6, <1>7, PairsAre
  <1>8. <<p, p - 1>> \notin K
    <2>1. ~Arc(h, p, p - 1) /\ ~Arc(h, p - 1, p)
      <3>1. Arc(h, p, p - 1) => h[p - 1] = h[p + 1] /\ h[p] > h[p - 1]
        BY <1>0 DEF Arc
      <3>2. ~Arc(h, p - 1, p)
        BY <1>0 DEF Arc
      <3>3. p - 1 \in 0 .. W + 1
        BY <1>0
      <3> HIDE DEF h, k
      <3>4. QED
        BY <1>0, <1>4, <1>5, <3>1, <3>2, <3>3
    <2> HIDE DEF h, k
    <2>2. QED
      BY <1>0, <2>1, PairsAre DEF h
  <1>9. \A e \in M : \/ e \in K \/ (<<e[1], p>> \in K /\ <<p - 1, e[2]>> \in K)
                     \/ (<<e[1], p - 1>> \in K /\ <<p, e[2]>> \in K)
    <2> SUFFICES ASSUME NEW e \in M
                 PROVE  \/ e \in K \/ (<<e[1], p>> \in K /\ <<p - 1, e[2]>> \in K)
                        \/ (<<e[1], p - 1>> \in K /\ <<p, e[2]>> \in K)
      OBVIOUS
    <2>1. /\ e[1] \in 0 .. W /\ e[2] \in 0 .. W /\ e = <<e[1], e[2]>>
          /\ Arc(k, e[1], e[2]) \/ Arc(k, e[2], e[1])
      BY PairsAre
    <2> DEFINE x == e[1]
               y == e[2]
    <2> HIDE DEF k, K, x, y
    <2>2. CASE Arc(k, x, y)
      BY <1>7, <2>1, <2>2 DEF x, y
    <2>3. CASE Arc(k, y, x)
      BY <1>7, <2>1, <2>3 DEF x, y
    <2>4. QED
      BY <2>1, <2>2, <2>3 DEF x, y
  <1>10. Linked(S \cup {i}, f, P, M)
    <2> DEFINE u == p - 1
    <2>1. Linked(S, f, O, K) /\ Pairing(O, K) /\ p \in O /\ u \in O /\ <<p, u>> \notin K
          /\ Ends(i) = {f[p], f[u]} /\ P = O \ {p, u} /\ (\A r \in P : f[r] = f[r]) /\ M \subseteq P \X P
      BY <1>2, <1>3, <1>8, PairsAre
    <2>2. \A e \in M : \/ e \in K \/ (<<e[1], p>> \in K /\ <<u, e[2]>> \in K)
                       \/ (<<e[1], u>> \in K /\ <<p, e[2]>> \in K)
      BY <1>9
    <2> HIDE DEF O, K, P, M, u, h, k
    <2>3. Joining(S, f, O, K, f, P, M, p, u, i)
      BY <2>1, <2>2 DEF Joining
    <2>4. QED
      BY <2>3, LinkedJoin
  <1>11. QED
    BY <1>3, <1>10

\* However an edge is included, the word after it says what is connected.
LEMMA IncludeLinked ==
  ASSUME NEW m \in Words(W), NEW p \in 1 .. W - 1, NEW t \in Including(m, p), NEW S, NEW f,
         Linked(S, f, Open(m), Pairs(m)), NEW i, Ends(i) = {f[p], f[p - 1]},
         m[p] = "N" => Fresh(S, f, p), m[p - 1] = "N" => Fresh(S, f, p - 1)
  PROVE  Linked(S \cup {i}, f, Open(t), Pairs(t))
  <1>1. t \in Words(W)
    BY IncludingCases
  <1>2. CASE PairCase(m, t, p)
    <2>1. CASE m[p] = "N" /\ m[p - 1] = "N"
      BY <1>1, <1>2, <2>1, LinkNew
    <2>2. CASE m[p] = "N" /\ m[p - 1] # "N"
      BY <1>1, <1>2, <2>2, LinkUp
    <2>3. CASE m[p] # "N" /\ m[p - 1] = "N"
      BY <1>1, <1>2, <2>3, LinkDown
    <2>4. CASE m[p] = "R" /\ m[p - 1] = "L"
      BY <1>1, <1>2, <2>4, LinkMeet
    <2>5. QED
      BY <1>2, <2>1, <2>2, <2>3, <2>4 DEF PairCase
  <1>3. ASSUME NEW q, LeftCase(m, t, p, q) PROVE Linked(S \cup {i}, f, Open(t), Pairs(t))
    BY <1>1, <1>3, LinkLeft
  <1>4. ASSUME NEW q, RightCase(m, t, p, q) PROVE Linked(S \cup {i}, f, Open(t), Pairs(t))
    BY <1>1, <1>4, LinkRight
  <1>5. QED
    BY <1>2, <1>3, <1>4, IncludingCases

\* An end that goes on straight to a vertex no edge has met.
LEMMA LinkedDrop ==
  ASSUME NEW m \in Words(W), NEW p \in Open(m), NEW S, NEW f, NEW g, NEW z, NEW i,
         Linked(S, f, Open(m), Pairs(m)), Ends(i) = {f[p], z}, ~Met(S, z), \A q \in 0 .. W : f[q] # z,
         g[p] = z, \A q \in 0 .. W : q # p => g[q] = f[q]
  PROVE  Linked(S \cup {i}, g, Open(m), Pairs(m))
  <1> DEFINE O == Open(m)
             K == Pairs(m)
  <1>1. Linked(S, f, O, K) /\ K \subseteq O \X O /\ p \in O /\ O = (O \ {p}) \cup {p}
    BY PairsAre
  <1>2. (\A q \in O : f[q] # z) /\ \A q \in O : q # p => g[q] = f[q]
    BY PairsAre
  <1>3. \A e \in K : <<IF e[1] = p THEN p ELSE e[1], IF e[2] = p THEN p ELSE e[2]>> \in K
    <2>1. \A e \in K : e = <<e[1], e[2]>>
      BY PairsAre
    <2>2. QED
      BY <2>1
  <1> HIDE DEF O, K
  <1>4. Growing(S, f, O, K, g, O, K, p, p, z, i)
    BY <1>1, <1>2, <1>3 DEF Growing
  <1>5. QED
    BY <1>4, LinkedGrow DEF O, K

-----------------------------------------------------------------------------
(***************************************************************************)
(* The order in which the edges are decided: vertex by vertex, row by row, *)
(* the edge to the right before the one below. Before(x) are the edges     *)
(* that are decided when it is x's turn, Pos(x) is the position of x's     *)
(* column, and the front of x are the vertices from x to the one before    *)
(* the vertex below x, each at its position.                               *)
(***************************************************************************)
Pos(x) == W - 1 - (x % W)
Before(x) == {i \in DOMAIN Edges : Edges[i][1] < x}
Right(x) == {i \in DOMAIN Edges : Edges[i] = <<x, x + 1>>}
Down(x) == {i \in DOMAIN Edges : Edges[i] = <<x, x + W>>}
Places(x) == [q \in 0 .. W |-> IF q = W THEN Start
                              ELSE IF q <= Pos(x) THEN x + Pos(x) - q ELSE x + Pos(x) - q + W]
LastRow == W * (W - 1)

\* Positions go down within a row, start anew with the next, and are the same below each other.
LEMMA PosType ==
  ASSUME NEW x \in Nat
  PROVE  /\ W \in Nat /\ W > 1 /\ Pos(x) \in 0 .. W - 1 /\ x % W \in 0 .. W - 1
         /\ \A d \in 0 .. Pos(x) : Pos(x + d) = Pos(x) - d
         /\ \A d \in Pos(x) + 1 .. W + Pos(x) : Pos(x + d) = Pos(x) - d + W
  <1> DEFINE a == x \div W
             r == x % W
  <1>1. W \in Nat \ {0} /\ W > 1 /\ x \in Int
    BY WAssumption
  <1>2. r \in 0 .. W - 1 /\ x = W * a + r /\ a \in Int
    BY <1>1, ModType, ModDiv
  <1>3. Pos(x) = W - 1 - r
    BY DEF Pos
  <1>4. W * a \in Int /\ W * (a + 1) = W * a + W /\ a + 1 \in Int
    BY <1>1, <1>2
  <1> HIDE DEF a, r
  <1>5. ASSUME NEW d \in 0 .. Pos(x) PROVE Pos(x + d) = Pos(x) - d
    <2>1. x + d \in Int /\ r + d \in 0 .. W - 1 /\ x + d = W * a + (r + d) /\ d \in Int
      BY <1>1, <1>2, <1>3, <1>4
    <2>2. (x + d) % W = r + d
      BY <1>1, <1>2, <2>1, ModUnique
    <2>3. QED
      BY <1>1, <1>2, <1>3, <2>1, <2>2 DEF Pos
  <1>6. ASSUME NEW d \in Pos(x) + 1 .. W + Pos(x) PROVE Pos(x + d) = Pos(x) - d + W
    <2>1. x + d \in Int /\ r + d - W \in 0 .. W - 1 /\ x + d = W * (a + 1) + (r + d - W) /\ d \in Int
      BY <1>1, <1>2, <1>3, <1>4
    <2> DEFINE b == a + 1
               e == x + d
               c == r + d - W
    <2>1a. e \in Int /\ c \in 0 .. W - 1 /\ b \in Int /\ e = W * b + c
      BY <1>4, <2>1
    <2> HIDE DEF b, c, e
    <2>1b. e % W = c
      BY <1>1, <2>1a, ModUnique
    <2>2. (x + d) % W = r + d - W
      BY <2>1b DEF c, e
    <2>3. QED
      BY <1>1, <1>2, <1>3, <2>1, <2>2 DEF Pos
  <1>7. QED
    BY <1>1, <1>2, <1>3, <1>5, <1>6 DEF r

\* The front has each vertex at its position, and the start on top.
LEMMA FrontType ==
  ASSUME NEW x \in Nat
  PROVE  /\ Places(x)[W] = Start
         /\ \A q \in 0 .. W - 1 : Places(x)[q] \in x .. x + W - 1 /\ Pos(Places(x)[q]) = q
         /\ \A y \in x .. x + W - 1 : Pos(y) \in 0 .. W - 1 /\ Places(x)[Pos(y)] = y
         /\ Places(x)[Pos(x)] = x
         /\ Pos(x) > 0 => Places(x)[Pos(x) - 1] = x + 1
  <1> DEFINE p == Pos(x)
             f == Places(x)
  <1>1. /\ W \in Nat /\ W > 1 /\ p \in 0 .. W - 1
        /\ \A d \in 0 .. p : Pos(x + d) = p - d
        /\ \A d \in p + 1 .. W + p : Pos(x + d) = p - d + W
    BY PosType
  <1>2. f[W] = Start /\ \A q \in 0 .. W - 1 : f[q] = IF q <= p THEN x + p - q ELSE x + p - q + W
    BY <1>1 DEF Places
  <1> HIDE DEF p, f
  <1>3. ASSUME NEW q \in 0 .. W - 1 PROVE f[q] \in x .. x + W - 1 /\ Pos(f[q]) = q
    <2>1. CASE q <= p
      <3>1. p - q \in 0 .. p /\ f[q] = x + (p - q)
        BY <1>1, <1>2, <2>1
      <3>2. Pos(x + (p - q)) = p - (p - q)
        BY <1>1, <3>1
      <3>3. QED
        BY <1>1, <3>1, <3>2
    <2>2. CASE ~(q <= p)
      <3>1. p - q + W \in p + 1 .. W + p /\ f[q] = x + (p - q + W) /\ p - q + W < W
        BY <1>1, <1>2, <2>2
      <3>2. Pos(x + (p - q + W)) = p - (p - q + W) + W
        BY <1>1, <3>1
      <3>3. QED
        BY <1>1, <3>1, <3>2
    <2>3. QED
      BY <2>1, <2>2
  <1>4. ASSUME NEW y \in x .. x + W - 1 PROVE Pos(y) \in 0 .. W - 1 /\ f[Pos(y)] = y
    <2>1. y - x \in 0 .. W - 1 /\ x + (y - x) = y /\ y \in Nat
      BY <1>1
    <2>2. Pos(y) \in 0 .. W - 1
      BY <2>1, PosType
    <2>3. CASE y - x <= p
      <3>1. y - x \in 0 .. p
        BY <1>1, <2>1, <2>3
      <3>2. Pos(x + (y - x)) = p - (y - x)
        BY <1>1, <3>1
      <3>3. QED
        BY <1>1, <1>2, <2>1, <2>2, <2>3, <3>2
    <2>4. CASE ~(y - x <= p)
      <3>1. y - x \in p + 1 .. W + p
        BY <1>1, <2>1, <2>4
      <3>2. Pos(x + (y - x)) = p - (y - x) + W
        BY <1>1, <3>1
      <3>3. QED
        BY <1>1, <1>2, <2>1, <2>2, <2>4, <3>2
    <2>5. QED
      BY <2>2, <2>3, <2>4
  <1>5. f[p] = x /\ (p > 0 => f[p - 1] = x + 1)
    BY <1>1, <1>2
  <1>6. QED
    BY <1>2, <1>3, <1>4, <1>5 DEF p, f

\* With the next vertex's turn, the front changes at one position.
LEMMA FrontStep ==
  ASSUME NEW x \in Nat
  PROVE  /\ Places(x + 1)[Pos(x)] = x + W
         /\ \A q \in 0 .. W : q # Pos(x) => Places(x + 1)[q] = Places(x)[q]
  <1>0. W \in Nat /\ W > 1 /\ x + 1 \in Nat /\ x + W \in Nat /\ Pos(x) \in 0 .. W - 1
    BY PosType
  <1>1. Pos(x + W) = Pos(x)
    <2>1. W \in Pos(x) + 1 .. W + Pos(x)
      BY <1>0
    <2>2. Pos(x + W) = Pos(x) - W + W
      BY <2>1, PosType
    <2>3. QED
      BY <1>0, <2>2
  <1>2. Places(x + 1)[Pos(x)] = x + W
    <2>1. x + W \in x + 1 .. (x + 1) + W - 1
      BY <1>0
    <2>2. QED
      BY <1>0, <1>1, <2>1, FrontType
  <1>3. ASSUME NEW q \in 0 .. W, q # Pos(x) PROVE Places(x + 1)[q] = Places(x)[q]
    <2>1. CASE q = W
      BY <1>0, <2>1, FrontType
    <2>2. CASE q # W
      <3> DEFINE y == Places(x)[q]
      <3>1. q \in 0 .. W - 1
        BY <1>0, <2>2
      <3>2. y \in x .. x + W - 1 /\ Pos(y) = q
        BY <3>1, FrontType
      <3> HIDE DEF y
      <3>3. y # x
        BY <1>3, <3>2
      <3>4. y \in x + 1 .. (x + 1) + W - 1
        BY <1>0, <3>2, <3>3
      <3>5. Places(x + 1)[Pos(y)] = y
        BY <1>0, <3>4, FrontType
      <3>6. QED
        BY <3>2, <3>5 DEF y
    <2>3. QED
      BY <2>1, <2>2
  <1>4. QED
    BY <1>2, <1>3

\* No two positions of the front have the same vertex, but for the start.
LEMMA FrontDistinct ==
  ASSUME NEW x \in Nat, NEW q \in 0 .. W - 1, NEW r \in 0 .. W, r # q, Places(x)[q] # Start
  PROVE  Places(x)[r] # Places(x)[q]
  <1>1. W \in Nat /\ Places(x)[W] = Start /\ Pos(Places(x)[q]) = q
    BY WAssumption, FrontType
  <1>2. CASE r = W
    BY <1>1, <1>2
  <1>3. CASE r # W
    <2>1. r \in 0 .. W - 1
      BY <1>1, <1>3
    <2>2. Pos(Places(x)[r]) = r
      BY <2>1, FrontType
    <2>3. QED
      BY <1>1, <2>2
  <1>4. QED
    BY <1>2, <1>3

-----------------------------------------------------------------------------
\* The edges of a vertex to the right and below.
LEMMA EdgesFrom ==
  ASSUME NEW x \in V, x # Target
  PROVE  /\ x \in Nat /\ x + 1 \in V /\ (x + W \in V <=> x < LastRow) /\ LastRow \in Nat /\ Target \in Nat
         /\ Pos(x) > 0 => \E i \in DOMAIN Edges : Right(x) = {i} /\ Ends(i) = {x, x + 1}
         /\ Pos(x) = 0 => Right(x) = {}
         /\ x < LastRow => \E i \in DOMAIN Edges : Down(x) = {i} /\ Ends(i) = {x, x + W}
         /\ x >= LastRow => Down(x) = {}
         /\ Before(x + 1) = Before(x) \cup Right(x) \cup Down(x)
         /\ Before(x) \cap Right(x) = {} /\ Before(x) \cap Down(x) = {} /\ Right(x) \cap Down(x) = {}
         /\ Right(x) \subseteq DOMAIN Edges /\ Down(x) \subseteq DOMAIN Edges /\ Before(x) \subseteq DOMAIN Edges
         /\ \A i \in DOMAIN Edges : x \in Ends(i) => i \in Before(x + 1)
  <1>0. W \in Nat /\ W > 1 /\ V = 0 .. W * W - 1 /\ Target = W * W - 1 /\ W * W \in Nat /\ LastRow = W * W - W
        /\ x \in Nat /\ x % W \in 0 .. W - 1 /\ W * W >= W
    <2>1. W \in Nat /\ W > 1 /\ V = 0 .. W * W - 1 /\ Target = W * W - 1 /\ W * W \in Nat
      BY WAssumption DEF V, Target
    <2>2. W * (W - 1) = W * W - W /\ W * W >= W
      BY <2>1
    <2>3. x \in Nat
      BY <2>1
    <2>4. QED
      BY <2>1, <2>2, <2>3, PosType DEF LastRow
  <1>1. x + 1 \in V /\ (x + W \in V <=> x < LastRow) /\ LastRow \in Nat /\ Target \in Nat
    BY <1>0
  <1>2. Pos(x) > 0 <=> (x % W) + 1 < W
    BY <1>0 DEF Pos
  <1>3. /\ \A i \in DOMAIN Edges : /\ Edges[i] \in V \X V /\ Edges[i] = <<Edges[i][1], Edges[i][2]>>
                                   /\ Edges[i][1] < Edges[i][2] /\ Follows(Edges[i][1], Edges[i][2])
        /\ \A a, b \in V : Follows(a, b) => \E i \in DOMAIN Edges : Edges[i] = <<a, b>>
        /\ \A i, k \in DOMAIN Edges : Edges[i] = Edges[k] => i = k
    BY EdgesAre
  <1>4. ASSUME Pos(x) > 0 PROVE \E i \in DOMAIN Edges : Right(x) = {i} /\ Ends(i) = {x, x + 1}
    <2>1. Follows(x, x + 1)
      BY <1>2, <1>4 DEF Follows
    <2>2. PICK i \in DOMAIN Edges : Edges[i] = <<x, x + 1>>
      BY <1>1, <1>3, <2>1
    <2>3. Right(x) = {i} /\ Ends(i) = {x, x + 1}
      BY <1>3, <2>2 DEF Right, Ends
    <2>4. QED
      BY <2>3
  <1>5. ASSUME Pos(x) = 0 PROVE Right(x) = {}
    <2>1. ASSUME NEW i \in Right(x) PROVE FALSE
      <3>1. i \in DOMAIN Edges /\ Edges[i] = <<x, x + 1>>
        BY <2>1 DEF Right
      <3>2. Follows(x, x + 1)
        BY <1>3, <3>1
      <3>3. x + 1 # x + W
        BY <1>0
      <3>4. QED
        BY <1>0, <1>2, <1>5, <3>2, <3>3 DEF Follows
    <2>2. QED
      BY <2>1
  <1>6. ASSUME x < LastRow PROVE \E i \in DOMAIN Edges : Down(x) = {i} /\ Ends(i) = {x, x + W}
    <2>1. Follows(x, x + W)
      BY <1>1, <1>6 DEF Follows
    <2>2. PICK i \in DOMAIN Edges : Edges[i] = <<x, x + W>>
      BY <1>1, <1>3, <1>6, <2>1
    <2>3. Down(x) = {i} /\ Ends(i) = {x, x + W}
      BY <1>3, <2>2 DEF Down, Ends
    <2>4. QED
      BY <2>3
  <1>7. ASSUME x >= LastRow PROVE Down(x) = {}
    <2>1. ASSUME NEW i \in Down(x) PROVE FALSE
      <3>1. i \in DOMAIN Edges /\ Edges[i] = <<x, x + W>>
        BY <2>1 DEF Down
      <3>2. x + W \in V
        BY <1>3, <3>1
      <3>3. QED
        BY <1>0, <1>1, <1>7, <3>2
    <2>2. QED
      BY <2>1
  <1>8. ASSUME NEW i \in DOMAIN Edges PROVE i \in Before(x + 1) <=> i \in Before(x) \cup Right(x) \cup Down(x)
    <2>1. Edges[i][1] \in Nat /\ Edges[i] = <<Edges[i][1], Edges[i][2]>> /\ Follows(Edges[i][1], Edges[i][2])
      BY <1>0, <1>3
    <2>2. Edges[i][1] < x + 1 <=> Edges[i][1] < x \/ Edges[i][1] = x
      BY <1>0, <2>1
    <2>3. Edges[i][1] = x <=> i \in Right(x) \cup Down(x)
      <3>1. ASSUME Edges[i][1] = x PROVE i \in Right(x) \cup Down(x)
        <4>1. Edges[i][2] = x + 1 \/ Edges[i][2] = x + W
          BY <2>1, <3>1 DEF Follows
        <4>2. QED
          BY <2>1, <3>1, <4>1 DEF Right, Down
      <3>2. QED
        BY <3>1 DEF Right, Down
    <2>4. QED
      BY <2>2, <2>3 DEF Before
  <1>9. Right(x) \subseteq DOMAIN Edges /\ Down(x) \subseteq DOMAIN Edges /\ Before(x) \subseteq DOMAIN Edges
        /\ Before(x + 1) \subseteq DOMAIN Edges
    BY DEF Right, Down, Before
  <1>10. Before(x + 1) = Before(x) \cup Right(x) \cup Down(x)
    BY <1>8, <1>9
  <1>11. Before(x) \cap Right(x) = {} /\ Before(x) \cap Down(x) = {} /\ Right(x) \cap Down(x) = {}
    <2>1. \A i \in Right(x) : Edges[i][1] = x /\ Edges[i][2] = x + 1
      BY DEF Right
    <2>2. \A i \in Down(x) : Edges[i][1] = x /\ Edges[i][2] = x + W
      BY DEF Down
    <2>3. \A i \in Before(x) : Edges[i][1] < x
      BY DEF Before
    <2>4. x + 1 # x + W /\ ~(x < x)
      BY <1>0
    <2>5. QED
      BY <2>1, <2>2, <2>3, <2>4
  <1>12. ASSUME NEW i \in DOMAIN Edges, x \in Ends(i) PROVE i \in Before(x + 1)
    <2>1. Edges[i][1] \in Nat /\ Edges[i][2] \in Nat /\ Edges[i][1] < Edges[i][2] /\ x \in {Edges[i][1], Edges[i][2]}
      BY <1>0, <1>3, <1>12 DEF Ends
    <2>2. Edges[i][1] < x + 1
      BY <1>0, <2>1
    <2>3. QED
      BY <2>2 DEF Before
  <1>13. QED
    BY <1>0, <1>1, <1>4, <1>5, <1>6, <1>7, <1>9, <1>10, <1>11, <1>12

-----------------------------------------------------------------------------
(***************************************************************************)
(* The edge sets that are a path, by degrees and connection alone.         *)
(***************************************************************************)
Shape(S) == /\ S \in SUBSET DOMAIN Edges /\ S # {}
            /\ \A x \in V : Deg(S, x) \in Nat /\ Deg(S, x) <= MaxDegree(x)
            /\ \A x \in V \ Terminals : Deg(S, x) # 1
            /\ \A D : Sealed(S, D) /\ (\E z \in D : Met(S, z)) => Terminals \subseteq D

\* They are the ones that the frontier dynamic program ends with.
LEMMA ShapeIsWhole == \A S : Shape(S) <=> S \in Wholes
  <1>1. ASSUME NEW S, Shape(S) PROVE S \in Wholes
    <2>1. S \in SUBSET DOMAIN Edges /\ S # {} /\ Components(S, CompsOf(S))
      BY <1>1, CompsOfRight DEF Shape
    <2>2. CompsOf(S) # {}
      <3>1. PICK i \in S : TRUE
        BY <2>1
      <3>2. \E C \in CompsOf(S) : Ends(i) \subseteq C
        BY <2>1, <3>1 DEF Components
      <3>3. QED
        BY <3>2
    <2>3. ASSUME NEW C \in CompsOf(S) PROVE Terminals \subseteq C
      <3>1. Sealed(S, C)
        BY <2>1, ComponentClosed
      <3>2. PICK x \in C : \E i \in S : x \in Ends(i)
        BY <2>1 DEF Components
      <3>3. QED
        BY <1>1, <3>1, <3>2 DEF Shape, Met
    <2>4. PICK p \in NumberPaths : EdgeSet(p) = S
      BY <1>1, <2>1, <2>2, <2>3, ShapeIsPath DEF Shape
    <2>5. QED
      BY <2>4, PathIsWhole
  <1>2. ASSUME NEW S \in Wholes PROVE Shape(S)
    <2>1. /\ S \in SUBSET DOMAIN Edges
          /\ \A x \in V : Deg(S, x) \in Nat /\ Deg(S, x) <= MaxDegree(x)
          /\ \A x \in V \ Terminals : Deg(S, x) # 1
          /\ \A C \in CompsOf(S) : Terminals \subseteq C
          /\ CompsOf(S) # {}
      BY AliveShape DEF Wholes
    <2>2. Components(S, CompsOf(S))
      BY <2>1, CompsOfRight
    <2>3. S # {}
      <3>1. PICK C \in CompsOf(S) : TRUE
        BY <2>1
      <3>2. PICK x \in C : \E i \in S : x \in Ends(i)
        BY <2>2, <3>1 DEF Components
      <3>3. QED
        BY <3>2
    <2>4. ASSUME NEW D, Sealed(S, D), NEW z \in D, Met(S, z) PROVE Terminals \subseteq D
      <3>1. PICK i \in S : z \in Ends(i)
        BY <2>4 DEF Met
      <3>2. PICK C \in CompsOf(S) : Ends(i) \subseteq C
        BY <2>2 DEF Components
      <3>3. z \in C /\ C \subseteq V /\ Sealed(S, C)
        BY <2>2, <3>1, <3>2, ComponentClosed DEF Components
      <3>4. Sealed(S, C \cap D) /\ C \cap D \in SUBSET C /\ C \cap D # {}
        BY <2>4, <3>3 DEF Sealed
      <3>5. C \cap D = C
        BY <2>2, <3>4 DEF Components
      <3>6. QED
        BY <2>1, <3>5
    <2>5. QED
      BY <2>1, <2>3, <2>4 DEF Shape
  <1>3. QED
    BY <1>1, <1>2

\* An edge meets a vertex exactly if it counts for its degree.
LEMMA MetDeg ==
  ASSUME NEW S \in SUBSET DOMAIN Edges, NEW x
  PROVE  Deg(S, x) \in Nat /\ (Met(S, x) <=> Deg(S, x) # 0) /\ Deg({}, x) = 0
  <1> DEFINE I == S \cap Touching(x)
  <1>1. IsFiniteSet(I) /\ \A i \in S : i \in Touching(x) <=> x \in Ends(i)
    BY AtVertex
  <1>2. Met(S, x) <=> I # {}
    BY <1>1 DEF Met
  <1>3. Deg(S, x) = Cardinality(I)
    BY DEF Deg
  <1>4. {} \cap Touching(x) = {}
    OBVIOUS
  <1> HIDE DEF I
  <1>5. Cardinality(I) \in Nat /\ (Cardinality(I) = 0 <=> I = {})
    BY <1>1, FS_CardinalityType, FS_EmptySet
  <1>6. Deg({}, x) = 0
    BY <1>4, FS_EmptySet DEF Deg
  <1>7. QED
    BY <1>2, <1>3, <1>5, <1>6

\* More edges do not make a degree smaller.
LEMMA DegGrows ==
  ASSUME NEW S \in SUBSET DOMAIN Edges, NEW T \in SUBSET S, NEW x
  PROVE  Deg(T, x) <= Deg(S, x) /\ Deg(T, x) \in Nat /\ Deg(S, x) \in Nat
  <1>1. IsFiniteSet(S \cap Touching(x)) /\ T \cap Touching(x) \in SUBSET (S \cap Touching(x)) /\ T \in SUBSET DOMAIN Edges
    BY AtVertex
  <1>2. QED
    BY <1>1, FS_Subset, MetDeg DEF Deg

-----------------------------------------------------------------------------
\* The degree of a vertex, with the start of the path counted at its end.
Load(S, y) == Deg(S, y) + (IF y = Start THEN 1 ELSE 0)
Hit(c) == IF c THEN 1 ELSE 0

\* The edges that x decides, and what they do to the degrees.
Decided(S, x, right, down) == S \cup (IF right THEN Right(x) ELSE {}) \cup (IF down THEN Down(x) ELSE {})

\* A chosen edge counts at both of its ends.
LEMMA LoadStep ==
  ASSUME NEW x \in V, x # Target, NEW S \in SUBSET Before(x), NEW right \in BOOLEAN, NEW down \in BOOLEAN,
         right => Pos(x) > 0, down => x < LastRow
  PROVE  /\ Decided(S, x, right, down) \in SUBSET Before(x + 1)
         /\ \A y \in Nat : /\ Load(S, y) \in Nat
                           /\ Load(Decided(S, x, right, down), y)
                              = Load(S, y) + Hit(right /\ (y = x \/ y = x + 1)) + Hit(down /\ (y = x \/ y = x + W))
  <1>1. /\ x \in Nat /\ W \in Nat /\ W > 1
        /\ Pos(x) > 0 => \E i \in DOMAIN Edges : Right(x) = {i} /\ Ends(i) = {x, x + 1}
        /\ x < LastRow => \E i \in DOMAIN Edges : Down(x) = {i} /\ Ends(i) = {x, x + W}
        /\ Before(x + 1) = Before(x) \cup Right(x) \cup Down(x)
        /\ Before(x) \cap Right(x) = {} /\ Before(x) \cap Down(x) = {} /\ Right(x) \cap Down(x) = {}
        /\ Right(x) \subseteq DOMAIN Edges /\ Down(x) \subseteq DOMAIN Edges /\ Before(x) \subseteq DOMAIN Edges
    BY EdgesFrom, WAssumption
  <1> DEFINE T == S \cup (IF right THEN Right(x) ELSE {})
             U == T \cup (IF down THEN Down(x) ELSE {})
  <1>2. S \in SUBSET DOMAIN Edges /\ T \in SUBSET DOMAIN Edges /\ U \in SUBSET Before(x + 1)
    BY <1>1
  <1>3. U = Decided(S, x, right, down)
    BY DEF Decided
  <1>4. ASSUME NEW y PROVE Deg(S, y) \in Nat /\ Deg(T, y) = Deg(S, y) + Hit(right /\ (y = x \/ y = x + 1))
    <2>1. CASE right
      <3>1. PICK i \in DOMAIN Edges : Right(x) = {i} /\ Ends(i) = {x, x + 1}
        BY <1>1, <2>1
      <3>2. i \notin S /\ T = S \cup {i}
        BY <1>1, <2>1, <3>1
      <3>3. Deg(S, y) \in Nat /\ Deg(S \cup {i}, y) = IF y \in Ends(i) THEN Deg(S, y) + 1 ELSE Deg(S, y)
        BY <1>2, <3>2, DegStep
      <3>4. QED
        BY <2>1, <3>1, <3>2, <3>3 DEF Hit
    <2>2. CASE ~right
      BY <1>2, <2>2, MetDeg DEF Hit
    <2>3. QED
      BY <2>1, <2>2
  <1>5. ASSUME NEW y PROVE Deg(T, y) \in Nat /\ Deg(U, y) = Deg(T, y) + Hit(down /\ (y = x \/ y = x + W))
    <2>1. CASE down
      <3>1. PICK i \in DOMAIN Edges : Down(x) = {i} /\ Ends(i) = {x, x + W}
        BY <1>1, <2>1
      <3>2. i \notin T /\ U = T \cup {i}
        BY <1>1, <2>1, <3>1
      <3> HIDE DEF T
      <3>3. Deg(T, y) \in Nat /\ Deg(T \cup {i}, y) = IF y \in Ends(i) THEN Deg(T, y) + 1 ELSE Deg(T, y)
        BY <1>2, <3>2, DegStep
      <3>4. QED
        BY <2>1, <3>1, <3>2, <3>3 DEF Hit
    <2>2. CASE ~down
      <3>1. U = T
        BY <2>2
      <3> HIDE DEF T, U
      <3>2. QED
        BY <1>2, <2>2, <3>1, MetDeg DEF Hit
    <2>3. QED
      BY <2>1, <2>2
  <1>6. ASSUME NEW y \in Nat
        PROVE  /\ Load(S, y) \in Nat
               /\ Load(U, y) = Load(S, y) + Hit(right /\ (y = x \/ y = x + 1)) + Hit(down /\ (y = x \/ y = x + W))
    <2> DEFINE a == Hit(right /\ (y = x \/ y = x + 1))
               b == Hit(down /\ (y = x \/ y = x + W))
    <2>1. a \in Nat /\ b \in Nat
      BY DEF Hit
    <2>2. Deg(S, y) \in Nat /\ Deg(U, y) = Deg(S, y) + a + b
      BY <1>4, <1>5
    <2> HIDE DEF a, b, U
    <2>3. QED
      BY <2>1, <2>2 DEF Load, a, b
  <1> HIDE DEF U
  <1>7. QED
    BY <1>2, <1>3, <1>6

-----------------------------------------------------------------------------
(***************************************************************************)
(* The choices of edges, vertex by vertex. A choice is the edges chosen so *)
(* far with the word for them, blocked or not. When it is x's turn the     *)
(* edge to the right may be included, unless the word is blocked; the edge *)
(* below is chosen if a path end is left at x's position then.             *)
(***************************************************************************)
Chosen == [S : SUBSET DOMAIN Edges, m : Words(W), b : BOOLEAN]

Moves(x, t) == {<<t.m, FALSE>>} \cup {<<c, TRUE>> : c \in IF Pos(x) > 0 /\ ~t.b THEN Including(t.m, Pos(x)) ELSE {}}

\* Below the last row there is no edge.
Allowed(x, t) == {c \in Moves(x, t) : x >= LastRow => c[1][Pos(x)] = "N"}

After(x, t, c) == [S |-> Decided(t.S, x, c[2], c[1][Pos(x)] # "N"), m |-> c[1],
                   b |-> c[2] /\ Pos(x) > 1 /\ t.m[Pos(x) - 1] # "N"]

\* Including an edge changes at its two positions, and only there, whether a path ends.
LEMMA Toggled ==
  ASSUME NEW m \in Words(W), NEW p \in 1 .. W - 1, NEW t \in Including(m, p)
  PROVE  /\ t \in Words(W)
         /\ \A q \in 0 .. W - 1 : t[q] # "N" <=> IF q = p \/ q = p - 1 THEN m[q] = "N" ELSE m[q] # "N"
         /\ ~(m[p] = "L" /\ m[p - 1] = "R")
  <1>1. W \in Nat /\ W > 1 /\ p - 1 \in 0 .. W - 1 /\ p \in 0 .. W - 1 /\ p # p - 1
    BY WAssumption
  <1>2. t \in Words(W) /\ (PairCase(m, t, p) \/ (\E r : LeftCase(m, t, p, r)) \/ (\E r : RightCase(m, t, p, r)))
    BY IncludingCases
  <1>3. ~(m[p] = "L" /\ m[p - 1] = "R")
    BY IncludingOnce
  <1>4. CASE PairCase(m, t, p)
    <2>1. \A q \in 0 .. W - 1 : q # p /\ q # p - 1 => t[q] = m[q]
      BY <1>4 DEF PairCase
    <2>2. (t[p] # "N" <=> m[p] = "N") /\ (t[p - 1] # "N" <=> m[p - 1] = "N")
      BY <1>4 DEF PairCase
    <2>3. QED
      BY <1>2, <1>3, <2>1, <2>2
  <1>5. ASSUME NEW r, LeftCase(m, t, p, r)
        PROVE  \A q \in 0 .. W - 1 : t[q] # "N" <=> IF q = p \/ q = p - 1 THEN m[q] = "N" ELSE m[q] # "N"
    BY <1>5 DEF LeftCase
  <1>6. ASSUME NEW r, RightCase(m, t, p, r)
        PROVE  \A q \in 0 .. W - 1 : t[q] # "N" <=> IF q = p \/ q = p - 1 THEN m[q] = "N" ELSE m[q] # "N"
    BY <1>6 DEF RightCase
  <1>7. QED
    BY <1>2, <1>3, <1>4, <1>5, <1>6

-----------------------------------------------------------------------------
(***************************************************************************)
(* What holds of a choice when it is x's turn. Vertices that are done with *)
(* have no edge or two, and those of the front one if a path ends there,   *)
(* none otherwise; but x may have two, from above and from the left, and   *)
(* then the word is blocked.                                               *)
(***************************************************************************)
LoadsRight(x, t) ==
    \A y \in Nat :
        /\ y < x => Load(t.S, y) \in {0, 2}
        /\ y >= x + W => Load(t.S, y) = 0
        /\ y \in x .. x + W - 1 => IF t.m[Pos(y)] # "N" THEN Load(t.S, y) = 1
                                   ELSE Load(t.S, y) = 0 \/ (y = x /\ Load(t.S, y) = 2)

BlockRight(x, t) == /\ t.b => t.m[Pos(x)] = "N" /\ Pos(x) > 0
                    /\ t.m[Pos(x)] = "N" /\ Pos(x) > 0 => (t.b <=> Load(t.S, x) = 2)

NoneBelow(x, t) == x >= LastRow => \A q \in Pos(x) + 1 .. W - 1 : t.m[q] = "N"

ChoiceRight(x, t) == /\ t \in Chosen /\ t.S \subseteq Before(x)
                /\ LoadsRight(x, t) /\ BlockRight(x, t) /\ NoneBelow(x, t)
                /\ Linked(t.S, Places(x), Open(t.m), Pairs(t.m))

\* What a move is.
LEMMA MoveIs ==
  ASSUME NEW x \in Nat, NEW t \in Chosen, NEW c \in Allowed(x, t)
  PROVE  /\ c[1] \in Words(W) /\ c[2] \in BOOLEAN /\ c = <<c[1], c[2]>>
         /\ c[2] => Pos(x) > 0 /\ ~t.b /\ c[1] \in Including(t.m, Pos(x)) /\ Pos(x) \in 1 .. W - 1
                    /\ ~(t.m[Pos(x)] = "L" /\ t.m[Pos(x) - 1] = "R")
         /\ ~c[2] => c[1] = t.m
         /\ \A q \in 0 .. W - 1 : c[1][q] # "N" <=> IF c[2] /\ (q = Pos(x) \/ q = Pos(x) - 1)
                                                    THEN t.m[q] = "N" ELSE t.m[q] # "N"
         /\ x >= LastRow => c[1][Pos(x)] = "N"
  <1>1. t.m \in Words(W) /\ t.b \in BOOLEAN /\ Pos(x) \in 0 .. W - 1 /\ W \in Nat
    BY PosType DEF Chosen
  <1>2. c \in Moves(x, t) /\ (x >= LastRow => c[1][Pos(x)] = "N")
    BY DEF Allowed
  <1>3. CASE c = <<t.m, FALSE>>
    <2>1. c[1] = t.m /\ c[2] = FALSE
      BY <1>3
    <2>2. QED
      BY <1>1, <1>2, <1>3, <2>1
  <1>4. CASE c # <<t.m, FALSE>>
    <2>1. Pos(x) > 0 /\ ~t.b /\ \E d \in Including(t.m, Pos(x)) : c = <<d, TRUE>>
      BY <1>2, <1>4 DEF Moves
    <2>2. PICK d \in Including(t.m, Pos(x)) : c = <<d, TRUE>>
      BY <2>1
    <2>3. c[1] = d /\ c[2] = TRUE /\ Pos(x) \in 1 .. W - 1
      BY <1>1, <2>1, <2>2
    <2>4. /\ d \in Words(W)
          /\ \A q \in 0 .. W - 1 : d[q] # "N" <=> IF q = Pos(x) \/ q = Pos(x) - 1
                                                  THEN t.m[q] = "N" ELSE t.m[q] # "N"
          /\ ~(t.m[Pos(x)] = "L" /\ t.m[Pos(x) - 1] = "R")
      BY <1>1, <2>3, Toggled
    <2>5. QED
      BY <1>1, <1>2, <2>1, <2>2, <2>3, <2>4
  <1>5. QED
    BY <1>3, <1>4

\* The vertices at the positions of an edge, and the others of the front.
LEMMA PosAt ==
  ASSUME NEW x \in Nat, NEW y \in x .. x + W - 1
  PROVE  /\ Pos(y) \in 0 .. W - 1 /\ (Pos(y) = Pos(x) <=> y = x)
         /\ Pos(x) > 0 => x + 1 \in x .. x + W - 1 /\ Pos(x + 1) = Pos(x) - 1 /\ (Pos(y) = Pos(x) - 1 <=> y = x + 1)
  <1>0. W \in Nat /\ W > 1 /\ Pos(x) \in 0 .. W - 1
    BY PosType
  <1>1. W \in Nat /\ W > 1 /\ Pos(x) \in 0 .. W - 1 /\ x \in x .. x + W - 1 /\ x + 1 \in x .. x + W - 1
    BY <1>0
  <1>2. Pos(y) \in 0 .. W - 1 /\ Places(x)[Pos(y)] = y /\ Places(x)[Pos(x)] = x /\ Places(x)[Pos(x + 1)] = x + 1
    BY <1>1, FrontType
  <1>3. Pos(x) > 0 => Pos(x + 1) = Pos(x) - 1
    BY <1>1, PosType
  <1>4. QED
    BY <1>1, <1>2, <1>3

\* The position of the next vertex.
LEMMA PosNext ==
  ASSUME NEW x \in V, x # Target
  PROVE  /\ Pos(x) > 0 => Pos(x + 1) = Pos(x) - 1
         /\ Pos(x) = 0 => Pos(x + 1) = W - 1 /\ x < LastRow
         /\ Pos(x + W) = Pos(x)
         /\ x < LastRow /\ x + 1 >= LastRow => Pos(x + 1) = W - 1
  <1>1. /\ W \in Nat /\ W > 1 /\ V = 0 .. W * W - 1 /\ Target = W * W - 1 /\ W * W \in Nat /\ LastRow = W * W - W
        /\ x \in Nat /\ W * (W - 1) = W * W - W
    <2>1. W \in Nat /\ W > 1 /\ V = 0 .. W * W - 1 /\ Target = W * W - 1 /\ W * W \in Nat
      BY WAssumption DEF V, Target
    <2>2. W * (W - 1) = W * W - W
      BY <2>1
    <2>3. QED
      BY <2>1, <2>2 DEF LastRow
  <1>2. /\ Pos(x) \in 0 .. W - 1
        /\ \A d \in 0 .. Pos(x) : Pos(x + d) = Pos(x) - d
        /\ \A d \in Pos(x) + 1 .. W + Pos(x) : Pos(x + d) = Pos(x) - d + W
    BY <1>1, PosType
  <1>3. Pos(x) > 0 => Pos(x + 1) = Pos(x) - 1
    BY <1>1, <1>2
  <1>4. Pos(x) = 0 => Pos(x + 1) = W - 1
    BY <1>1, <1>2
  <1>5. Pos(x + W) = Pos(x)
    <2>1. W \in Pos(x) + 1 .. W + Pos(x)
      BY <1>1, <1>2
    <2>2. Pos(x + W) = Pos(x) - W + W
      BY <1>2, <2>1
    <2>3. QED
      BY <1>1, <1>2, <2>2
  \* The last row has its positions from the last vertex on.
  <1>6. ASSUME NEW y \in LastRow .. Target PROVE Pos(y) = Target - y
    <2> DEFINE r == y - LastRow
               a == W - 1
    <2>1. r \in 0 .. W - 1 /\ y = W * a + r /\ y \in Int /\ a \in Int /\ W \in Nat \ {0}
      BY <1>1
    <2> HIDE DEF r, a
    <2>2. y % W = r
      BY <2>1, ModUnique
    <2>3. QED
      BY <1>1, <2>1, <2>2 DEF Pos, r
  <1>7. Pos(x) = 0 => x < LastRow
    <2>1. SUFFICES ASSUME Pos(x) = 0, x >= LastRow PROVE FALSE
      BY <1>1
    <2>2. x \in LastRow .. Target
      BY <1>1, <2>1
    <2>3. Pos(x) = Target - x
      BY <1>6, <2>2
    <2>4. QED
      BY <1>1, <2>1, <2>3
  <1>8. x < LastRow /\ x + 1 >= LastRow => Pos(x + 1) = W - 1
    <2>1. SUFFICES ASSUME x < LastRow, x + 1 >= LastRow PROVE Pos(x + 1) = W - 1
      OBVIOUS
    <2>2. x + 1 = LastRow /\ x + 1 \in LastRow .. Target /\ Target - (x + 1) = W - 1
      BY <1>1, <2>1
    <2>3. QED
      BY <1>6, <2>2
  <1>9. QED
    BY <1>3, <1>4, <1>5, <1>7, <1>8

-----------------------------------------------------------------------------
\* The parts of a move: the position, the edges, the loads before and after.
LEMMA MoveLoads ==
  ASSUME NEW x \in V, x # Target, NEW t, ChoiceRight(x, t), NEW c \in Allowed(x, t)
  PROVE  LET u == After(x, t, c)
             w == c[1][Pos(x)] # "N"
         IN  /\ u \in Chosen /\ u.S \subseteq Before(x + 1) /\ u.S = Decided(t.S, x, c[2], w) /\ u.m = c[1]
             /\ (c[2] => Pos(x) > 0) /\ (w => x < LastRow)
             /\ \A y \in Nat : /\ Load(t.S, y) \in Nat
                               /\ Load(u.S, y) = Load(t.S, y) + Hit(c[2] /\ (y = x \/ y = x + 1))
                                                 + Hit(w /\ (y = x \/ y = x + W))
  <1> DEFINE u == After(x, t, c)
             w == c[1][Pos(x)] # "N"
             b == c[2] /\ Pos(x) > 1 /\ t.m[Pos(x) - 1] # "N"
  <1>1. x \in Nat /\ x + 1 \in V /\ LastRow \in Nat /\ Before(x + 1) \subseteq DOMAIN Edges
    <2>1. x \in Nat /\ x + 1 \in V /\ LastRow \in Nat
      BY EdgesFrom
    <2>2. QED
      BY <2>1 DEF Before
  <1>2. t \in Chosen /\ t.S \in SUBSET Before(x)
    BY DEF ChoiceRight
  <1>3. /\ c[1] \in Words(W) /\ c[2] \in BOOLEAN /\ (c[2] => Pos(x) > 0)
        /\ x >= LastRow => c[1][Pos(x)] = "N"
    BY <1>1, <1>2, MoveIs
  <1>4. w \in BOOLEAN /\ (w => x < LastRow)
    BY <1>1, <1>3
  <1>5. u.S = Decided(t.S, x, c[2], w) /\ u.m = c[1] /\ u.b = b /\ b \in BOOLEAN
        /\ u = [S |-> Decided(t.S, x, c[2], w), m |-> c[1], b |-> b]
    BY <1>3 DEF After
  <1> HIDE DEF u, w, b
  <1>6. /\ Decided(t.S, x, c[2], w) \in SUBSET Before(x + 1)
        /\ \A y \in Nat : /\ Load(t.S, y) \in Nat
                          /\ Load(Decided(t.S, x, c[2], w), y)
                             = Load(t.S, y) + Hit(c[2] /\ (y = x \/ y = x + 1)) + Hit(w /\ (y = x \/ y = x + W))
    <2> DEFINE S == t.S
               r == c[2]
    <2>1. S \in SUBSET Before(x) /\ r \in BOOLEAN /\ w \in BOOLEAN /\ (r => Pos(x) > 0) /\ (w => x < LastRow)
      BY <1>2, <1>3, <1>4
    <2> HIDE DEF S, r
    <2>2. /\ Decided(S, x, r, w) \in SUBSET Before(x + 1)
          /\ \A y \in Nat : /\ Load(S, y) \in Nat
                            /\ Load(Decided(S, x, r, w), y)
                               = Load(S, y) + Hit(r /\ (y = x \/ y = x + 1)) + Hit(w /\ (y = x \/ y = x + W))
      BY <2>1, LoadStep DEF Hit
    <2>3. QED
      BY <2>2 DEF S, r
  <1>7. u \in Chosen
    BY <1>1, <1>3, <1>5, <1>6 DEF Chosen
  <1>8. QED
    BY <1>3, <1>4, <1>5, <1>6, <1>7 DEF u, w

\* The vertex x itself has no edge or two after its turn.
LEMMA LoadDone ==
  ASSUME NEW x \in V, x # Target, NEW t, ChoiceRight(x, t), NEW c \in Allowed(x, t)
  PROVE  Load(After(x, t, c).S, x) \in {0, 2}
  <1> DEFINE u == After(x, t, c)
             w == c[1][Pos(x)] # "N"
  <1>0. x \in Nat /\ W \in Nat /\ W > 1 /\ x \in x .. x + W - 1 /\ Pos(x) \in 0 .. W - 1
    <2>1. x \in Nat /\ W \in Nat /\ W > 1
      BY EdgesFrom, WAssumption
    <2>2. QED
      BY <2>1, PosType
  <1>1. /\ Load(u.S, x) = Load(t.S, x) + Hit(c[2] /\ (x = x \/ x = x + 1)) + Hit(w /\ (x = x \/ x = x + W))
        /\ Load(t.S, x) \in Nat
    BY <1>0, MoveLoads
  <1>2. Hit(c[2] /\ (x = x \/ x = x + 1)) = Hit(c[2]) /\ Hit(w /\ (x = x \/ x = x + W)) = Hit(w)
    BY DEF Hit
  <1>3. /\ c[2] \in BOOLEAN /\ (c[2] => Pos(x) > 0 /\ ~t.b)
        /\ w <=> IF c[2] THEN t.m[Pos(x)] = "N" ELSE t.m[Pos(x)] # "N"
    <2>1. /\ c[2] \in BOOLEAN /\ (c[2] => Pos(x) > 0 /\ ~t.b)
          /\ \A q \in 0 .. W - 1 : c[1][q] # "N" <=> IF c[2] /\ (q = Pos(x) \/ q = Pos(x) - 1)
                                                     THEN t.m[q] = "N" ELSE t.m[q] # "N"
      BY <1>0, MoveIs DEF ChoiceRight
    <2>2. QED
      BY <1>0, <2>1
  <1>4. /\ IF t.m[Pos(x)] # "N" THEN Load(t.S, x) = 1 ELSE Load(t.S, x) = 0 \/ Load(t.S, x) = 2
        /\ t.m[Pos(x)] = "N" /\ Pos(x) > 0 => (t.b <=> Load(t.S, x) = 2)
    BY <1>0 DEF ChoiceRight, LoadsRight, BlockRight
  <1> HIDE DEF u, w
  <1>5. Load(u.S, x) = Load(t.S, x) + Hit(c[2]) + Hit(w)
    BY <1>1, <1>2
  <1>6. CASE c[2]
    <2>1. Hit(c[2]) = 1
      BY <1>6 DEF Hit
    <2>2. CASE t.m[Pos(x)] = "N"
      <3>1. Load(t.S, x) = 0 /\ Hit(w) = 1
        BY <1>3, <1>4, <1>6, <2>2 DEF Hit
      <3>2. QED
        BY <1>5, <2>1, <3>1 DEF u
    <2>3. CASE t.m[Pos(x)] # "N"
      <3>1. Load(t.S, x) = 1 /\ Hit(w) = 0
        BY <1>3, <1>4, <1>6, <2>3 DEF Hit
      <3>2. QED
        BY <1>5, <2>1, <3>1 DEF u
    <2>4. QED
      BY <2>2, <2>3
  <1>7. CASE ~c[2]
    <2>1. Hit(c[2]) = 0
      BY <1>7 DEF Hit
    <2>2. CASE t.m[Pos(x)] = "N"
      <3>1. Load(t.S, x) \in {0, 2} /\ Hit(w) = 0
        BY <1>3, <1>4, <1>7, <2>2 DEF Hit
      <3>2. QED
        BY <1>5, <2>1, <3>1 DEF u
    <2>3. CASE t.m[Pos(x)] # "N"
      <3>1. Load(t.S, x) = 1 /\ Hit(w) = 1
        BY <1>3, <1>4, <1>7, <2>3 DEF Hit
      <3>2. QED
        BY <1>5, <2>1, <3>1 DEF u
    <2>4. QED
      BY <2>2, <2>3
  <1>8. QED
    BY <1>3, <1>6, <1>7

\* The loads of the front are right after a move.
LEMMA LoadsStep ==
  ASSUME NEW x \in V, x # Target, NEW t, ChoiceRight(x, t), NEW c \in Allowed(x, t)
  PROVE  LoadsRight(x + 1, After(x, t, c)) /\ BlockRight(x + 1, After(x, t, c)) /\ NoneBelow(x + 1, After(x, t, c))
  <1> DEFINE u == After(x, t, c)
             p == Pos(x)
             w == c[1][Pos(x)] # "N"
             L(y) == Load(t.S, y)
             N(y) == Load(u.S, y)
  <1>0. x \in Nat /\ W \in Nat /\ W > 1 /\ p \in 0 .. W - 1 /\ LastRow \in Nat
    <2>1. x \in Nat /\ W \in Nat /\ W > 1 /\ LastRow \in Nat
      BY EdgesFrom, WAssumption
    <2>2. QED
      BY <2>1, PosType
  <1>1. /\ \A y \in Nat : L(y) \in Nat /\ N(y) = L(y) + Hit(c[2] /\ (y = x \/ y = x + 1)) + Hit(w /\ (y = x \/ y = x + W))
        /\ u.m = c[1] /\ (c[2] => p > 0) /\ (w => x < LastRow)
    BY MoveLoads
  <1>1a. ASSUME NEW y \in Nat
         PROVE  /\ L(y) \in Nat
                /\ y # x /\ y # x + 1 /\ y # x + W => N(y) = L(y)
                /\ y = x + 1 => N(y) = L(y) + Hit(c[2])
                /\ y = x + W => N(y) = L(y) + Hit(w)
    <2> DEFINE g == Hit(c[2] /\ (y = x \/ y = x + 1))
               h == Hit(w /\ (y = x \/ y = x + W))
    <2>1. L(y) \in Nat /\ N(y) = L(y) + g + h
      BY <1>1
    <2>2. /\ y # x /\ y # x + 1 /\ y # x + W => g = 0 /\ h = 0
          /\ y = x + 1 => g = Hit(c[2]) /\ h = 0
          /\ y = x + W => g = 0 /\ h = Hit(w)
          /\ Hit(c[2]) \in Nat /\ Hit(w) \in Nat
      BY <1>0 DEF Hit
    <2> HIDE DEF g, h, L, N, w
    <2>3. QED
      BY <2>1, <2>2
  <1>2. /\ c[2] \in BOOLEAN /\ (c[2] => p > 0 /\ ~t.b /\ p \in 1 .. W - 1)
        /\ \A q \in 0 .. W - 1 : c[1][q] # "N" <=> IF c[2] /\ (q = p \/ q = p - 1)
                                                     THEN t.m[q] = "N" ELSE t.m[q] # "N"
        /\ x >= LastRow => c[1][p] = "N"
    BY <1>0, MoveIs DEF ChoiceRight
  <1>3. /\ \A y \in Nat : /\ y < x => L(y) \in {0, 2}
                          /\ y >= x + W => L(y) = 0
                          /\ y \in x .. x + W - 1 => IF t.m[Pos(y)] # "N" THEN L(y) = 1
                                                     ELSE L(y) = 0 \/ (y = x /\ L(y) = 2)
        /\ x >= LastRow => \A q \in p + 1 .. W - 1 : t.m[q] = "N"
    BY DEF ChoiceRight, LoadsRight, NoneBelow
  <1>4. N(x) \in {0, 2}
    BY LoadDone
  <1>5. \A y \in x .. x + W - 1 : /\ Pos(y) \in 0 .. W - 1 /\ (Pos(y) = p <=> y = x)
                                  /\ p > 0 => Pos(x + 1) = p - 1 /\ (Pos(y) = p - 1 <=> y = x + 1)
    BY <1>0, PosAt
  <1>6. /\ p > 0 => Pos(x + 1) = p - 1
        /\ p = 0 => Pos(x + 1) = W - 1 /\ x < LastRow
        /\ Pos(x + W) = p
        /\ x < LastRow /\ x + 1 >= LastRow => Pos(x + 1) = W - 1
    BY PosNext
  <1>7. u.b <=> c[2] /\ p > 1 /\ t.m[p - 1] # "N"
    BY DEF After
  <1> HIDE DEF u, L, N, p, w
  <1>8. ASSUME NEW y \in Nat
        PROVE  /\ y < x + 1 => N(y) \in {0, 2}
               /\ y >= x + 1 + W => N(y) = 0
               /\ y \in x + 1 .. x + 1 + W - 1 => IF u.m[Pos(y)] # "N" THEN N(y) = 1
                                                  ELSE N(y) = 0 \/ (y = x + 1 /\ N(y) = 2)
    <2>1. CASE y < x + 1
      <3>1. y = x \/ (y < x /\ N(y) = L(y))
        BY <1>0, <1>1a, <2>1
      <3>2. N(y) \in {0, 2}
        BY <1>3, <1>4, <3>1
      <3>3. QED
        BY <1>0, <2>1, <3>2
    <2>2. CASE y >= x + 1 + W
      <3>1. N(y) = L(y) /\ L(y) = 0
        BY <1>0, <1>1a, <1>3, <2>2
      <3>2. QED
        BY <1>0, <2>2, <3>1
    <2>3. CASE y = x + W
      <3>1. N(y) = L(y) + Hit(w) /\ L(y) = 0 /\ Pos(y) = p
        BY <1>0, <1>1a, <1>3, <1>6, <2>3
      <3>2. N(y) = IF u.m[Pos(y)] # "N" THEN 1 ELSE 0
        BY <1>1, <3>1 DEF Hit, w, p
      <3>3. QED
        BY <1>0, <2>3, <3>2
    <2>4. CASE y = x + 1
      <3>1. N(y) = L(y) + Hit(c[2]) /\ y \in x .. x + W - 1 /\ y # x
        BY <1>0, <1>1a, <2>4
      <3>2. L(y) = (IF t.m[Pos(y)] # "N" THEN 1 ELSE 0) /\ Pos(y) \in 0 .. W - 1 /\ Pos(y) # p
        BY <1>3, <1>5, <3>1
      <3>3. c[1][Pos(y)] # "N" <=> IF c[2] THEN t.m[Pos(y)] = "N" ELSE t.m[Pos(y)] # "N"
        BY <1>2, <1>6, <2>4, <3>2
      <3>4. Hit(c[2]) = IF c[2] THEN 1 ELSE 0
        BY DEF Hit
      <3>5. IF u.m[Pos(y)] # "N" THEN N(y) = 1 ELSE N(y) = 0 \/ N(y) = 2
        <4>1. CASE c[2]
          BY <1>1, <3>1, <3>2, <3>3, <3>4, <4>1
        <4>2. CASE ~c[2]
          BY <1>1, <3>1, <3>2, <3>3, <3>4, <4>2
        <4>3. QED
          BY <1>2, <4>1, <4>2
      <3>6. QED
        BY <1>0, <2>4, <3>5
    <2>5. CASE y \in x + 2 .. x + W - 1
      <3>1. N(y) = L(y) /\ y \in x .. x + W - 1 /\ y # x /\ y # x + 1
        BY <1>0, <1>1a, <2>5
      <3>2. L(y) = (IF t.m[Pos(y)] # "N" THEN 1 ELSE 0) /\ Pos(y) \in 0 .. W - 1 /\ Pos(y) # p
        BY <1>3, <1>5, <3>1
      <3>3. c[2] => Pos(y) # p - 1
        BY <1>2, <1>5, <3>1
      <3>4. c[1][Pos(y)] # "N" <=> t.m[Pos(y)] # "N"
        BY <1>2, <3>2, <3>3
      <3>5. N(y) = IF u.m[Pos(y)] # "N" THEN 1 ELSE 0
        BY <1>1, <3>1, <3>2, <3>4
      <3>6. QED
        BY <1>0, <2>5, <3>5
    <2>6. QED
      BY <1>0, <2>1, <2>2, <2>3, <2>4, <2>5
  <1>9. LoadsRight(x + 1, u)
    BY <1>8 DEF LoadsRight, N
  <1>10. BlockRight(x + 1, u)
    <2>1. CASE p > 0
      <3>1. Pos(x + 1) = p - 1 /\ x + 1 \in Nat /\ x + 1 \in x .. x + W - 1 /\ p - 1 \in 0 .. W - 1 /\ p - 1 # p
        BY <1>0, <1>6, <2>1
      <3>2. c[1][p - 1] # "N" <=> IF c[2] THEN t.m[p - 1] = "N" ELSE t.m[p - 1] # "N"
        BY <1>2, <3>1
      <3>3. L(x + 1) = (IF t.m[p - 1] # "N" THEN 1 ELSE 0) /\ N(x + 1) = L(x + 1) + Hit(c[2])
        <4>1. x + 1 # x
          BY <1>0
        <4>2. QED
          BY <1>1a, <1>3, <3>1, <4>1
      <3>4. c[1][p - 1] = "N" => (N(x + 1) = 2 <=> c[2]) /\ (c[2] <=> t.m[p - 1] # "N")
        <4>1. CASE c[2]
          BY <3>2, <3>3, <4>1 DEF Hit
        <4>2. CASE ~c[2]
          BY <3>2, <3>3, <4>2 DEF Hit
        <4>3. QED
          BY <4>1, <4>2
      <3>5. u.b => c[1][p - 1] = "N" /\ p - 1 > 0
        BY <1>0, <1>7, <3>2
      <3>6. c[1][p - 1] = "N" /\ p - 1 > 0 => (u.b <=> N(x + 1) = 2)
        BY <1>0, <1>7, <3>4
      <3>7. QED
        BY <1>1, <3>1, <3>5, <3>6 DEF BlockRight, N
    <2>2. CASE ~(p > 0)
      <3>1. p = 0 /\ ~c[2] /\ Pos(x + 1) = W - 1 /\ x + 1 \in Nat /\ x + 1 \in x .. x + W - 1 /\ W - 1 \in 0 .. W - 1
        BY <1>0, <1>2, <1>6, <2>2
      <3>2. ~u.b
        BY <1>7, <3>1
      <3>3. c[1][W - 1] # "N" <=> t.m[W - 1] # "N"
        BY <1>2, <3>1
      <3>4. L(x + 1) = (IF t.m[W - 1] # "N" THEN 1 ELSE 0) /\ N(x + 1) = L(x + 1) + Hit(c[2])
        <4>1. x + 1 # x
          BY <1>0
        <4>2. QED
          BY <1>1a, <1>3, <3>1, <4>1
      <3>5. c[1][W - 1] = "N" => N(x + 1) # 2
        BY <3>1, <3>3, <3>4 DEF Hit
      <3>6. QED
        BY <1>1, <3>1, <3>2, <3>5 DEF BlockRight, N
    <2>3. QED
      BY <2>1, <2>2
  <1>11. NoneBelow(x + 1, u)
    <2>1. SUFFICES ASSUME x + 1 >= LastRow, NEW q \in Pos(x + 1) + 1 .. W - 1 PROVE u.m[q] = "N"
      BY DEF NoneBelow
    <2>2. CASE x < LastRow
      <3>1. Pos(x + 1) = W - 1
        BY <1>6, <2>1, <2>2
      <3>2. QED
        BY <1>0, <2>1, <3>1
    <2>3. CASE ~(x < LastRow)
      <3>1. p > 0 /\ x >= LastRow
        BY <1>0, <1>6, <2>3
      <3>2. Pos(x + 1) = p - 1
        BY <1>6, <3>1
      <3>3. q = p \/ (q \in p + 1 .. W - 1 /\ q \in 0 .. W - 1 /\ q # p /\ q # p - 1)
        BY <1>0, <2>1, <3>1, <3>2
      <3>4. CASE q = p
        BY <1>1, <1>2, <3>1, <3>4
      <3>5. CASE q # p
        BY <1>1, <1>2, <1>3, <3>1, <3>3, <3>5
      <3>6. QED
        BY <3>4, <3>5
    <2>4. QED
      BY <2>2, <2>3
  <1>12. QED
    BY <1>9, <1>10, <1>11 DEF u

\* A vertex without load is met by no edge, and is not the start.
LEMMA Unloaded ==
  ASSUME NEW S \in SUBSET DOMAIN Edges, NEW y, Load(S, y) = 0
  PROVE  ~Met(S, y) /\ y # Start
  <1>1. Deg(S, y) \in Nat /\ (Met(S, y) <=> Deg(S, y) # 0)
    BY MetDeg
  <1>2. QED
    BY <1>1 DEF Load

\* So it is at one position of the front only.
LEMMA FreshAt ==
  ASSUME NEW x \in Nat, NEW q \in 0 .. W - 1, NEW S \in SUBSET DOMAIN Edges, Load(S, Places(x)[q]) = 0
  PROVE  Fresh(S, Places(x), q)
  <1>1. ~Met(S, Places(x)[q]) /\ Places(x)[q] # Start
    BY Unloaded
  <1>2. \A r \in 0 .. W : r # q => Places(x)[r] # Places(x)[q]
    BY <1>1, FrontDistinct
  <1>3. QED
    BY <1>1, <1>2 DEF Fresh

\* The edge to the right, if it is chosen, is what the word says.
LEMMA LinkedRight ==
  ASSUME NEW x \in V, x # Target, NEW t, ChoiceRight(x, t), NEW c \in Allowed(x, t), c[2]
  PROVE  Linked(t.S \cup Right(x), Places(x), Open(c[1]), Pairs(c[1]))
  <1> DEFINE p == Pos(x)
             f == Places(x)
             m == t.m
             S == t.S
             k == c[1]
  <1>1. x \in Nat /\ W \in Nat /\ W > 1
    BY EdgesFrom, WAssumption
  <1>2. /\ S \in SUBSET DOMAIN Edges /\ m \in Words(W) /\ t \in Chosen
        /\ Linked(S, f, Open(m), Pairs(m))
    BY DEF ChoiceRight, Chosen
  <1>3. p \in 1 .. W - 1 /\ k \in Including(m, p) /\ p > 0 /\ ~t.b
    BY <1>1, <1>2, MoveIs
  <1>4. PICK i \in DOMAIN Edges : Right(x) = {i} /\ Ends(i) = {x, x + 1}
    BY <1>3, EdgesFrom
  <1>5. f[p] = x /\ f[p - 1] = x + 1 /\ p \in 0 .. W - 1 /\ p - 1 \in 0 .. W - 1
    <2>1. p \in 0 .. W - 1 /\ p - 1 \in 0 .. W - 1
      BY <1>1, <1>3
    <2> HIDE DEF p
    <2>2. QED
      BY <1>1, <1>3, <2>1, FrontType DEF p
  <1>6. /\ x \in x .. x + W - 1 /\ x + 1 \in x .. x + W - 1 /\ x + 1 \in Nat /\ x + 1 # x
        /\ Pos(x + 1) = p - 1
    BY <1>1, <1>3, PosAt
  <1>7. m[p] = "N" => Load(S, f[p]) = 0
    BY <1>1, <1>3, <1>5, <1>6 DEF ChoiceRight, LoadsRight, BlockRight
  <1>8. m[p - 1] = "N" => Load(S, f[p - 1]) = 0
    BY <1>1, <1>3, <1>5, <1>6 DEF ChoiceRight, LoadsRight
  <1>9. m[p] = "N" => Fresh(S, f, p)
    <2> DEFINE q == p
    <2>1. q \in 0 .. W - 1
      BY <1>5
    <2> HIDE DEF S, p
    <2>2. QED
      BY <1>1, <1>2, <1>7, <2>1, FreshAt
  <1>10. m[p - 1] = "N" => Fresh(S, f, p - 1)
    <2> DEFINE q == p - 1
    <2>1. q \in 0 .. W - 1
      BY <1>5
    <2> HIDE DEF S, p, q
    <2>2. Load(S, Places(x)[q]) = 0 => Fresh(S, Places(x), q)
      BY <1>1, <1>2, <2>1, FreshAt
    <2>3. QED
      BY <1>8, <2>2 DEF q
  <1>11. Ends(i) = {f[p], f[p - 1]}
    BY <1>4, <1>5
  <1> HIDE DEF S, p, f, k, m
  <1>12. Linked(S \cup {i}, f, Open(k), Pairs(k))
    BY <1>2, <1>3, <1>9, <1>10, <1>11, IncludeLinked
  <1>13. QED
    BY <1>4, <1>12 DEF S, f, k

\* And so with the edge below.
LEMMA LinkedStep ==
  ASSUME NEW x \in V, x # Target, NEW t, ChoiceRight(x, t), NEW c \in Allowed(x, t)
  PROVE  Linked(After(x, t, c).S, Places(x + 1), Open(c[1]), Pairs(c[1]))
  <1> DEFINE p == Pos(x)
             f == Places(x)
             g == Places(x + 1)
             k == c[1]
             r == c[2]
             w == c[1][Pos(x)] # "N"
             S == t.S
             T == Decided(t.S, x, r, FALSE)
             U == Decided(t.S, x, r, w)
             z == x + W
  <1>1. x \in Nat /\ W \in Nat /\ W > 1 /\ z \in Nat /\ p \in 0 .. W - 1 /\ x + 1 \in Nat
    <2>1. x \in Nat /\ W \in Nat /\ W > 1
      BY EdgesFrom, WAssumption
    <2>2. QED
      BY <2>1, PosType
  <1>2. /\ S \in SUBSET Before(x) /\ t \in Chosen /\ Linked(S, f, Open(t.m), Pairs(t.m)) /\ Load(S, z) = 0
    <2>1. z >= z
      BY <1>1
    <2>2. QED
      BY <1>1, <2>1 DEF ChoiceRight, LoadsRight
  <1>3. k \in Words(W) /\ r \in BOOLEAN /\ (~r => k = t.m) /\ (r => p > 0) /\ (x >= LastRow => k[p] = "N")
    BY <1>1, <1>2, MoveIs
  <1>4. After(x, t, c).S = U
    BY DEF After
  <1>5. T = (IF r THEN S \cup Right(x) ELSE S) /\ U = (IF w THEN T \cup Down(x) ELSE T)
    BY DEF Decided
  <1>6. Linked(T, f, Open(k), Pairs(k))
    <2>1. CASE r
      BY <1>5, <2>1, LinkedRight
    <2>2. CASE ~r
      BY <1>2, <1>3, <1>5, <2>2
    <2>3. QED
      BY <1>3, <2>1, <2>2
  <1>7. ~Met(T, z)
    <2> DEFINE d == FALSE
               X == Decided(S, x, r, d)
               A(y) == Hit(r /\ (y = x \/ y = x + 1))
               B(y) == Hit(d /\ (y = x \/ y = x + W))
    <2>1. (r => Pos(x) > 0) /\ d \in BOOLEAN /\ (d => x < LastRow)
      BY <1>3
    <2>2. A(z) = 0 /\ B(z) = 0
      BY <1>1 DEF Hit
    <2>2a. X = T
      BY DEF S
    <2> HIDE DEF S, r, d, T, z
    <2>3. /\ X \in SUBSET Before(x + 1)
          /\ \A y \in Nat : Load(S, y) \in Nat /\ Load(X, y) = Load(S, y) + A(y) + B(y)
      BY <1>2, <1>3, <2>1, LoadStep DEF Hit
    <2> HIDE DEF X, A, B
    <2>4. X \in SUBSET DOMAIN Edges
      BY <2>3 DEF Before
    <2>5. Load(X, z) = 0
      BY <1>1, <1>2, <2>2, <2>3
    <2>6. QED
      BY <2>2a, <2>4, <2>5, Unloaded
  <1>8. g[p] = z /\ \A q \in 0 .. W : q # p => g[q] = f[q]
    BY <1>1, FrontStep
  <1>9. Open(k) = {q \in 0 .. W - 1 : k[q] # "N"} \cup {W} /\ Pairs(k) \subseteq Open(k) \X Open(k)
        /\ Open(k) \subseteq 0 .. W
    BY <1>3, LineOf, PairsAre
  <1>10. CASE w
    <2>1. x < LastRow /\ LastRow \in Nat
      <3>1. LastRow \in Nat
        BY EdgesFrom
      <3>2. QED
        BY <1>1, <1>3, <1>10, <3>1
    <2>2. PICK i \in DOMAIN Edges : Down(x) = {i} /\ Ends(i) = {x, x + W}
      BY <2>1, EdgesFrom
    <2>3. p \in Open(k) /\ f[p] = x
      BY <1>1, <1>9, <1>10, FrontType
    <2>4. \A q \in 0 .. W : f[q] # z
      <3>1. \A q \in 0 .. W - 1 : f[q] \in x .. x + W - 1
        BY <1>1, FrontType
      <3>2. f[W] = 0
        BY <1>1, FrontType DEF Start
      <3>3. QED
        BY <1>1, <3>1, <3>2
    <2>5. Ends(i) = {f[p], z}
      BY <2>2, <2>3
    <2> HIDE DEF p, f, g, k, T, z
    <2>6. Linked(T \cup {i}, g, Open(k), Pairs(k))
      BY <1>3, <1>6, <1>7, <1>8, <2>3, <2>4, <2>5, LinkedDrop
    <2>7. QED
      BY <1>4, <1>5, <1>10, <2>2, <2>6 DEF g, k
  <1>11. CASE ~w
    <2>1. p \notin Open(k)
      BY <1>1, <1>9, <1>11
    <2>2. \A q \in Open(k) : g[q] = f[q]
      BY <1>8, <1>9, <2>1
    <2> HIDE DEF p, f, g, k, T, z
    <2>3. Linked(T, g, Open(k), Pairs(k))
      BY <1>6, <1>9, <2>2, LinkedSame
    <2>4. QED
      BY <1>4, <1>5, <1>11, <2>3 DEF g, k
  <1>12. QED
    BY <1>10, <1>11

\* A move makes a right choice of a right choice.
LEMMA StepRight ==
  ASSUME NEW x \in V, x # Target, NEW t, ChoiceRight(x, t), NEW c \in Allowed(x, t)
  PROVE  ChoiceRight(x + 1, After(x, t, c))
  <1>1. /\ After(x, t, c) \in Chosen /\ After(x, t, c).S \subseteq Before(x + 1) /\ After(x, t, c).m = c[1]
    BY MoveLoads
  <1>2. LoadsRight(x + 1, After(x, t, c)) /\ BlockRight(x + 1, After(x, t, c)) /\ NoneBelow(x + 1, After(x, t, c))
    BY LoadsStep
  <1>3. Linked(After(x, t, c).S, Places(x + 1), Open(After(x, t, c).m), Pairs(After(x, t, c).m))
    BY <1>1, LinkedStep
  <1>4. QED
    BY <1>1, <1>2, <1>3 DEF ChoiceRight

-----------------------------------------------------------------------------
\* The word before the first edge: the path ends at the start, in the first column.
FirstWord == [q \in 0 .. W - 1 |-> IF q = W - 1 THEN "R" ELSE "N"]
Begin == [S |-> {}, m |-> FirstWord, b |-> FALSE]

\* It is a word, with a line that is one at the top only.
LEMMA FirstWordIs ==
  /\ FirstWord \in Words(W)
  /\ \A q \in 0 .. W - 1 : Height(FirstWord, W, q) = 0
  <1>1. W \in Nat /\ W > 1
    BY WAssumption
  <1> DEFINE m == FirstWord
             H(q) == Height(m, W, q)
  <1>2. H(W) = 1 /\ (\A q \in 0 .. W : H(q) \in Int) /\ \A q \in 0 .. W - 1 : H(q) = H(q + 1) + Val(m[q])
    BY <1>1, HeightStep
  <1>3. m \in [0 .. W - 1 -> {"N", "R", "L"}] /\ m[W - 1] = "R" /\ \A q \in 0 .. W - 2 : m[q] = "N"
    BY <1>1 DEF FirstWord
  <1> HIDE DEF H, m
  <1>4. H(W - 1) = 0
    <2>1. W - 1 \in 0 .. W - 1 /\ W - 1 + 1 = W
      BY <1>1
    <2>2. H(W - 1) = H(W - 1 + 1) + Val(m[W - 1])
      BY <1>2, <2>1
    <2>3. QED
      BY <1>2, <1>3, <2>1, <2>2 DEF Val
  \* The greatest position where it is not zero cannot be.
  <1>5. ASSUME NEW q \in 0 .. W - 1 PROVE H(q) = 0
    <2> DEFINE B == {d \in Nat : d <= W - 1 /\ H(W - 1 - d) # 0}
    <2>1. SUFFICES ASSUME B # {} PROVE FALSE
      <3>1. W - 1 - q \in Nat /\ W - 1 - q <= W - 1 /\ W - 1 - (W - 1 - q) = q
        BY <1>1
      <3>2. W - 1 - q \notin B
        BY <2>1
      <3>3. QED
        BY <3>1, <3>2
    <2>2. PICK d \in B : \A e \in B : d <= e
      BY <2>1, NatMin
    <2>3. d \in Nat /\ d <= W - 1 /\ H(W - 1 - d) # 0
      BY <2>2
    <2>4. d # 0
      BY <1>1, <1>4, <2>3
    <2>5. d - 1 \in Nat /\ d - 1 <= W - 1 /\ W - 1 - (d - 1) = (W - 1 - d) + 1 /\ W - 1 - d \in 0 .. W - 2
          /\ W - 1 - d \in 0 .. W - 1
      BY <1>1, <2>3, <2>4
    <2>6. d - 1 \notin B
      BY <2>2, <2>3
    <2>7. H((W - 1 - d) + 1) = 0
      BY <2>5, <2>6
    <2>8. H(W - 1 - d) = H((W - 1 - d) + 1) + Val(m[W - 1 - d])
      BY <1>2, <2>5
    <2>9. Val(m[W - 1 - d]) = 0
      BY <1>3, <2>5 DEF Val
    <2>10. QED
      BY <2>3, <2>7, <2>8, <2>9
  <1>6. 0 \in 0 .. W - 1
    BY <1>1
  <1>7. H(0) = 0 /\ \A q \in 0 .. W - 1 : H(q) >= 0
    BY <1>5, <1>6
  <1>8. QED
    BY <1>3, <1>5, <1>7 DEF H, m, Words

\* The beginning is a right choice.
LEMMA BeginRight == ChoiceRight(0, Begin)
  <1> DEFINE m == FirstWord
             t == Begin
  <1>0. W \in Nat /\ W > 1 /\ 0 \in Nat /\ W * W \in Nat /\ W * (W - 1) > 0
    <2>1. W \in Nat /\ W > 1
      BY WAssumption
    <2>2. W * W \in Nat /\ W * (W - 1) > 0
      BY <2>1
    <2>3. QED
      BY <2>1, <2>2
  <1>1. m \in Words(W) /\ \A q \in 0 .. W - 1 : m[q] = IF q = W - 1 THEN "R" ELSE "N"
    BY FirstWordIs DEF FirstWord
  <1>2. t.S = {} /\ t.m = m /\ t.b = FALSE
    BY DEF Begin
  <1>3. t \in Chosen
    BY <1>1 DEF Begin, Chosen
  <1>4. 0 % W = 0 /\ Pos(0) = W - 1
    <2>1. 0 = W * 0 + 0 /\ 0 \in 0 .. W - 1 /\ W \in Nat \ {0}
      BY <1>0
    <2>2. 0 % W = 0
      BY <2>1, ModUnique
    <2>3. QED
      BY <1>0, <2>2 DEF Pos
  <1>5. \A y : Load({}, y) = IF y = Start THEN 1 ELSE 0
    <2>1. \A y : Deg({}, y) = 0
      BY MetDeg
    <2>2. QED
      BY <2>1 DEF Load
  <1>6. LoadsRight(0, t)
    <2>1. SUFFICES ASSUME NEW y \in Nat
          PROVE  /\ y < 0 => Load({}, y) \in {0, 2}
                 /\ y >= 0 + W => Load({}, y) = 0
                 /\ y \in 0 .. 0 + W - 1 => IF m[Pos(y)] # "N" THEN Load({}, y) = 1
                                            ELSE Load({}, y) = 0 \/ (y = 0 /\ Load({}, y) = 2)
      BY <1>2 DEF LoadsRight
    <2>2. y \in 0 .. W - 1 => Pos(y) \in 0 .. W - 1 /\ (Pos(y) = W - 1 <=> y = 0)
      <3>1. y \in 0 .. W - 1 => y \in 0 .. 0 + W - 1
        BY <1>0
      <3>2. QED
        BY <1>0, <1>4, <3>1, PosAt
    <2>3. QED
      BY <1>0, <1>1, <1>5, <2>2 DEF Start
  <1>7. BlockRight(0, t)
    BY <1>0, <1>1, <1>2, <1>4 DEF BlockRight
  <1>8. NoneBelow(0, t)
    BY <1>0 DEF NoneBelow, LastRow
  <1>9. Linked({}, Places(0), Open(m), Pairs(m))
    <2> DEFINE f == Places(0)
    <2>1. Open(m) = {W - 1, W}
      <3>1. Open(m) = {q \in 0 .. W - 1 : m[q] # "N"} \cup {W}
        BY <1>1, LineOf
      <3>2. {q \in 0 .. W - 1 : m[q] # "N"} = {W - 1}
        BY <1>0, <1>1
      <3>3. QED
        BY <3>1, <3>2
    <2>2. f[W] = Start /\ f[W - 1] = Start
      <3>1. f[W] = Start /\ f[Pos(0)] = 0
        BY <1>0, FrontType
      <3>2. QED
        BY <1>4, <3>1 DEF Start
    <2>3. \A z : ~Met({}, z)
      BY DEF Met
    <2>4. Pairs(m) \subseteq Open(m) \X Open(m)
      BY <1>1, PairsAre
    <2>5. Sealed({}, {Start})
      BY DEF Sealed
    <2> HIDE DEF f, m
    <2>6. Reaches({}, f, Open(m))
      BY <2>3 DEF Reaches
    <2>7. \A e \in Pairs(m) : f[e[1]] = Start /\ f[e[2]] = Start /\ e[1] \in {W - 1, W} /\ e[2] \in {W - 1, W}
      BY <2>1, <2>2, <2>4
    <2>8. Keeps({}, f, Pairs(m))
      BY <2>7 DEF Keeps
    <2>9. ASSUME NEW e \in Pairs(m) PROVE \A r \in Open(m) : r \in {e[1], e[2]}
      <3>1. e[1] # e[2]
        BY <1>1, PairsAre DEF Pairing
      <3>2. QED
        BY <2>1, <2>7, <3>1
    <2>10. Parts({}, f, Open(m), Pairs(m))
      <3>1. ASSUME NEW e \in Pairs(m)
            PROVE  Sealed({}, {Start}) /\ \A r \in Open(m) : f[r] \in {Start} <=> r \in {e[1], e[2]}
        <4>1. \A r \in Open(m) : f[r] = Start
          BY <2>1, <2>2
        <4>2. QED
          BY <2>5, <2>9, <4>1
      <3>2. QED
        BY <3>1 DEF Parts
    <2>11. QED
      BY <2>6, <2>8, <2>10 DEF Linked, f
  <1>10. QED
    BY <1>2, <1>3, <1>6, <1>7, <1>8, <1>9 DEF ChoiceRight

-----------------------------------------------------------------------------
(***************************************************************************)
(* The choices that can be reached.                                        *)
(***************************************************************************)
Onwards(x, t) == {After(x, t, c) : c \in Allowed(x, t)}
NextChoices(x, T) == UNION {Onwards(x, t) : t \in T}

IsReached(f) == /\ f \in [V -> SUBSET Chosen] /\ f[0] = {Begin}
                /\ \A x \in V \ {Target} : f[x + 1] = NextChoices(x, f[x])
Reached == CHOOSE f : IsReached(f)

\* The vertices are numbered.
LEMMA Numbers ==
  /\ W \in Nat /\ W > 1 /\ W * W \in Nat /\ Target \in Nat /\ Target = W * W - 1 /\ V = 0 .. Target /\ 0 \in V
  /\ LastRow \in Nat /\ LastRow = W * W - W /\ W <= LastRow /\ LastRow < Target /\ LastRow \in V /\ Target \in V
  <1>1. W \in Nat /\ W > 1
    BY WAssumption
  <1>2. W * W \in Nat /\ W * (W - 1) = W * W - W /\ W * W - W >= W
    BY <1>1
  <1>3. QED
    BY <1>1, <1>2 DEF V, Target, LastRow

\* What holds of vertex 0, and of each next one, holds of all.
LEMMA VertexByVertex ==
  ASSUME NEW B, 0 \in B, \A x \in V \ {Target} : x \in B => x + 1 \in B
  PROVE  V \subseteq B
  <1> DEFINE N == {x \in V : x \notin B}
  <1>1. SUFFICES ASSUME N # {} PROVE FALSE
    OBVIOUS
  <1>2. N \in SUBSET Nat
    BY Numbers
  <1>3. PICK x \in N : \A y \in N : x <= y
    BY <1>1, <1>2, NatMin
  <1>4. x \in V /\ x \notin B /\ x # 0 /\ x \in Nat
    BY <1>2, <1>3
  <1>5. x - 1 \in V \ {Target} /\ (x - 1) + 1 = x /\ ~(x <= x - 1)
    BY <1>4, Numbers
  <1>6. x - 1 \in B
    BY <1>3, <1>5
  <1>7. QED
    BY <1>4, <1>5, <1>6

\* A move leads to a choice.
LEMMA OnwardsType ==
  ASSUME NEW x \in Nat, NEW t \in Chosen
  PROVE  Onwards(x, t) \subseteq Chosen
  <1>1. SUFFICES ASSUME NEW c \in Allowed(x, t) PROVE After(x, t, c) \in Chosen
    BY DEF Onwards
  <1>2. c[1] \in Words(W) /\ c[2] \in BOOLEAN
    BY MoveIs
  <1>3. Decided(t.S, x, c[2], c[1][Pos(x)] # "N") \in SUBSET DOMAIN Edges
    BY DEF Decided, Right, Down, Chosen
  <1>4. (c[2] /\ Pos(x) > 1 /\ t.m[Pos(x) - 1] # "N") \in BOOLEAN
    BY <1>2
  <1>5. QED
    BY <1>2, <1>3, <1>4 DEF After, Chosen

\* So the table of what is reached exists.
LEMMA ReachedDef == IsReached(Reached)
  <1> DEFINE R == SUBSET Chosen
             n == Target
             step == [s \in R \X (1 .. n) |-> NextChoices(s[2] - 1, s[1])]
  <1>1. n \in Nat /\ V = 0 .. n
    BY Numbers
  <1>2. {Begin} \in R
    BY BeginRight DEF ChoiceRight
  <1>3. step \in [R \X (1 .. n) -> R]
    <2>1. ASSUME NEW s \in R \X (1 .. n) PROVE NextChoices(s[2] - 1, s[1]) \in R
      <3>1. s[1] \in R /\ s[2] - 1 \in Nat
        BY <1>1, <2>1
      <3>2. \A t \in s[1] : Onwards(s[2] - 1, t) \subseteq Chosen
        BY <3>1, OnwardsType
      <3>3. QED
        BY <3>2 DEF NextChoices
    <2>2. QED
      BY <2>1
  <1>4. \A T \in R, y \in 1 .. n : step[<<T, y>>] = NextChoices(y - 1, T)
    OBVIOUS
  <1> HIDE DEF step, R, n
  <1>5. PICK f \in [0 .. n -> R] : Iterates(f, n, {Begin}, step)
    BY <1>1, <1>2, <1>3, IterExists
  <1>6. ASSUME NEW x \in V \ {Target} PROVE f[x + 1] = NextChoices(x, f[x])
    <2>1. x + 1 \in 1 .. n /\ (x + 1) - 1 = x /\ x \in 0 .. n
      BY <1>1 DEF n
    <2>2. f[x + 1] = step[<<f[(x + 1) - 1], x + 1>>]
      BY <1>5, <2>1 DEF Iterates
    <2>3. f[x] \in R
      BY <1>5, <2>1
    <2>4. step[<<f[x], x + 1>>] = NextChoices((x + 1) - 1, f[x])
      BY <1>4, <2>1, <2>3
    <2>5. QED
      BY <2>1, <2>2, <2>4
  <1>7. IsReached(f)
    BY <1>1, <1>5, <1>6 DEF IsReached, Iterates, R
  <1>8. QED
    BY <1>7 DEF Reached

\* Each choice reached is right.
LEMMA ReachedRight == \A x \in V : \A t \in Reached[x] : ChoiceRight(x, t)
  <1> DEFINE B == {x \in V : \A t \in Reached[x] : ChoiceRight(x, t)}
  <1>1. 0 \in B
    BY BeginRight, ReachedDef, Numbers DEF IsReached
  <1>2. ASSUME NEW x \in V \ {Target}, x \in B PROVE x + 1 \in B
    <2>1. Reached[x + 1] = NextChoices(x, Reached[x]) /\ x + 1 \in V
      BY ReachedDef, EdgesFrom DEF IsReached
    <2>2. ASSUME NEW u \in Reached[x + 1] PROVE ChoiceRight(x + 1, u)
      <3>1. PICK t \in Reached[x] : u \in Onwards(x, t)
        BY <2>1 DEF NextChoices
      <3>2. PICK c \in Allowed(x, t) : u = After(x, t, c)
        BY <3>1 DEF Onwards
      <3>3. QED
        BY <1>2, <3>2, StepRight
    <2>3. QED
      BY <2>1, <2>2
  <1> HIDE DEF B
  <1>3. V \subseteq B
    BY <1>1, <1>2, VertexByVertex
  <1>4. QED
    BY <1>3 DEF B

-----------------------------------------------------------------------------
\* The pairs of ends are determined by the edges.
LEMMA SamePairs ==
  ASSUME NEW S, NEW f, NEW O, NEW K, NEW L, Linked(S, f, O, K), Linked(S, f, O, L), Pairing(O, K), Pairing(O, L)
  PROVE  K \subseteq L
  <1>1. ASSUME NEW e \in K PROVE e \in L
    <2>1. e \in O \X O /\ e[1] \in O /\ e[2] \in O /\ e = <<e[1], e[2]>> /\ e[1] # e[2]
      BY DEF Pairing
    <2>2. PICK v \in O : <<e[1], v>> \in L
      BY <2>1 DEF Pairing
    <2>3. v # e[1]
      <3>1. <<e[1], v>>[1] # <<e[1], v>>[2]
        BY <2>2 DEF Pairing
      <3>2. QED
        BY <3>1
    <2>4. PICK D : Sealed(S, D) /\ \A r \in O : f[r] \in D <=> r \in {e[1], e[2]}
      BY DEF Linked, Parts
    <2>5. f[e[1]] \in D <=> f[v] \in D
      <3>1. f[<<e[1], v>>[1]] \in D <=> f[<<e[1], v>>[2]] \in D
        BY <2>2, <2>4 DEF Linked, Keeps
      <3>2. QED
        BY <3>1
    <2>6. v = e[2]
      BY <2>1, <2>3, <2>4, <2>5
    <2>7. QED
      BY <2>1, <2>2, <2>6
  <1>2. QED
    BY <1>1

\* A letter says on which side its partner is.
LEMMA SideOf ==
  ASSUME NEW m \in Words(W), NEW q \in 0 .. W - 1
  PROVE  /\ m[q] = "L" <=> \E r \in 0 .. W : <<q, r>> \in Pairs(m) /\ r < q
         /\ m[q] = "R" <=> \E r \in 0 .. W : <<q, r>> \in Pairs(m) /\ q < r
  <1> DEFINE h == Line(m)
  <1>1. /\ Profile(h, W + 1) /\ W \in Nat /\ W > 1 /\ m[q] \in Letters /\ h[q] = h[q + 1] + Val(m[q])
        /\ \A r \in 0 .. W + 1 : h[r] \in Nat
    BY LineOf
  <1>2. \A x, y \in 0 .. W : <<x, y>> \in Pairs(m) <=> Arc(h, x, y) \/ Arc(h, y, x)
    BY PairsAre
  <1>3. /\ q \in 0 .. W /\ q \in 0 .. (W + 1) - 1 /\ h[q] \in Nat /\ h[q + 1] \in Nat /\ W + 1 \in Nat
        /\ 0 .. (W + 1) - 1 = 0 .. W
    BY <1>1
  <1>4. (m[q] = "L" <=> h[q] > h[q + 1]) /\ (m[q] = "R" <=> h[q + 1] > h[q])
    BY <1>1, <1>3 DEF Letters, Val
  <1> HIDE DEF h
  <1>5. ASSUME NEW x \in 0 .. W, NEW y \in 0 .. W, Arc(h, x, y)
        PROVE  h[x] > h[x + 1] /\ h[y + 1] > h[y] /\ y < x
    <2>1. h[x] > h[x + 1] /\ h[y + 1] > h[y]
      BY <1>1, <1>3, <1>5, ArcTaken
    <2>2. QED
      BY <1>5, <2>1 DEF Arc
  <1>6. h[q] > h[q + 1] => \E r \in 0 .. W : <<q, r>> \in Pairs(m) /\ r < q
    <2>1. SUFFICES ASSUME h[q] > h[q + 1] PROVE \E r \in 0 .. W : <<q, r>> \in Pairs(m) /\ r < q
      OBVIOUS
    <2>2. PICK y \in 0 .. (W + 1) - 1 : Arc(h, q, y)
      BY <1>1, <1>3, <2>1, ArcOfL
    <2>3. QED
      BY <1>2, <1>3, <1>5, <2>2
  <1>7. h[q + 1] > h[q] => \E r \in 0 .. W : <<q, r>> \in Pairs(m) /\ q < r
    <2>1. SUFFICES ASSUME h[q + 1] > h[q] PROVE \E r \in 0 .. W : <<q, r>> \in Pairs(m) /\ q < r
      OBVIOUS
    <2>2. PICK x \in 0 .. (W + 1) - 1 : Arc(h, x, q)
      BY <1>1, <1>3, <2>1, ArcOfR
    <2>3. QED
      BY <1>2, <1>3, <1>5, <2>2
  <1>8. ASSUME NEW r \in 0 .. W, <<q, r>> \in Pairs(m)
        PROVE  (r < q => h[q] > h[q + 1]) /\ (q < r => h[q + 1] > h[q])
    <2>1. Arc(h, q, r) \/ Arc(h, r, q)
      BY <1>2, <1>3, <1>8
    <2>2. CASE Arc(h, q, r)
      <3>1. h[q] > h[q + 1] /\ r < q
        BY <1>3, <1>5, <2>2
      <3>2. ~(q < r)
        BY <1>3, <3>1
      <3>3. QED
        BY <3>1, <3>2
    <2>3. CASE Arc(h, r, q)
      <3>1. h[q + 1] > h[q] /\ q < r
        BY <1>3, <1>5, <2>3
      <3>2. ~(r < q)
        BY <1>3, <3>1
      <3>3. QED
        BY <3>1, <3>2
    <2>4. QED
      BY <2>1, <2>2, <2>3
  <1>9. QED
    BY <1>4, <1>6, <1>7, <1>8

\* Words with the same pairs are the same.
LEMMA PairsInjective ==
  ASSUME NEW m \in Words(W), NEW t \in Words(W), Pairs(m) = Pairs(t)
  PROVE  m = t
  <1>1. W \in Nat /\ m \in [0 .. W - 1 -> Letters] /\ t \in [0 .. W - 1 -> Letters]
    BY WAssumption DEF Words, Letters
  <1>2. ASSUME NEW q \in 0 .. W - 1 PROVE m[q] = t[q]
    <2>1. (m[q] = "L" <=> t[q] = "L") /\ (m[q] = "R" <=> t[q] = "R")
      <3>1. /\ m[q] = "L" <=> \E r \in 0 .. W : <<q, r>> \in Pairs(m) /\ r < q
            /\ m[q] = "R" <=> \E r \in 0 .. W : <<q, r>> \in Pairs(m) /\ q < r
        BY SideOf
      <3>2. /\ t[q] = "L" <=> \E r \in 0 .. W : <<q, r>> \in Pairs(t) /\ r < q
            /\ t[q] = "R" <=> \E r \in 0 .. W : <<q, r>> \in Pairs(t) /\ q < r
        BY SideOf
      <3>3. QED
        BY <3>1, <3>2
    <2>2. m[q] \in Letters /\ t[q] \in Letters
      BY <1>1
    <2>3. QED
      BY <2>1, <2>2 DEF Letters
  <1>3. QED
    BY <1>1, <1>2

\* A choice is determined by its edges.
LEMMA ChoiceOnce ==
  ASSUME NEW x \in V, NEW t, NEW u, ChoiceRight(x, t), ChoiceRight(x, u), t.S = u.S
  PROVE  t = u
  <1>0. x \in Nat /\ W \in Nat /\ W > 1
    BY Numbers
  <1>1. t \in Chosen /\ u \in Chosen /\ t.m \in Words(W) /\ u.m \in Words(W) /\ t.b \in BOOLEAN /\ u.b \in BOOLEAN
    BY DEF ChoiceRight, Chosen
  <1>2. ASSUME NEW v, ChoiceRight(x, v), NEW q \in 0 .. W - 1
        PROVE  v.m[q] # "N" <=> Load(v.S, Places(x)[q]) = 1
    <2> DEFINE y == Places(x)[q]
    <2>1. y \in x .. x + W - 1 /\ Pos(y) = q /\ y \in Nat
      BY <1>0, FrontType
    <2> HIDE DEF y
    <2>2. IF v.m[Pos(y)] # "N" THEN Load(v.S, y) = 1 ELSE Load(v.S, y) = 0 \/ (y = x /\ Load(v.S, y) = 2)
      BY <1>2, <2>1 DEF ChoiceRight, LoadsRight
    <2>3. QED
      BY <2>1, <2>2 DEF y
  <1>3. \A q \in 0 .. W - 1 : t.m[q] # "N" <=> u.m[q] # "N"
    BY <1>2
  <1>4. Open(t.m) = Open(u.m)
    <2>1. /\ Open(t.m) = {q \in 0 .. W - 1 : t.m[q] # "N"} \cup {W}
          /\ Open(u.m) = {q \in 0 .. W - 1 : u.m[q] # "N"} \cup {W}
      BY <1>1, LineOf
    <2>2. QED
      BY <1>3, <2>1
  <1>5. /\ Linked(t.S, Places(x), Open(t.m), Pairs(t.m)) /\ Linked(t.S, Places(x), Open(t.m), Pairs(u.m))
        /\ Pairing(Open(t.m), Pairs(t.m)) /\ Pairing(Open(t.m), Pairs(u.m))
    BY <1>1, <1>4, PairsAre DEF ChoiceRight
  <1> DEFINE K == Pairs(t.m)
             L == Pairs(u.m)
             O == Open(t.m)
  <1>6. K = L
    <2> HIDE DEF K, L, O
    <2>1. K \subseteq L
      BY <1>5, SamePairs DEF K, L, O
    <2>2. L \subseteq K
      BY <1>5, SamePairs DEF K, L, O
    <2>3. QED
      BY <2>1, <2>2
  <1>7. t.m = u.m
    BY <1>1, <1>6, PairsInjective
  <1>8. t.b <=> u.b
    BY <1>7 DEF ChoiceRight, BlockRight
  <1>9. QED
    BY <1>1, <1>7, <1>8 DEF Chosen

-----------------------------------------------------------------------------
(***************************************************************************)
(* Every path is reached: each of its edges is chosen when it is its turn. *)
(***************************************************************************)
\* With its start counted at its end, a path has no edge or two at each vertex but the target.
LEMMA ShapeLoad ==
  ASSUME NEW S, Shape(S)
  PROVE  /\ S \in SUBSET DOMAIN Edges
         /\ \A y \in V : Load(S, y) \in Nat /\ Load(S, y) <= 2 /\ (y # Target => Load(S, y) \in {0, 2})
         /\ Load(S, Target) = 1
  <1>1. /\ S \in SUBSET DOMAIN Edges /\ S # {}
        /\ \A x \in V : Deg(S, x) \in Nat /\ Deg(S, x) <= MaxDegree(x)
        /\ \A x \in V \ Terminals : Deg(S, x) # 1
    BY DEF Shape
  <1>2. Start \in V /\ Target \in V /\ Start # Target /\ Terminals = {Start, Target}
    BY TerminalsType
  <1>3. Met(S, Start) /\ Met(S, Target)
    <2> DEFINE D == {z \in V : Met(S, z)}
    <2>1. PICK i \in S : TRUE
      BY <1>1
    <2>2. \A j \in S : Edges[j][1] \in D /\ Edges[j][2] \in D
      <3>1. ASSUME NEW j \in S PROVE Edges[j][1] \in D /\ Edges[j][2] \in D
        <4>1. Ends(j) \subseteq V
          BY <1>1, EndsOnce
        <4>2. Edges[j][1] \in Ends(j) /\ Edges[j][2] \in Ends(j)
          BY DEF Ends
        <4>3. QED
          BY <4>1, <4>2 DEF Met
      <3>2. QED
        BY <3>1
    <2>3. Sealed(S, D)
      BY <2>2 DEF Sealed
    <2>4. Edges[i][1] \in D /\ Met(S, Edges[i][1])
      BY <2>1, <2>2
    <2>5. Terminals \subseteq D
      <3> HIDE DEF D
      <3>1. QED
        BY <2>3, <2>4 DEF Shape
    <2>6. QED
      BY <1>2, <2>5
  <1>4. Deg(S, Start) # 0 /\ Deg(S, Target) # 0
    BY <1>1, <1>3, MetDeg
  <1>5. \A x : MaxDegree(x) = IF x \in {Start, Target} THEN 1 ELSE 2
    BY DEF MaxDegree
  <1>6. Deg(S, Start) = 1 /\ Deg(S, Target) = 1
    BY <1>1, <1>2, <1>4, <1>5
  <1>7. ASSUME NEW y \in V PROVE Load(S, y) \in Nat /\ Load(S, y) <= 2 /\ (y # Target => Load(S, y) \in {0, 2})
    <2>1. CASE y = Start
      BY <1>6, <2>1 DEF Load
    <2>2. CASE y = Target
      BY <1>2, <1>6, <2>2 DEF Load
    <2>3. CASE y # Start /\ y # Target
      <3>1. Deg(S, y) \in Nat /\ Deg(S, y) <= 2 /\ Deg(S, y) # 1
        BY <1>1, <1>2, <1>5, <2>3
      <3>2. Load(S, y) = Deg(S, y)
        BY <2>3, <3>1 DEF Load
      <3>3. QED
        BY <3>1, <3>2
    <2>4. QED
      BY <2>1, <2>2, <2>3
  <1>8. Load(S, Target) = 1
    BY <1>2, <1>6 DEF Load
  <1>9. QED
    BY <1>1, <1>7, <1>8

\* The edges at a vertex are all decided after its turn.
LEMMA LoadFinal ==
  ASSUME NEW S \in SUBSET DOMAIN Edges, NEW x \in V, x # Target
  PROVE  Load(S \cap Before(x + 1), x) = Load(S, x)
  <1>1. \A i \in S : i \in Touching(x) <=> x \in Ends(i)
    BY AtVertex
  <1>2. \A i \in DOMAIN Edges : x \in Ends(i) => i \in Before(x + 1)
    BY EdgesFrom
  <1>3. (S \cap Before(x + 1)) \cap Touching(x) = S \cap Touching(x)
    BY <1>1, <1>2
  <1>4. QED
    BY <1>3 DEF Load, Deg

\* The edges of a path among the first ones, with x's.
LEMMA DecideShape ==
  ASSUME NEW S \in SUBSET DOMAIN Edges, NEW x \in V, x # Target
  PROVE  \A r, d \in BOOLEAN : (r <=> Right(x) \cap S # {}) /\ (d <=> Down(x) \cap S # {}) =>
            /\ (r => Pos(x) > 0) /\ (d => x < LastRow)
            /\ S \cap Before(x + 1) = Decided(S \cap Before(x), x, r, d)
  <1> SUFFICES ASSUME NEW right \in BOOLEAN, NEW down \in BOOLEAN,
                      right <=> Right(x) \cap S # {}, down <=> Down(x) \cap S # {}
               PROVE  /\ (right => Pos(x) > 0) /\ (down => x < LastRow)
                      /\ S \cap Before(x + 1) = Decided(S \cap Before(x), x, right, down)
    OBVIOUS
  <1>1. x \in Nat /\ W \in Nat /\ W > 1 /\ LastRow \in Nat /\ Pos(x) \in Nat
    <2>1. x \in Nat /\ W \in Nat /\ W > 1 /\ LastRow \in Nat
      BY Numbers
    <2>2. QED
      BY <2>1, PosType
  <1>2. /\ Pos(x) > 0 => \E i \in DOMAIN Edges : Right(x) = {i} /\ Ends(i) = {x, x + 1}
        /\ Pos(x) = 0 => Right(x) = {}
        /\ x < LastRow => \E i \in DOMAIN Edges : Down(x) = {i} /\ Ends(i) = {x, x + W}
        /\ x >= LastRow => Down(x) = {}
        /\ Before(x + 1) = Before(x) \cup Right(x) \cup Down(x)
    BY EdgesFrom
  <1>3. (right => Pos(x) > 0) /\ (down => x < LastRow)
    <2>1. Right(x) # {} => Pos(x) > 0
      BY <1>1, <1>2
    <2>2. Down(x) # {} => x < LastRow
      BY <1>1, <1>2
    <2>3. QED
      BY <2>1, <2>2
  <1>4. S \cap Right(x) = (IF right THEN Right(x) ELSE {}) /\ S \cap Down(x) = (IF down THEN Down(x) ELSE {})
    <2>1. \A a, b \in Right(x) : a = b
      BY <1>1, <1>2
    <2>2. \A a, b \in Down(x) : a = b
      BY <1>1, <1>2
    <2>3. QED
      BY <2>1, <2>2
  <1>5. S \cap Before(x + 1) = (S \cap Before(x)) \cup (S \cap Right(x)) \cup (S \cap Down(x))
    BY <1>2
  <1>6. QED
    BY <1>3, <1>4, <1>5 DEF Decided

\* A path does not close a cycle: its edge to the right joins no ends that are connected.
LEMMA NoCycle ==
  ASSUME NEW S, Shape(S), NEW x \in V, x # Target, NEW t, ChoiceRight(x, t), t.S = S \cap Before(x),
         Right(x) \cap S # {}
  PROVE  ~(t.m[Pos(x)] = "L" /\ t.m[Pos(x) - 1] = "R")
  <1> DEFINE p == Pos(x)
             f == Places(x)
             m == t.m
             h == Line(m)
             T == t.S
  <1>1. SUFFICES ASSUME m[p] = "L", m[p - 1] = "R" PROVE FALSE
    OBVIOUS
  <1>2. x \in Nat /\ W \in Nat /\ W > 1 /\ V = 0 .. Target /\ Target \in Nat
    BY Numbers
  <1>3. /\ S \in SUBSET DOMAIN Edges
        /\ \A y \in V : Load(S, y) \in Nat /\ Load(S, y) <= 2
    BY ShapeLoad
  <1>4. /\ p > 0
        /\ \E i \in S : Right(x) = {i} /\ Ends(i) = {x, x + 1}
    <2>1. p \in Nat
      BY <1>2, PosType
    <2>2. /\ p > 0 => \E i \in DOMAIN Edges : Right(x) = {i} /\ Ends(i) = {x, x + 1}
          /\ p = 0 => Right(x) = {}
      BY EdgesFrom
    <2>3. QED
      BY <2>1, <2>2
  <1>5. PICK i \in S : Right(x) = {i} /\ Ends(i) = {x, x + 1}
    BY <1>4
  <1>6. p \in 1 .. W - 1 /\ p \in 0 .. W - 1 /\ p - 1 \in 0 .. W - 1 /\ p \in 0 .. W /\ p - 1 \in 0 .. W /\ p # W /\ p - 1 # W
    <2>1. p \in 0 .. W - 1
      BY <1>2, PosType
    <2>2. QED
      BY <1>2, <1>4, <2>1
  <1>7. m \in Words(W) /\ T \in SUBSET DOMAIN Edges /\ T \in SUBSET Before(x) /\ T = S \cap Before(x)
        /\ Linked(T, f, Open(m), Pairs(m))
    BY DEF ChoiceRight, Chosen
  <1>8. /\ Open(m) = {q \in 0 .. W - 1 : m[q] # "N"} \cup {W}
        /\ \A q \in 0 .. W + 1 : h[q] \in Nat
        /\ \A q \in 0 .. W - 1 : h[q] = h[q + 1] + Val(m[q])
    BY <1>7, LineOf
  <1>9. p \in Open(m) /\ p - 1 \in Open(m) /\ W \in Open(m)
    BY <1>1, <1>6, <1>8
  <1>10. <<p, p - 1>> \in Pairs(m)
    <2>1. h[p] = h[p + 1] + 1
      BY <1>1, <1>6, <1>8 DEF Val
    <2>1a. Val("R") = -1 /\ (p - 1) + 1 = p
      BY <1>6 DEF Val
    <2>1b. h[p - 1] = h[(p - 1) + 1] + Val(m[p - 1])
      BY <1>6, <1>8
    <2>2. h[p - 1] = h[p] + (-1)
      BY <1>1, <2>1a, <2>1b
    <2>2a. p \in 0 .. W + 1 /\ p + 1 \in 0 .. W + 1 /\ p - 1 \in 0 .. W + 1
      BY <1>2, <1>6
    <2>3. h[p] \in Nat /\ h[p + 1] \in Nat /\ h[p - 1] \in Nat
      BY <1>8, <2>2a
    <2>4. h[p - 1] = h[p + 1] /\ h[p] > h[p - 1]
      BY <2>1, <2>2, <2>3
    <2>5. p - 1 < p /\ (p - 1) + 1 .. p = {p}
      BY <1>6
    <2>6. Arc(h, p, p - 1)
      BY <2>4, <2>5 DEF Arc
    <2>7. QED
      BY <1>6, <1>7, <2>6, PairsAre
  <1>11. f[p] = x /\ f[p - 1] = x + 1 /\ f[W] = Start
    BY <1>2, <1>6, FrontType
  <1>12. Ends(i) = {f[p], f[p - 1]}
    BY <1>5, <1>11
  <1> DEFINE U == T \cup {i}
             q1 == p - 1
  <1>13. PICK D : /\ Sealed(U, D) /\ x \in D
                  /\ \A r \in Open(m) : r # p /\ r # p - 1 => f[r] \notin D
    <2>1. Linked(T, f, Open(m), Pairs(m)) /\ p \in Open(m) /\ q1 \in Open(m) /\ <<p, q1>> \in Pairs(m)
          /\ Ends(i) = {f[p], f[q1]}
      BY <1>7, <1>9, <1>10, <1>12
    <2> HIDE DEF T, f, p, q1, m
    <2>2. \E D : Sealed(T \cup {i}, D) /\ f[p] \in D /\ \A r \in Open(m) : r # p /\ r # q1 => f[r] \notin D
      BY <2>1, LinkedCycle
    <2>3. QED
      BY <1>11, <2>2 DEF q1
  <1>14. /\ U \in SUBSET DOMAIN Edges
         /\ \A y \in Nat : /\ Load(T, y) \in Nat
                           /\ Load(U, y) = Load(T, y) + (IF y = x \/ y = x + 1 THEN 1 ELSE 0)
    <2> DEFINE r == TRUE
               d == FALSE
               X == Decided(T, x, r, d)
               A(y) == Hit(r /\ (y = x \/ y = x + 1))
               B(y) == Hit(d /\ (y = x \/ y = x + W))
    <2>1. r \in BOOLEAN /\ d \in BOOLEAN /\ (r => Pos(x) > 0) /\ (d => x < LastRow)
      BY <1>4
    <2>2. X = U
      BY <1>5 DEF Decided
    <2>2a. \A y : A(y) = (IF y = x \/ y = x + 1 THEN 1 ELSE 0) /\ B(y) = 0
      BY DEF Hit
    <2> HIDE DEF T, U, r, d, m, f, p
    <2>3. \A y \in Nat : Load(T, y) \in Nat /\ Load(X, y) = Load(T, y) + A(y) + B(y)
      BY <1>7, <2>1, LoadStep DEF Hit
    <2> HIDE DEF X, A, B
    <2>4. \A y \in Nat : Load(T, y) \in Nat /\ Load(X, y) = Load(T, y) + (IF y = x \/ y = x + 1 THEN 1 ELSE 0)
      <3>1. ASSUME NEW y \in Nat
            PROVE  Load(T, y) \in Nat /\ Load(X, y) = Load(T, y) + (IF y = x \/ y = x + 1 THEN 1 ELSE 0)
        <4> DEFINE a == IF y = x \/ y = x + 1 THEN 1 ELSE 0
        <4>1. Load(T, y) \in Nat /\ Load(X, y) = Load(T, y) + a + 0 /\ a \in Nat
          BY <2>2a, <2>3
        <4> HIDE DEF a
        <4>2. Load(X, y) = Load(T, y) + a
          BY <4>1
        <4>3. QED
          BY <4>1, <4>2 DEF a
      <3>2. QED
        BY <3>1
    <2>5. U \in SUBSET DOMAIN Edges
      BY <1>3, <1>7 DEF U
    <2>6. QED
      BY <2>2, <2>4, <2>5
  <1>15. /\ \A y \in Nat : /\ y >= x + W => Load(T, y) = 0
                           /\ y \in x .. x + W - 1 => IF m[Pos(y)] # "N" THEN Load(T, y) = 1
                                                      ELSE Load(T, y) = 0 \/ (y = x /\ Load(T, y) = 2)
    BY DEF ChoiceRight, LoadsRight
  <1>16. /\ x \in x .. x + W - 1 /\ x + 1 \in x .. x + W - 1 /\ x + 1 \in Nat /\ x + 1 # x /\ Pos(x + 1) = p - 1
         /\ \A y \in x .. x + W - 1 : /\ Pos(y) \in 0 .. W - 1 /\ f[Pos(y)] = y
                                      /\ (Pos(y) = p <=> y = x) /\ (Pos(y) = p - 1 <=> y = x + 1)
    <2>1. x \in x .. x + W - 1
      BY <1>2
    <2>2. /\ x + 1 \in x .. x + W - 1 /\ x + 1 \in Nat /\ x + 1 # x /\ Pos(x + 1) = p - 1
      BY <1>2, <1>6, <2>1, PosAt
    <2>3. \A y \in x .. x + W - 1 : Pos(y) \in 0 .. W - 1 /\ f[Pos(y)] = y
      BY <1>2, FrontType
    <2>4. ASSUME NEW y \in x .. x + W - 1 PROVE (Pos(y) = p <=> y = x) /\ (Pos(y) = p - 1 <=> y = x + 1)
      <3>1. Pos(x) > 0
        BY <1>6
      <3>2. (Pos(y) = Pos(x) <=> y = x) /\ (Pos(y) = Pos(x) - 1 <=> y = x + 1)
        BY <1>2, <3>1, PosAt
      <3>3. QED
        BY <3>2
    <2>5. QED
      BY <2>1, <2>2, <2>3, <2>4
  <1>17. Load(U, x) = 2 /\ Load(U, x + 1) = 2
    <2>1. Load(T, x) = 1 /\ Load(T, x + 1) = 1
      <3>1. m[Pos(x)] # "N" /\ m[Pos(x + 1)] # "N"
        BY <1>1, <1>16
      <3>2. QED
        BY <1>2, <1>15, <1>16, <3>1
    <2>2. Load(U, x) = Load(T, x) + 1 /\ Load(U, x + 1) = Load(T, x + 1) + 1
      BY <1>2, <1>14, <1>16
    <2>3. QED
      BY <2>1, <2>2
  <1>18. U \subseteq S
    BY <1>7
  \* An edge that is yet to come has no end in the cycle.
  <1>19. ASSUME NEW j \in S, j \notin U, NEW z \in Ends(j), z \in D, Met(U, z) PROVE FALSE
    <2>1. /\ j \in DOMAIN Edges /\ z \in V /\ z \in Nat /\ z \in {Edges[j][1], Edges[j][2]}
          /\ Edges[j][1] \in Nat /\ Edges[j][2] \in Nat /\ Edges[j][1] < Edges[j][2]
      <3>1. j \in DOMAIN Edges /\ Edges[j] \in V \X V /\ Edges[j][1] < Edges[j][2]
        BY <1>3, EdgesAre
      <3>2. QED
        BY <1>2, <1>19, <3>1 DEF Ends
    <2>2. ~(z < x)
      <3>1. SUFFICES ASSUME z < x PROVE FALSE
        OBVIOUS
      <3>2. Edges[j][1] < x
        BY <1>2, <2>1, <3>1
      <3>3. j \in T
        BY <1>7, <2>1, <3>2 DEF Before
      <3>4. QED
        BY <1>19, <3>3
    <2>3. Load(U, z) <= 1 /\ Load(U, z) # 0
      <3>1. Deg(U, z) \in Nat /\ Deg(U \cup {j}, z) = Deg(U, z) + 1
        BY <1>14, <1>19, <2>1, DegStep
      <3>2. U \cup {j} \in SUBSET S
        BY <1>18
      <3>3. Deg(U \cup {j}, z) <= Deg(S, z) /\ Deg(S, z) \in Nat
        BY <1>3, <3>2, DegGrows
      <3>4. Load(S, z) <= 2
        BY <1>3, <2>1
      <3>5. Load(U, z) # 0
        BY <1>14, <1>19, Unloaded
      <3> HIDE DEF U
      <3>6. Load(U, z) = Deg(U, z) + (IF z = Start THEN 1 ELSE 0) /\ Load(S, z) = Deg(S, z) + (IF z = Start THEN 1 ELSE 0)
        BY DEF Load
      <3>7. QED
        BY <3>1, <3>3, <3>4, <3>5, <3>6
    <2>4. z # x /\ z # x + 1
      BY <1>17, <2>3
    <2>5. Load(U, z) = Load(T, z) /\ Load(T, z) \in Nat
      <3>1. Load(T, z) \in Nat /\ Load(U, z) = Load(T, z) + (IF z = x \/ z = x + 1 THEN 1 ELSE 0)
        BY <1>14, <2>1
      <3> HIDE DEF T, U
      <3>2. Load(U, z) = Load(T, z) + 0
        BY <2>4, <3>1
      <3>3. QED
        BY <3>1, <3>2
    <2>6. z \in x .. x + W - 1
      BY <1>2, <1>15, <2>1, <2>2, <2>3, <2>5
    <2>7. m[Pos(z)] # "N"
      BY <1>15, <2>1, <2>3, <2>4, <2>5, <2>6
    <2>8. Pos(z) \in Open(m) /\ f[Pos(z)] = z /\ Pos(z) # p /\ Pos(z) # p - 1
      BY <1>8, <1>16, <2>4, <2>6, <2>7
    <2>9. QED
      BY <1>13, <1>19, <2>8
  <1> DEFINE C == {z \in D : Met(U, z)}
  <1>20. Sealed(S, C)
    <2>1. SUFFICES ASSUME NEW j \in S PROVE Edges[j][1] \in C <=> Edges[j][2] \in C
      BY DEF Sealed
    <2>2. Edges[j][1] \in Ends(j) /\ Edges[j][2] \in Ends(j)
      BY DEF Ends
    <2>3. CASE j \in U
      <3>1. Met(U, Edges[j][1]) /\ Met(U, Edges[j][2])
        BY <2>2, <2>3 DEF Met
      <3>2. Edges[j][1] \in D <=> Edges[j][2] \in D
        BY <1>13, <2>3 DEF Sealed
      <3>3. QED
        BY <3>1, <3>2
    <2>4. CASE j \notin U
      <3> HIDE DEF U
      <3>1. \A z \in Ends(j) : ~(z \in D /\ Met(U, z))
        BY <1>19, <2>4
      <3>2. QED
        BY <2>2, <3>1
    <2>5. QED
      BY <2>3, <2>4
  <1>21. x \in C /\ Met(S, x)
    <2>1. i \in U /\ x \in Ends(i)
      BY <1>5
    <2>2. Met(U, x) /\ Met(S, x)
      BY <1>18, <2>1 DEF Met
    <2>3. QED
      BY <1>13, <2>2
  <1>22. Terminals \subseteq C
    <2> HIDE DEF C
    <2>1. QED
      BY <1>20, <1>21 DEF Shape
  <1>23. Start \in D
    BY <1>22, TerminalsType
  <1>24. QED
    BY <1>6, <1>9, <1>11, <1>13, <1>23

\* At each vertex there is a move that decides its edges as the path has them.
LEMMA ShapeMove ==
  ASSUME NEW S, Shape(S), NEW x \in V, x # Target, NEW t, ChoiceRight(x, t), t.S = S \cap Before(x)
  PROVE  \E c \in Allowed(x, t) : After(x, t, c).S = S \cap Before(x + 1)
  <1> DEFINE p == Pos(x)
             m == t.m
             T == t.S
             right == Right(x) \cap S # {}
             down == Down(x) \cap S # {}
             a == Load(T, x)
  <1>1. /\ x \in Nat /\ W \in Nat /\ W > 1 /\ LastRow \in Nat /\ p \in 0 .. W - 1 /\ x \in x .. x + W - 1
        /\ m \in Words(W) /\ T \in SUBSET Before(x) /\ t \in Chosen
    <2>1. x \in Nat /\ W \in Nat /\ W > 1 /\ LastRow \in Nat
      BY Numbers
    <2>2. QED
      BY <2>1, PosType DEF ChoiceRight, Chosen
  <1>2. S \in SUBSET DOMAIN Edges /\ Load(S, x) \in {0, 2}
    BY ShapeLoad
  <1>3. /\ right \in BOOLEAN /\ down \in BOOLEAN /\ (right => p > 0) /\ (down => x < LastRow)
        /\ S \cap Before(x + 1) = Decided(T, x, right, down)
    <2>1. /\ right \in BOOLEAN /\ (right <=> Right(x) \cap S # {})
          /\ down \in BOOLEAN /\ (down <=> Down(x) \cap S # {}) /\ S \in SUBSET DOMAIN Edges
      BY <1>2
    <2> HIDE DEF right, down
    <2>2. /\ right \in BOOLEAN /\ down \in BOOLEAN /\ (right => Pos(x) > 0) /\ (down => x < LastRow)
          /\ S \cap Before(x + 1) = Decided(S \cap Before(x), x, right, down)
      <3>1. \A r, d \in BOOLEAN : (r <=> Right(x) \cap S # {}) /\ (d <=> Down(x) \cap S # {}) =>
               /\ (r => Pos(x) > 0) /\ (d => x < LastRow)
               /\ S \cap Before(x + 1) = Decided(S \cap Before(x), x, r, d)
        <4> HIDE DEF p, m, T, a
        <4>1. S \in SUBSET DOMAIN Edges
          BY <1>2
        <4>2. QED
          BY <4>1, DecideShape
      <3>2. QED
        BY <2>1, <3>1
    <2>3. T = S \cap Before(x)
      OBVIOUS
    <2> HIDE DEF T
    <2>4. QED
      BY <2>2, <2>3
  <1>4. a + Hit(right) + Hit(down) \in {0, 2} /\ a \in Nat
    <2> DEFINE X == Decided(T, x, right, down)
               A(y) == Hit(right /\ (y = x \/ y = x + 1))
               B(y) == Hit(down /\ (y = x \/ y = x + W))
    <2>1. A(x) = Hit(right) /\ B(x) = Hit(down)
      BY DEF Hit
    <2>2. Load(X, x) = Load(S, x)
      <3>1. Load(S \cap Before(x + 1), x) = Load(S, x)
        BY <1>2, LoadFinal
      <3>2. QED
        BY <1>3, <3>1
    <2> HIDE DEF T, right, down, m, p
    <2>3. \A y \in Nat : Load(T, y) \in Nat /\ Load(X, y) = Load(T, y) + A(y) + B(y)
      BY <1>1, <1>3, LoadStep DEF Hit, p
    <2> HIDE DEF X, A, B
    <2>4. QED
      BY <1>1, <1>2, <2>1, <2>2, <2>3
  <1>5. /\ IF m[p] # "N" THEN a = 1 ELSE a = 0 \/ a = 2
        /\ t.b => m[p] = "N" /\ p > 0
        /\ m[p] = "N" /\ p > 0 => (t.b <=> a = 2)
    BY <1>1 DEF ChoiceRight, LoadsRight, BlockRight
  <1>6. SUFFICES \E c \in Moves(x, t) : c[2] = right /\ ((c[1][p] # "N") <=> down)
    <2>1. PICK c \in Moves(x, t) : c[2] = right /\ ((c[1][p] # "N") <=> down)
      BY <1>6
    <2>2. c \in Allowed(x, t)
      BY <1>1, <1>3, <2>1 DEF Allowed
    <2>3. After(x, t, c).S = Decided(T, x, right, down)
      BY <2>1 DEF After
    <2>4. QED
      BY <1>3, <2>2, <2>3
  <1>7. CASE ~right
    <2>1. <<m, FALSE>> \in Moves(x, t)
      BY DEF Moves
    <2>2. (m[p] # "N") <=> down
      <3>1. Hit(right) = 0 /\ Hit(down) = IF down THEN 1 ELSE 0
        BY <1>7 DEF Hit
      <3> HIDE DEF a, right, down, m, p
      <3>2. QED
        BY <1>3, <1>4, <1>5, <3>1
    <2>3. <<m, FALSE>>[1] = m /\ <<m, FALSE>>[2] = FALSE
      OBVIOUS
    <2>4. QED
      BY <1>7, <2>1, <2>2, <2>3
  <1>8. CASE right
    <2>1. Hit(right) = 1 /\ Hit(down) = IF down THEN 1 ELSE 0
      BY <1>8 DEF Hit
    <2>2. p > 0 /\ p \in 1 .. W - 1
      BY <1>1, <1>3, <1>8
    <2>3. a # 2
      <3> HIDE DEF a, right, down, m, p
      <3>1. QED
        BY <1>3, <1>4, <2>1
    <2>4. ~t.b
      BY <1>5, <2>3
    <2>5. ~(m[p] = "L" /\ m[p - 1] = "R")
      BY <1>8, NoCycle
    <2>6. PICK d : Including(m, p) = {d}
      <3> HIDE DEF m, p
      <3>1. QED
        BY <1>1, <2>2, <2>5, IncludingOnce
    <2>7. d[p] # "N" <=> m[p] = "N"
      <3>1. d \in Including(m, p)
        BY <2>6
      <3> HIDE DEF m, p
      <3>2. QED
        BY <1>1, <2>2, <3>1, Toggled
    <2>8. <<d, TRUE>> \in Moves(x, t)
      BY <2>2, <2>4, <2>6 DEF Moves
    <2>9. (d[p] # "N") <=> down
      <3> HIDE DEF a, right, down, m, p
      <3>1. QED
        BY <1>3, <1>4, <1>5, <2>1, <2>3, <2>7
    <2>10. <<d, TRUE>>[1] = d /\ <<d, TRUE>>[2] = TRUE
      OBVIOUS
    <2>11. QED
      BY <1>8, <2>8, <2>9, <2>10
  <1>9. QED
    BY <1>7, <1>8

\* So each path has a choice at every vertex.
LEMMA ShapeReached ==
  ASSUME NEW S, Shape(S)
  PROVE  \A x \in V : \E t \in Reached[x] : t.S = S \cap Before(x)
  <1> DEFINE B == {x \in V : \E t \in Reached[x] : t.S = S \cap Before(x)}
  <1>1. 0 \in B
    <2>1. Reached[0] = {Begin} /\ 0 \in V
      BY ReachedDef, Numbers DEF IsReached
    <2>2. S \cap Before(0) = {}
      <3>1. ASSUME NEW i \in Before(0) PROVE FALSE
        <4>1. i \in DOMAIN Edges /\ Edges[i][1] < 0
          BY <3>1 DEF Before
        <4>2. Edges[i] \in V \X V
          BY <4>1, EdgesAre
        <4>3. QED
          BY <4>1, <4>2, Numbers
      <3>2. QED
        BY <3>1
    <2>3. Begin.S = {}
      BY DEF Begin
    <2>4. QED
      BY <2>1, <2>2, <2>3
  <1>2. ASSUME NEW x \in V \ {Target}, x \in B PROVE x + 1 \in B
    <2>1. PICK t \in Reached[x] : t.S = S \cap Before(x)
      BY <1>2
    <2>2. ChoiceRight(x, t)
      BY <2>1, ReachedRight
    <2>3. PICK c \in Allowed(x, t) : After(x, t, c).S = S \cap Before(x + 1)
      BY <2>1, <2>2, ShapeMove
    <2>4. After(x, t, c) \in Reached[x + 1] /\ x + 1 \in V
      <3>1. Reached[x + 1] = NextChoices(x, Reached[x]) /\ x + 1 \in V
        BY ReachedDef, EdgesFrom DEF IsReached
      <3>2. After(x, t, c) \in Onwards(x, t)
        BY <2>3 DEF Onwards
      <3>3. QED
        BY <2>1, <3>1, <3>2 DEF NextChoices
    <2>5. QED
      BY <2>3, <2>4
  <1> HIDE DEF B
  <1>3. V \subseteq B
    BY <1>1, <1>2, VertexByVertex
  <1>4. QED
    BY <1>3 DEF B

-----------------------------------------------------------------------------
\* What is reached at the target is a path.
LEMMA TargetShape ==
  ASSUME NEW t \in Reached[Target]
  PROVE  Shape(t.S)
  <1> DEFINE S == t.S
             m == t.m
             f == Places(Target)
  <1>1. /\ W \in Nat /\ W > 1 /\ Target \in Nat /\ V = 0 .. Target /\ LastRow \in Nat /\ LastRow < Target
        /\ Target \in V /\ Target = W * W - 1 /\ W * W \in Nat /\ LastRow = W * W - W
    BY Numbers
  <1>2. ChoiceRight(Target, t)
    BY <1>1, ReachedRight
  <1>3. /\ S \in SUBSET DOMAIN Edges /\ m \in Words(W) /\ Linked(S, f, Open(m), Pairs(m))
        /\ Target >= LastRow
    BY <1>1, <1>2 DEF ChoiceRight, Chosen
  <1>4. Pos(Target) = 0
    <2> DEFINE a == W - 1
               T == Target
    <2>1. T = W * a + a /\ a \in 0 .. W - 1 /\ a \in Int /\ T \in Int /\ W \in Nat \ {0}
      BY <1>1
    <2> HIDE DEF a, T
    <2>2. T % W = a
      BY <2>1, ModUnique
    <2>3. QED
      BY <1>1, <2>2 DEF Pos, a, T
  <1>5. \A q \in 1 .. W - 1 : m[q] = "N"
    BY <1>1, <1>2, <1>4 DEF ChoiceRight, NoneBelow
  <1>6. /\ \A q \in 0 .. W - 1 : m[q] \in Letters /\ Height(m, W, q) = Height(m, W, q + 1) + Val(m[q])
        /\ Height(m, W, 0) = 0 /\ Height(m, W, W) = 1 /\ \A q \in 0 .. W : Height(m, W, q) \in Nat
    <2> HIDE DEF m
    <2>1. W <= W
      BY <1>1
    <2>2. QED
      BY <1>1, <1>3, <2>1, WordType
  \* Above the last position there is no change, so what is left is the R there.
  <1>7. m[0] # "N"
    <2>1. SUFFICES ASSUME m[0] = "N" PROVE FALSE
      OBVIOUS
    <2>2. \A q \in 0 .. W - 1 : m[q] = "N"
      BY <1>1, <1>5, <2>1
    <2> HIDE DEF m
    <2>3. Bal(m, 0, W) = 0
      <3>1. \A i \in 0 .. W - 1 : m[i] # "L" /\ m[i] # "R"
        BY <2>2
      <3>2. {i \in 0 .. W - 1 : m[i] = "L"} = {} /\ {i \in 0 .. W - 1 : m[i] = "R"} = {}
        BY <3>1
      <3>3. Count(m, 0 .. W - 1, "L") = 0 /\ Count(m, 0 .. W - 1, "R") = 0
        BY <3>2, FS_EmptySet DEF Count
      <3>4. QED
        BY <3>3 DEF Bal
    <2>4. Height(m, W, 0) = Height(m, W, W) + Bal(m, 0, W)
      <3>1. 0 \in 0 .. W /\ W \in 0 .. W /\ 0 <= W
        BY <1>1
      <3>2. QED
        BY <1>1, <3>1, HeightFrom
    <2>5. QED
      BY <1>6, <2>3, <2>4
  <1>8. \A y \in Nat : /\ y < Target => Load(S, y) \in {0, 2}
                       /\ y = Target => Load(S, y) = 1
    <2>1. \A y \in Nat : /\ y < Target => Load(S, y) \in {0, 2}
                         /\ y \in Target .. Target + W - 1 => IF m[Pos(y)] # "N" THEN Load(S, y) = 1
                                                              ELSE Load(S, y) = 0 \/ (y = Target /\ Load(S, y) = 2)
      BY <1>2 DEF ChoiceRight, LoadsRight
    <2>2. Target \in Target .. Target + W - 1
      BY <1>1
    <2>3. QED
      BY <1>4, <1>7, <2>1, <2>2
  <1>9. \A y \in V : Deg(S, y) \in Nat /\ Deg(S, y) = Load(S, y) - (IF y = Start THEN 1 ELSE 0)
    <2>1. \A y : Deg(S, y) \in Nat
      <3> HIDE DEF S
      <3>1. QED
        BY <1>3, MetDeg
    <2>2. \A y : Deg(S, y) + (IF y = Start THEN 1 ELSE 0) - (IF y = Start THEN 1 ELSE 0) = Deg(S, y)
      BY <2>1
    <2>3. QED
      BY <2>1, <2>2 DEF Load
  <1>10. Start = 0 /\ Terminals = {Start, Target} /\ Start # Target /\ Start \in V
    BY TerminalsType DEF Start
  <1>11. /\ Deg(S, Start) = 1 /\ Deg(S, Target) = 1
         /\ \A y \in V : y # Start /\ y # Target => Deg(S, y) \in {0, 2}
    <2>1. Deg(S, Target) = 1
      BY <1>1, <1>8, <1>9, <1>10
    <2>2. Deg(S, Start) = Load(S, Start) - 1 /\ Load(S, Start) \in {0, 2} /\ Deg(S, Start) \in Nat
      <3>1. Start < Target /\ Start \in Nat
        BY <1>1, <1>10
      <3>2. QED
        BY <1>8, <1>9, <1>10, <3>1
    <2>3. ASSUME NEW y \in V, y # Start, y # Target PROVE Deg(S, y) \in {0, 2}
      <3>1. y \in Nat /\ y < Target
        BY <1>1, <2>3
      <3>2. Deg(S, y) = Load(S, y) - 0 /\ Load(S, y) \in {0, 2}
        BY <1>8, <1>9, <2>3, <3>1
      <3>3. QED
        BY <3>2
    <2>4. QED
      BY <2>1, <2>2, <2>3
  <1>12. \A y \in V : Deg(S, y) \in Nat /\ Deg(S, y) <= MaxDegree(y)
    <2>1. ASSUME NEW y \in V PROVE Deg(S, y) \in Nat /\ Deg(S, y) <= MaxDegree(y)
      <3>1. MaxDegree(y) = IF y = Start \/ y = Target THEN 1 ELSE 2
        BY DEF MaxDegree
      <3> HIDE DEF S
      <3>2. QED
        BY <1>11, <3>1
    <2>2. QED
      BY <2>1
  <1>13. \A y \in V \ Terminals : Deg(S, y) # 1
    BY <1>10, <1>11
  <1>14. S # {}
    <2>1. Deg({}, Target) = 0
      BY MetDeg
    <2>2. QED
      BY <1>11, <2>1
  <1>15. ASSUME NEW D, Sealed(S, D), NEW z \in D, Met(S, z) PROVE Terminals \subseteq D
    <2>1. Open(m) = {0, W}
      <3>1. Open(m) = {q \in 0 .. W - 1 : m[q] # "N"} \cup {W}
        BY <1>3, LineOf
      <3>2. {q \in 0 .. W - 1 : m[q] # "N"} = {0}
        BY <1>1, <1>5, <1>7
      <3>3. QED
        BY <3>1, <3>2
    <2>2. f[0] = Target /\ f[W] = Start
      BY <1>1, <1>4, FrontType
    <2>3. <<0, W>> \in Pairs(m)
      <3>1. Pairing(Open(m), Pairs(m))
        BY <1>3, PairsAre
      <3>2. PICK v \in Open(m) : <<0, v>> \in Pairs(m)
        BY <2>1, <3>1 DEF Pairing
      <3>3. <<0, v>>[1] # <<0, v>>[2]
        BY <3>1, <3>2 DEF Pairing
      <3>4. QED
        BY <2>1, <3>2, <3>3
    <2>4. \E q \in Open(m) : f[q] \in D
      BY <1>3, <1>15 DEF Linked, Reaches
    <2>5. f[<<0, W>>[1]] \in D <=> f[<<0, W>>[2]] \in D
      BY <1>3, <1>15, <2>3 DEF Linked, Keeps
    <2>6. Target \in D /\ Start \in D
      BY <2>1, <2>2, <2>4, <2>5
    <2>7. QED
      BY <1>10, <2>6
  <1>16. QED
    BY <1>3, <1>12, <1>13, <1>14, <1>15 DEF Shape

\* All edges are decided then.
LEMMA BeforeTarget == Before(Target) = DOMAIN Edges
  <1>1. ASSUME NEW i \in DOMAIN Edges PROVE Edges[i][1] < Target
    <2>1. Edges[i] \in V \X V /\ Edges[i][1] < Edges[i][2]
      BY EdgesAre
    <2>2. QED
      BY <2>1, Numbers
  <1>2. QED
    BY <1>1 DEF Before

(***************************************************************************)
(* The choices reached at the target are the paths: each is one, with its  *)
(* edges, and each path is reached once.                                   *)
(***************************************************************************)
THEOREM ReachedPaths == /\ IsFiniteSet(Reached[Target])
                      /\ Cardinality(Reached[Target]) = PathTotal
  <1> DEFINE R == Reached[Target]
             g == [t \in R |-> t.S]
  <1>1. Target \in V
    BY Numbers
  <1>2. \A t \in R : t.S \in Wholes
    BY TargetShape, ShapeIsWhole
  <1>3. \A t, u \in R : t.S = u.S => t = u
    BY <1>1, ReachedRight, ChoiceOnce
  <1>4. \A S \in Wholes : \E t \in R : t.S = S
    <2>1. ASSUME NEW S \in Wholes PROVE \E t \in R : t.S = S
      <3>1. Shape(S)
        BY ShapeIsWhole
      <3>2. \E t \in R : t.S = S \cap Before(Target)
        BY <1>1, <3>1, ShapeReached
      <3>3. S \cap Before(Target) = S
        BY <3>1, BeforeTarget DEF Shape
      <3>4. QED
        BY <3>2, <3>3
    <2>2. QED
      BY <2>1
  <1> HIDE DEF R
  <1>5. /\ g \in [R -> Wholes]
        /\ \A t, u \in R : g[t] = g[u] => t = u
        /\ \A S \in Wholes : \E t \in R : g[t] = S
    BY <1>2, <1>3, <1>4
  <1> HIDE DEF g
  <1>6. IsFiniteSet(Wholes)
    <2>1. IsFiniteSet(Alive(LastEdge))
      BY WaysFinite, ActiveLast
    <2>2. QED
      BY <2>1, FS_Subset DEF Wholes
  <1>7. IsFiniteSet(R)
    <2>1. g \in Injection(R, Wholes)
      BY <1>5 DEF Injection, IsInjective
    <2>2. QED
      BY <1>6, <2>1, FS_Injection
  <1>8. Cardinality(Wholes) = Cardinality(R)
    BY <1>5, <1>7, SameSize
  <1>9. QED
    BY <1>7, <1>8, TotalWholes DEF R

-----------------------------------------------------------------------------
(***************************************************************************)
(* What a window adds up. WindowSteps goes through the cells that Flow     *)
(* lists and reduces the sum at each; it comes to the same to add up at    *)
(* one edge after the other.                                               *)
(***************************************************************************)
\* The recursive function in Flow exists and satisfies its definition.
LEMMA FlowDef ==
  ASSUME NEW p_hi \in 1 .. W - 1, NEW p_lo \in 1 .. p_hi
  PROVE  \E f : Flow(p_hi, p_lo) = f[p_lo] /\ \A p \in p_lo .. p_hi : f[p] = FlowAt(f, p_hi, p)
  <1> DEFINE Solves(f, l) == f = [p \in l .. p_hi |-> FlowAt(f, p_hi, p)]
             Bad == {k \in Nat : p_hi - k >= p_lo /\ ~\E f : Solves(f, p_hi - k)}
  <1>0. p_hi \in Nat /\ p_lo \in Nat /\ p_lo <= p_hi /\ p_lo >= 1
    BY GridAssumption
  <1>1. Bad = {}
    <2>1. SUFFICES ASSUME Bad # {} PROVE FALSE
      OBVIOUS
    <2>2. PICK k \in Bad : \A j \in Bad : k <= j
      <3>1. Bad \in SUBSET Nat
        OBVIOUS
      <3> HIDE DEF Bad
      <3>2. QED
        BY <2>1, <3>1, NatMin
    <2> DEFINE l == p_hi - k
    <2>3. l \in Nat /\ l >= p_lo /\ l <= p_hi /\ ~\E f : Solves(f, l)
      BY <1>0, <2>2
    <2>4. CASE k = 0
      <3> DEFINE f == [p \in p_hi .. p_hi |-> Sources[p]]
      <3>1. \A p \in p_hi .. p_hi : FlowAt(f, p_hi, p) = Sources[p]
        BY <1>0 DEF FlowAt
      <3>2. Solves(f, p_hi)
        BY <3>1
      <3>3. l = p_hi
        BY <1>0, <2>4
      <3> HIDE DEF l, Solves, f
      <3>4. QED
        BY <2>3, <3>2, <3>3
    <2>5. CASE k # 0
      <3>1. k - 1 \in Nat /\ ~(k <= k - 1) /\ p_hi - (k - 1) = l + 1 /\ l + 1 >= p_lo /\ l # p_hi /\ l + 1 <= p_hi
            /\ l \in l .. p_hi /\ l + 1 \in l .. p_hi /\ l \in Nat /\ l < p_hi
        BY <1>0, <2>2, <2>5
      <3>2. k - 1 \notin Bad
        BY <2>2, <3>1
      <3>3. PICK h : Solves(h, l + 1)
        BY <3>1, <3>2
      <3> HIDE DEF l
      <3> DEFINE first == FlowAt(h, p_hi, l)
                 f == [p \in l .. p_hi |-> IF p = l THEN first ELSE h[p]]
      <3>4. \A p \in l + 1 .. p_hi : h[p] = FlowAt(h, p_hi, p)
        BY <3>3
      <3>5. \A p \in l .. p_hi : f[p] = IF p = l THEN first ELSE h[p]
        OBVIOUS
      <3>6. f = [p \in l .. p_hi |-> f[p]]
        OBVIOUS
      <3> HIDE DEF first, f
      <3>7. ASSUME NEW p \in l .. p_hi PROVE f[p] = FlowAt(f, p_hi, p)
        <4>1. p # p_hi => f[p + 1] = h[p + 1]
          <5>1. p # p_hi => p + 1 \in l .. p_hi /\ p + 1 # l
            BY <1>0, <3>1
          <5>2. QED
            BY <3>5, <5>1
        <4>2. FlowAt(f, p_hi, p) = FlowAt(h, p_hi, p)
          BY <4>1 DEF FlowAt
        <4>3. CASE p = l
          BY <3>5, <4>2, <4>3 DEF first
        <4>4. CASE p # l
          <5>1. p \in l + 1 .. p_hi
            BY <1>0, <3>1, <4>4
          <5>2. QED
            BY <3>4, <3>5, <4>2, <4>4, <5>1
        <4>5. QED
          BY <4>3, <4>4
      <3>8. Solves(f, l)
        BY <3>6, <3>7
      <3>9. QED
        BY <2>3, <3>8
    <2>6. QED
      BY <2>4, <2>5
  <1>2. \E f : Solves(f, p_lo)
    <2>1. p_hi - p_lo \in Nat /\ p_hi - (p_hi - p_lo) = p_lo /\ p_lo >= p_lo
      BY <1>0
    <2> HIDE DEF Solves
    <2>2. QED
      BY <1>1, <2>1
  <1> DEFINE flow == CHOOSE f : Solves(f, p_lo)
  <1>3. Flow(p_hi, p_lo) = flow[p_lo]
    BY DEF Flow, FlowAt
  <1>4. Solves(flow, p_lo)
    BY <1>2
  <1> HIDE DEF flow
  <1>5. \A p \in p_lo .. p_hi : flow[p] = FlowAt(flow, p_hi, p)
    BY <1>4
  <1> HIDE DEF Solves
  <1>6. QED
    BY <1>3, <1>5

\* The sum, entry by entry: g[i] is that of the first i.
Running(g, mod, from, v) == /\ g[0] = 0
                            /\ \A i \in 1 .. Len(from) : g[i] = (g[i - 1] + v[from[i]]) % mod

\* There is such a g, of residues.
LEMMA RunningExists ==
  ASSUME NEW mod \in Nat \ {0}, NEW D, NEW from \in Seq(D), NEW v \in [D -> Nat]
  PROVE  \E g \in [0 .. Len(from) -> 0 .. mod - 1] : Running(g, mod, from, v)
  <1> DEFINE n == Len(from)
             R == 0 .. mod - 1
             step == [x \in R \X (1 .. n) |-> (x[1] + v[from[x[2]]]) % mod]
  <1>1. n \in Nat /\ 0 \in R /\ \A i \in 1 .. n : v[from[i]] \in Nat
    OBVIOUS
  <1>2. step \in [R \X (1 .. n) -> R]
    <2>1. ASSUME NEW x \in R \X (1 .. n) PROVE (x[1] + v[from[x[2]]]) % mod \in R
      <3>1. x[1] \in Int /\ x[2] \in 1 .. n
        OBVIOUS
      <3>2. x[1] + v[from[x[2]]] \in Int
        BY <1>1, <3>1
      <3>3. QED
        BY <3>2, ModType
    <2>2. QED
      BY <2>1
  <1> HIDE DEF n, R
  <1>3. PICK g \in [0 .. n -> R] : Iterates(g, n, 0, step)
    <2> HIDE DEF step
    <2>1. QED
      BY <1>1, <1>2, IterExists
  <1>4. ASSUME NEW i \in 1 .. n PROVE g[i] = (g[i - 1] + v[from[i]]) % mod
    <2>1. i - 1 \in 0 .. n
      BY <1>1
    <2>2. <<g[i - 1], i>> \in R \X (1 .. n)
      BY <1>3, <2>1
    <2>3. g[i] = step[<<g[i - 1], i>>]
      BY <1>3 DEF Iterates
    <2>4. QED
      BY <2>2, <2>3
  <1>5. Running(g, mod, from, v)
    BY <1>3, <1>4 DEF Running, Iterates, n
  <1>6. QED
    BY <1>3, <1>5 DEF n, R

\* It is the sum.
LEMMA RunningAdded ==
  ASSUME NEW mod \in Nat \ {0}, NEW D, NEW from \in Seq(D), NEW v \in [D -> Nat], NEW g, Running(g, mod, from, v)
  PROVE  Added(mod, from, v) = g[Len(from)]
  <1> DEFINE n == Len(from)
             Term(i) == IF from[i] \in DOMAIN v THEN v[from[i]] ELSE 0
             Sums(f) == f = [i \in 0 .. n |-> IF i = 0 THEN 0 ELSE (f[i - 1] + Term(i)) % mod]
             sum == CHOOSE f : Sums(f)
  <1>1. n \in Nat /\ \A i \in 1 .. n : Term(i) = v[from[i]]
    OBVIOUS
  <1>2. Added(mod, from, v) = sum[n]
    BY DEF Added
  <1>3. \E f : Sums(f)
    <2>1. PICK f \in [0 .. n -> 0 .. mod - 1] : Running(f, mod, from, v)
      BY RunningExists
    <2>2. \A i \in 0 .. n : f[i] = IF i = 0 THEN 0 ELSE (f[i - 1] + Term(i)) % mod
      <3>1. f[0] = 0 /\ \A i \in 1 .. n : f[i] = (f[i - 1] + v[from[i]]) % mod
        BY <2>1 DEF Running
      <3> HIDE DEF n, Term
      <3>2. \A i \in 0 .. n : i = 0 \/ i \in 1 .. n
        BY <1>1
      <3>3. QED
        BY <1>1, <3>1, <3>2
    <2> DEFINE R == [i \in 0 .. n |-> IF i = 0 THEN 0 ELSE (f[i - 1] + Term(i)) % mod]
    <2>3. f = [i \in 0 .. n |-> f[i]]
      BY <2>1
    <2>4. [i \in 0 .. n |-> f[i]] = R
      BY <2>2
    <2>5. Sums(f)
      BY <2>3, <2>4
    <2> HIDE DEF Sums
    <2>6. QED
      BY <2>5
  <1>4. Sums(sum)
    <2> HIDE DEF Sums
    <2>1. QED
      BY <1>3
  <1> HIDE DEF sum, Term
  <1>5. sum[0] = 0 /\ \A i \in 1 .. n : sum[i] = (sum[i - 1] + v[from[i]]) % mod
    <2>1. \A i \in 0 .. n : sum[i] = IF i = 0 THEN 0 ELSE (sum[i - 1] + Term(i)) % mod
      BY <1>4
    <2>2. 0 \in 0 .. n /\ \A i \in 1 .. n : i \in 0 .. n /\ i # 0
      BY <1>1
    <2> HIDE DEF n
    <2>3. QED
      BY <1>1, <2>1, <2>2
  <1>6. g[0] = 0 /\ \A i \in 1 .. n : g[i] = (g[i - 1] + v[from[i]]) % mod
    BY DEF Running
  <1> HIDE DEF n, Sums
  <1> DEFINE Bad == {i \in 0 .. n : sum[i] # g[i]}
  <1>7. Bad = {}
    <2>1. SUFFICES ASSUME Bad # {} PROVE FALSE
      OBVIOUS
    <2>2. PICK k \in Bad : \A j \in Bad : k <= j
      <3>1. Bad \in SUBSET Nat
        OBVIOUS
      <3> HIDE DEF Bad
      <3>2. QED
        BY <2>1, <3>1, NatMin
    <2>3. k # 0
      BY <1>5, <1>6, <2>2
    <2>4. k \in 1 .. n /\ k - 1 \in 0 .. n /\ ~(k <= k - 1)
      BY <1>1, <2>2, <2>3
    <2>5. sum[k - 1] = g[k - 1]
      BY <2>2, <2>4
    <2>6. QED
      BY <1>5, <1>6, <2>2, <2>4, <2>5
  <1>8. n \in 0 .. n
    BY <1>1
  <1>9. QED
    BY <1>2, <1>7, <1>8 DEF n

\* What is added up is a residue, nothing at first, and one sequence after another adds up.
LEMMA AddedJoin ==
  ASSUME NEW mod \in Nat \ {0}, NEW D, NEW a \in Seq(D), NEW b \in Seq(D), NEW v \in [D -> Nat]
  PROVE  /\ Added(mod, a, v) \in 0 .. mod - 1 /\ Added(mod, <<>>, v) = 0
         /\ Added(mod, a \o b, v) = (Added(mod, a, v) + Added(mod, b, v)) % mod
  <1>1. PICK g \in [0 .. Len(a) -> 0 .. mod - 1] : Running(g, mod, a, v)
    BY RunningExists
  <1>2. PICK h \in [0 .. Len(b) -> 0 .. mod - 1] : Running(h, mod, b, v)
    BY RunningExists
  <1> DEFINE m == Len(a)
             n == Len(b)
             s == a \o b
             top == g[m]
             f == [i \in 0 .. m + n |-> IF i <= m THEN g[i] ELSE (top + h[i - m]) % mod]
  <1>3. m \in Nat /\ n \in Nat /\ s \in Seq(D) /\ Len(s) = m + n
        /\ (\A i \in 1 .. m : s[i] = a[i]) /\ (\A i \in 1 .. n : s[m + i] = b[i])
    OBVIOUS
  <1>4. /\ \A i \in 0 .. m : g[i] \in Int /\ g[i] \in 0 .. mod - 1
        /\ \A i \in 0 .. n : h[i] \in Int
        /\ g[0] = 0 /\ \A i \in 1 .. m : g[i] = (g[i - 1] + v[a[i]]) % mod
        /\ h[0] = 0 /\ \A i \in 1 .. n : h[i] = (h[i - 1] + v[b[i]]) % mod
        /\ \A i \in 1 .. n : v[b[i]] \in Int
    <2>1. /\ g[0] = 0 /\ \A i \in 1 .. m : g[i] = (g[i - 1] + v[a[i]]) % mod
          /\ h[0] = 0 /\ \A i \in 1 .. n : h[i] = (h[i - 1] + v[b[i]]) % mod
      BY <1>1, <1>2 DEF Running
    <2>2. \A i \in 1 .. n : v[b[i]] \in Nat
      OBVIOUS
    <2>3. 0 .. mod - 1 \in SUBSET Int
      OBVIOUS
    <2>4. \A i \in 0 .. m : g[i] \in 0 .. mod - 1
      BY <1>1
    <2>5. \A i \in 0 .. n : h[i] \in 0 .. mod - 1
      BY <1>2
    <2> HIDE DEF m, n
    <2>6. QED
      BY <2>1, <2>2, <2>3, <2>4, <2>5
  <1>5. Added(mod, a, v) = top /\ Added(mod, b, v) = h[n]
    BY <1>1, <1>2, RunningAdded
  <1>6. top \in 0 .. mod - 1 /\ top \in Int
    <2>1. m \in 0 .. m
      BY <1>3
    <2>2. QED
      BY <1>4, <2>1
  <1> HIDE DEF m, n, s, top
  <1>7. \A i \in 0 .. m + n : f[i] = IF i <= m THEN g[i] ELSE (top + h[i - m]) % mod
    OBVIOUS
  <1> HIDE DEF f
  <1>8. \A j \in 0 .. n : f[m + j] = (top + h[j]) % mod
    <2>1. ASSUME NEW j \in 0 .. n PROVE f[m + j] = (top + h[j]) % mod
      <3>1. m + j \in 0 .. m + n /\ (m + j <= m <=> j = 0) /\ m + j - m = j
        BY <1>3
      <3>2. CASE j = 0
        <4>1. f[m + j] = g[m] /\ g[m] = top
          BY <1>3, <1>7, <3>1, <3>2 DEF top
        <4>2. top + h[j] = top
          BY <1>4, <1>6, <3>2
        <4>3. QED
          BY <1>6, <4>1, <4>2, ModIdle
      <3>3. CASE j # 0
        <4> DEFINE i == m + j
        <4>1. i \in 0 .. m + n /\ ~(i <= m) /\ i - m = j
          BY <1>3, <3>1, <3>3
        <4> HIDE DEF i
        <4>2. f[i] = (top + h[i - m]) % mod
          BY <1>7, <4>1
        <4>3. QED
          BY <4>1, <4>2 DEF i
      <3>4. QED
        BY <3>2, <3>3
    <2>2. QED
      BY <2>1
  <1>9. ASSUME NEW i \in 1 .. m + n PROVE f[i] = (f[i - 1] + v[s[i]]) % mod
    <2>1. CASE i <= m
      <3>1. i \in 1 .. m /\ i \in 0 .. m + n /\ i - 1 \in 0 .. m + n /\ i - 1 <= m
        BY <1>3, <2>1
      <3>2. f[i] = g[i] /\ f[i - 1] = g[i - 1] /\ s[i] = a[i]
        BY <1>3, <1>7, <2>1, <3>1
      <3>3. QED
        BY <1>4, <3>1, <3>2
    <2>2. CASE ~(i <= m)
      <3> DEFINE j == i - m
      <3>1. j \in 1 .. n /\ j \in 0 .. n /\ j - 1 \in 0 .. n /\ i = m + j /\ i - 1 = m + (j - 1)
        BY <1>3, <2>2
      <3> HIDE DEF j
      <3> DEFINE k == j - 1
                 x == v[b[j]]
      <3>2. f[m + j] = (top + h[j]) % mod /\ f[m + k] = (top + h[k]) % mod /\ h[j] = (h[k] + x) % mod /\ s[m + j] = b[j]
        BY <1>3, <1>4, <1>8, <3>1
      <3>3. x \in Int /\ h[k] \in Int /\ h[j] \in Int /\ k \in 0 .. n
        BY <1>4, <3>1
      <3> HIDE DEF x, k
      <3>4. (top + h[j]) % mod = (top + (h[k] + x)) % mod
        <4> DEFINE y == h[k] + x
        <4>0. y \in Int /\ y + top = top + (h[k] + x)
          BY <1>6, <3>3
        <4>1. y \in Int /\ h[j] = y % mod /\ y + top = top + (h[k] + x)
          BY <3>2, <4>0
        <4> HIDE DEF y
        <4>3. top + h[j] = (y % mod) + top
          BY <1>6, <3>3, <4>1
        <4>2. ((y % mod) + top) % mod = (y + top) % mod
          BY <1>6, <4>1, ModAdd
        <4>4. QED
          BY <4>1, <4>2, <4>3
      <3>5. (f[m + k] + x) % mod = (top + (h[k] + x)) % mod
        <4> DEFINE y == top + h[k]
        <4>1. y \in Int /\ f[m + k] = y % mod
          BY <1>6, <3>2, <3>3
        <4>3. y + x = top + (h[k] + x)
          BY <1>6, <3>3
        <4> HIDE DEF y
        <4>2. ((y % mod) + x) % mod = (y + x) % mod
          BY <3>3, <4>1, ModAdd
        <4>4. QED
          BY <4>1, <4>2, <4>3
      <3>6. f[i] = f[m + j] /\ f[i - 1] = f[m + k] /\ s[i] = b[j]
        BY <3>1, <3>2 DEF k
      <3>7. QED
        BY <3>2, <3>4, <3>5, <3>6 DEF x
    <2>3. QED
      BY <2>1, <2>2
  <1>10. f[0] = 0
    <2>1. 0 \in 0 .. m + n /\ 0 <= m
      BY <1>3
    <2>2. QED
      BY <1>4, <1>7, <2>1
  <1>11. Running(f, mod, s, v)
    BY <1>3, <1>9, <1>10 DEF Running
  <1>12. Added(mod, s, v) = f[m + n]
    <2>1. s \in Seq(D) /\ Len(s) = m + n
      BY <1>3
    <2>2. Added(mod, s, v) = f[Len(s)]
      BY <1>11, <2>1, RunningAdded
    <2>3. QED
      BY <2>1, <2>2
  <1>13. n \in 0 .. n
    BY <1>3
  <1>14. Added(mod, <<>>, v) = 0
    <2> DEFINE z == [i \in {0} |-> 0]
               e == SubSeq(a, 1, 0)
    <2>0. e = <<>>
      OBVIOUS
    <2>1. e \in Seq(D) /\ Len(e) = 0 /\ z[0] = 0
      OBVIOUS
    <2> HIDE DEF z, e
    <2>2. Running(z, mod, e, v)
      BY <2>1 DEF Running
    <2>3. Added(mod, e, v) = z[Len(e)]
      <3>1. e \in Seq(D) /\ v \in [D -> Nat] /\ mod \in Nat \ {0}
        BY <2>1
      <3>2. QED
        BY <2>2, <3>1, RunningAdded, SMTT(30)
    <2>4. QED
      BY <2>0, <2>1, <2>3
  <1>15. QED
    BY <1>5, <1>6, <1>8, <1>12, <1>13, <1>14 DEF s

\* Adding up sequences one after the other is adding up what each of them adds up to.
FlatSum(mod, D, v, F, from, w, parts) ==
  /\ mod \in Nat \ {0} /\ v \in [D -> Nat] /\ F \in [D -> Seq(D)] /\ from \in Seq(D)
  /\ w \in [D -> Nat] /\ \A d \in D : w[d] = Added(mod, F[d], v)
  /\ parts = [i \in DOMAIN from |-> F[from[i]]]

LEMMA AddedFlat ==
  ASSUME NEW mod, NEW D, NEW v, NEW F, NEW from, NEW w, NEW parts, FlatSum(mod, D, v, F, from, w, parts)
  PROVE  Added(mod, FlattenSeq(parts), v) = Added(mod, from, w)
  <1> DEFINE n == Len(from)
  <1>0. mod \in Nat \ {0} /\ from \in Seq(D) /\ w \in [D -> Nat] /\ v \in [D -> Nat]
    BY DEF FlatSum
  <1>1. n \in Nat /\ DOMAIN from = 1 .. n /\ \A i \in 1 .. n : from[i] \in D
    BY <1>0
  <1>2. \A i \in 1 .. n : parts[i] = F[from[i]] /\ parts[i] \in Seq(D)
    BY <1>1 DEF FlatSum
  <1>3. PICK g \in [0 .. n -> 0 .. mod - 1] : Running(g, mod, from, w)
    BY <1>0, RunningExists
  <1>4. Added(mod, from, w) = g[n]
    BY <1>0, <1>3, RunningAdded
  <1>5. g[0] = 0 /\ \A i \in 1 .. n : g[i] = (g[i - 1] + w[from[i]]) % mod
    BY <1>3 DEF Running
  <1>6. \A i \in 1 .. n : w[from[i]] = Added(mod, parts[i], v)
    BY <1>1, <1>2 DEF FlatSum
  <1>7. CASE n = 0
    <2>1. parts = <<>> /\ FlattenSeq(parts) = parts
      BY <1>1, <1>7 DEF FlattenSeq, FlatSum
    <2>2. Added(mod, <<>>, v) = 0
      BY <1>0, AddedJoin
    <2>3. QED
      BY <1>4, <1>5, <1>7, <2>1, <2>2
  <1>8. CASE n # 0
    <2>1. parts \in [1 .. n -> Seq(D)] /\ n \in Nat \ {0}
      BY <1>1, <1>2, <1>8 DEF FlatSum
    <2> HIDE DEF n
    <2>2. PICK f : Concatenates(f, parts, n) /\ FlattenSeq(parts) = f[n]
      BY <2>1, FlattenDef
    <2>3. \A i \in 1 .. n : f[i] = IF i = 1 THEN parts[i] ELSE f[i - 1] \o parts[i]
      BY <2>2 DEF Concatenates
    <2> DEFINE Bad == {i \in 1 .. n : ~(f[i] \in Seq(D) /\ Added(mod, f[i], v) = g[i])}
    <2>4. Bad = {}
      <3>1. SUFFICES ASSUME Bad # {} PROVE FALSE
        OBVIOUS
      <3>2. PICK k \in Bad : \A j \in Bad : k <= j
        <4>1. Bad \in SUBSET Nat
          BY <1>1
        <4> HIDE DEF Bad
        <4>2. QED
          BY <3>1, <4>1, NatMin
      <3>3. k \in 1 .. n
        OBVIOUS
      <3> DEFINE q == parts[k]
      <3>4. q \in Seq(D) /\ g[k] = (g[k - 1] + Added(mod, q, v)) % mod
        BY <1>2, <1>5, <1>6, <3>3
      <3>5. Added(mod, q, v) \in 0 .. mod - 1
        <4> HIDE DEF q
        <4>1. QED
          BY <1>0, <3>4, AddedJoin
      <3>6. CASE k = 1
        <4>1. f[k] = q
          BY <2>3, <3>3, <3>6
        <4>2. g[k - 1] = 0
          BY <1>5, <3>6
        <4>3. g[k - 1] + Added(mod, q, v) = Added(mod, q, v)
          BY <3>5, <4>2
        <4>4. g[k] = Added(mod, q, v)
          BY <1>0, <3>4, <3>5, <4>3, ModIdle
        <4>5. QED
          BY <3>2, <3>4, <4>1, <4>4
      <3>7. CASE k # 1
        <4> DEFINE p == f[k - 1]
        <4>1. k - 1 \in 1 .. n /\ ~(k <= k - 1)
          BY <1>1, <3>3, <3>7
        <4>2. p \in Seq(D) /\ Added(mod, p, v) = g[k - 1]
          BY <3>2, <4>1
        <4>3. f[k] = p \o q
          BY <2>3, <3>3, <3>7
        <4> HIDE DEF p, q
        <4>4. Added(mod, p \o q, v) = (Added(mod, p, v) + Added(mod, q, v)) % mod
          <5>1. p \in Seq(D) /\ q \in Seq(D) /\ v \in [D -> Nat] /\ mod \in Nat \ {0}
            BY <1>0, <3>4, <4>2
          <5>2. QED
            BY <5>1, AddedJoin
        <4>5. p \o q \in Seq(D)
          BY <3>4, <4>2
        <4>6. QED
          BY <3>2, <3>4, <4>2, <4>3, <4>4, <4>5
      <3>8. QED
        BY <3>6, <3>7
    <2>5. n \in 1 .. n
      BY <1>1, <1>8
    <2>6. QED
      BY <1>4, <2>2, <2>4, <2>5
  <1>9. QED
    BY <1>7, <1>8

\* v counts, modulo mod, how many elements of T are in each class of D.
Classified(mod, D, T, class, v) ==
  v \in [D -> Nat] /\ \A d \in D : v[d] = Cardinality({t \in T : class[t] = d}) % mod
AnyOf(T, class, from) == {t \in T : \E i \in DOMAIN from : class[t] = from[i]}

\* Adding up over some classes counts how many elements are in any of them.
LEMMA AddedClasses ==
  ASSUME NEW mod \in Nat \ {0}, NEW D, NEW T, IsFiniteSet(T), NEW class, NEW v, Classified(mod, D, T, class, v),
         NEW from \in Seq(D), NoRepeats(from)
  PROVE  Added(mod, from, v) = Cardinality(AnyOf(T, class, from)) % mod
  <1> DEFINE n == Len(from)
             One(i) == {t \in T : class[t] = from[i]}
             Upto(k) == {t \in T : \E i \in 1 .. k : class[t] = from[i]}
             N(k) == Cardinality(Upto(k))
  <1>1. n \in Nat /\ DOMAIN from = 1 .. n /\ (\A i \in 1 .. n : from[i] \in D)
        /\ \A i, j \in 1 .. n : from[i] = from[j] => i = j
    BY DEF NoRepeats
  <1>0. v \in [D -> Nat] /\ \A d \in D : v[d] = Cardinality({t \in T : class[t] = d}) % mod
    BY DEF Classified
  <1>2. PICK g \in [0 .. n -> 0 .. mod - 1] : Running(g, mod, from, v)
    BY <1>0, RunningExists
  <1>3. Added(mod, from, v) = g[n]
    BY <1>0, <1>2, RunningAdded
  <1>4. g[0] = 0 /\ \A i \in 1 .. n : g[i] = (g[i - 1] + v[from[i]]) % mod
    BY <1>2 DEF Running
  <1>5. \A i \in 1 .. n : v[from[i]] = Cardinality(One(i)) % mod
    BY <1>0, <1>1
  <1> HIDE DEF n
  <1>6. ASSUME NEW k \in 1 .. n PROVE N(k) \in Nat /\ N(k - 1) \in Nat /\ N(k) = N(k - 1) + Cardinality(One(k))
                                      /\ Cardinality(One(k)) \in Nat
    <2> DEFINE A == Upto(k - 1)
               B == One(k)
    <2>1. Upto(k) = A \cup B
      <3>1. \A i \in 1 .. k : i \in 1 .. k - 1 \/ i = k
        BY <1>1
      <3>2. \A i \in 1 .. k - 1 : i \in 1 .. k
        BY <1>1
      <3>3. k \in 1 .. k
        BY <1>1
      <3>4. QED
        BY <3>1, <3>2, <3>3
    <2>2. A \cap B = {}
      <3>1. \A i \in 1 .. k - 1 : i \in 1 .. n /\ i # k
        BY <1>1
      <3>2. \A i \in 1 .. k - 1 : from[i] # from[k]
        BY <1>1, <3>1
      <3>3. QED
        BY <3>2
    <2>3. A \in SUBSET T /\ B \in SUBSET T
      OBVIOUS
    <2> HIDE DEF A, B
    <2>4. IsFiniteSet(A) /\ IsFiniteSet(B)
      BY <2>3, FS_Subset
    <2>6. Cardinality(A) \in Nat /\ Cardinality(B) \in Nat
      BY <2>4, FS_CardinalityType
    <2>5. Cardinality(A \cup B) = Cardinality(A) + Cardinality(B)
      <3>1. Cardinality(A \cup B) = Cardinality(A) + Cardinality(B) - Cardinality(A \cap B)
        BY <2>4, FS_Union
      <3>2. Cardinality(A \cap B) = 0
        BY <2>2, FS_EmptySet
      <3>3. QED
        BY <2>6, <3>1, <3>2
    <2> HIDE DEF Upto, One
    <2>7. QED
      BY <2>1, <2>5, <2>6 DEF A, B
  <1>7. N(0) = 0
    <2>1. Upto(0) = {}
      OBVIOUS
    <2> HIDE DEF Upto
    <2>2. QED
      BY <2>1, FS_EmptySet
  <1> HIDE DEF N, One
  <1> DEFINE Bad == {k \in 0 .. n : g[k] # N(k) % mod}
  <1>8. Bad = {}
    <2>1. SUFFICES ASSUME Bad # {} PROVE FALSE
      OBVIOUS
    <2>2. PICK k \in Bad : \A j \in Bad : k <= j
      <3>1. Bad \in SUBSET Nat
        BY <1>1
      <3> HIDE DEF Bad
      <3>2. QED
        BY <2>1, <3>1, NatMin
    <2>3. CASE k = 0
      <3>1. 0 % mod = 0
        <4>1. 0 \in 0 .. mod - 1
          OBVIOUS
        <4>2. QED
          BY <4>1, ModIdle
      <3>2. QED
        BY <1>4, <1>7, <2>2, <2>3, <3>1
    <2>4. CASE k # 0
      <3> DEFINE j == k - 1
                 a == N(j)
                 b == Cardinality(One(k))
      <3>1. k \in 1 .. n /\ j \in 0 .. n /\ ~(k <= j) /\ k \in 0 .. n
        BY <1>1, <2>2, <2>4
      <3>2. g[j] = a % mod /\ g[k] = (g[j] + v[from[k]]) % mod /\ v[from[k]] = b % mod
        BY <1>4, <1>5, <2>2, <3>1
      <3>3. N(k) = a + b /\ a \in Nat /\ b \in Nat
        BY <1>6, <3>1
      <3> HIDE DEF a, b, j
      <3>4. (a % mod) \in Int /\ (b % mod) \in Int
        BY <3>3, ModType
      <3>5. ((a % mod) + (b % mod)) % mod = (a + (b % mod)) % mod
        <4> DEFINE r == b % mod
        <4>1. r \in Int /\ a \in Int /\ mod \in Nat \ {0}
          BY <3>3, <3>4
        <4> HIDE DEF r
        <4>2. ((a % mod) + r) % mod = (a + r) % mod
          BY <4>1, ModAdd
        <4>3. QED
          BY <4>2 DEF r
      <3>6. ((b % mod) + a) % mod = (b + a) % mod
        <4>1. b \in Int /\ a \in Int /\ mod \in Nat \ {0}
          BY <3>3
        <4>2. QED
          BY <4>1, ModAdd
      <3>7. a + (b % mod) = (b % mod) + a /\ b + a = a + b
        BY <3>3, <3>4
      <3>8. g[k] = N(k) % mod
        BY <3>2, <3>3, <3>5, <3>6, <3>7
      <3>9. QED
        BY <2>2, <3>8
    <2>5. QED
      BY <2>3, <2>4
  <1>9. n \in 0 .. n
    BY <1>1
  <1>10. Upto(n) = AnyOf(T, class, from)
    BY <1>1 DEF AnyOf
  <1>11. QED
    BY <1>3, <1>8, <1>9, <1>10 DEF N

\* A window is its edges one after the other: if each adds up to the next of some vectors, the window
\* makes the last of them of the first.
LEMMA WindowOfEdges ==
  ASSUME NEW p_hi \in 1 .. W - 1, NEW p_lo \in 1 .. p_hi, NEW mod \in Nat \ {0},
         NEW N, \A p \in p_lo - 1 .. p_hi : N[p] \in [Ranks -> Nat],
         \A p \in 1 .. W - 1 : \A c \in Ranks : Sources[p][c] \in Seq(Ranks),
         \A p \in p_lo .. p_hi : \A c \in Ranks : N[p - 1][c] = Added(mod, Sources[p][c], N[p])
  PROVE  WindowSteps(mod, Flow(p_hi, p_lo), N[p_hi]) = N[p_lo - 1]
  <1>0. p_hi \in Nat /\ p_lo \in Nat /\ p_lo <= p_hi /\ p_lo >= 1 /\ W \in Nat /\ p_hi <= W - 1
    BY GridAssumption
  <1>1. PICK f : Flow(p_hi, p_lo) = f[p_lo] /\ \A p \in p_lo .. p_hi : f[p] = FlowAt(f, p_hi, p)
    BY FlowDef
  <1> DEFINE v == N[p_hi]
             Right1(p) == \A c \in Ranks : f[p][c] \in Seq(Ranks) /\ Added(mod, f[p][c], v) = N[p - 1][c]
             Bad == {k \in 0 .. p_hi - p_lo : ~Right1(p_hi - k)}
  <1>2. v \in [Ranks -> Nat]
    BY <1>0
  <1>3. Bad = {}
    <2>1. SUFFICES ASSUME Bad # {} PROVE FALSE
      OBVIOUS
    <2>2. PICK k \in Bad : \A j \in Bad : k <= j
      <3>1. Bad \in SUBSET Nat
        BY <1>0
      <3> HIDE DEF Bad
      <3>2. QED
        BY <2>1, <3>1, NatMin
    <2> DEFINE p == p_hi - k
    <2>3. k \in 0 .. p_hi - p_lo /\ p \in p_lo .. p_hi /\ p \in 1 .. W - 1 /\ ~Right1(p)
      BY <1>0, <2>2
    <2>4. CASE k = 0
      <3>1. p = p_hi
        BY <1>0, <2>4
      <3> HIDE DEF p
      <3>2. f[p] = Sources[p]
        BY <1>1, <2>3, <3>1 DEF FlowAt
      <3>3. QED
        BY <2>3, <3>1, <3>2
    <2>5. CASE k # 0
      <3> DEFINE r == p + 1
      <3>1. k - 1 \in 0 .. p_hi - p_lo /\ ~(k <= k - 1) /\ p_hi - (k - 1) = r /\ p # p_hi /\ r - 1 = p
            /\ r \in p_lo .. p_hi /\ p \in p_lo - 1 .. p_hi
        BY <1>0, <2>3, <2>5
      <3>2. Right1(r)
        <4> HIDE DEF Right1, r
        <4>1. QED
          BY <2>2, <3>1
      <3> HIDE DEF p, Bad, v
      <3>3. ASSUME NEW c \in Ranks PROVE f[p][c] \in Seq(Ranks) /\ Added(mod, f[p][c], v) = N[p - 1][c]
        <4> DEFINE from == Sources[p][c]
                   F == [d \in Ranks |-> f[r][d]]
                   w == N[p]
                   parts == [i \in DOMAIN from |-> F[from[i]]]
        <4>1. from \in Seq(Ranks) /\ w \in [Ranks -> Nat] /\ F \in [Ranks -> Seq(Ranks)]
          BY <2>3, <3>1, <3>2
        <4>2. \A d \in Ranks : w[d] = Added(mod, F[d], v)
          BY <3>1, <3>2
        <4>3. N[p - 1][c] = Added(mod, from, w)
          BY <2>3
        <4>4. f[p][c] = FlattenSeq([i \in DOMAIN from |-> f[r][from[i]]])
          <5>1. f[p] = FlowAt(f, p_hi, p)
            BY <1>1, <2>3
          <5>2. FlowAt(f, p_hi, p)
                = [d \in Ranks |-> FlattenSeq([i \in DOMAIN Sources[p][d] |-> f[p + 1][Sources[p][d][i]]])]
            BY <3>1 DEF FlowAt
          <5>3. f[p][c] = FlattenSeq([i \in DOMAIN Sources[p][c] |-> f[p + 1][Sources[p][c][i]]])
            BY <5>1, <5>2
          <5>4. QED
            BY <5>3
        <4>5. [i \in DOMAIN from |-> f[r][from[i]]] = parts
          <5>1. \A i \in DOMAIN from : from[i] \in Ranks
            <6> HIDE DEF from
            <6>1. QED
              BY <4>1
          <5>2. QED
            BY <5>1
        <4>6. parts \in Seq(Seq(Ranks))
          <5> HIDE DEF from, F
          <5>1. Len(from) \in Nat /\ DOMAIN from = 1 .. Len(from) /\ \A i \in 1 .. Len(from) : F[from[i]] \in Seq(Ranks)
            BY <4>1
          <5>2. parts \in [1 .. Len(from) -> Seq(Ranks)]
            BY <5>1
          <5> HIDE DEF parts
          <5>3. QED
            BY <5>1, <5>2
        <4>7. FlattenSeq(parts) \in Seq(Ranks)
          <5> HIDE DEF parts
          <5>1. QED
            BY <4>6, Flattened
        <4> HIDE DEF from, F, w
        <4>8. Added(mod, FlattenSeq(parts), v) = Added(mod, from, w)
          <5>1. parts = [i \in DOMAIN from |-> F[from[i]]]
            OBVIOUS
          <5> HIDE DEF parts
          <5>2. FlatSum(mod, Ranks, v, F, from, w, parts)
            BY <1>2, <4>1, <4>2, <5>1 DEF FlatSum
          <5>3. QED
            BY <5>2, AddedFlat
        <4> HIDE DEF parts
        <4>9. QED
          BY <4>3, <4>4, <4>5, <4>7, <4>8
      <3>4. QED
        BY <2>3, <3>3
    <2>6. QED
      BY <2>4, <2>5
  <1>4. Right1(p_lo)
    <2>1. p_hi - p_lo \in 0 .. p_hi - p_lo /\ p_hi - (p_hi - p_lo) = p_lo
      BY <1>0
    <2> HIDE DEF Right1
    <2>2. QED
      BY <1>3, <2>1
  <1> DEFINE flow == Flow(p_hi, p_lo)
  <1>5. WindowSteps(mod, flow, v) = [c \in DOMAIN v |-> Added(mod, flow[c], v)]
    BY DEF WindowSteps, Added
  <1>6. \A c \in Ranks : Added(mod, flow[c], v) = N[p_lo - 1][c]
    BY <1>1, <1>4
  <1>7. DOMAIN v = Ranks /\ N[p_lo - 1] \in [Ranks -> Nat]
    BY <1>0, <1>2
  <1> HIDE DEF flow, v
  <1>8. [c \in DOMAIN v |-> Added(mod, flow[c], v)] = [c \in Ranks |-> N[p_lo - 1][c]]
    BY <1>6, <1>7
  <1>9. QED
    BY <1>5, <1>7, <1>8 DEF flow, v

-----------------------------------------------------------------------------
(***************************************************************************)
(* The cells count the choices: Many(x, c) is how many of those reached    *)
(* when it is x's turn the cell c stands for.                              *)
(***************************************************************************)
Cell(x, t) == CellOf(t.m, Pos(x), t.b)
Many(x, c) == Cardinality({t \in Reached[x] : Cell(x, t) = c})

\* Finitely many choices are reached.
LEMMA ReachedFinite == \A x \in V : IsFiniteSet(Reached[x])
  <1>1. ASSUME NEW x \in V PROVE IsFiniteSet(Reached[x])
    <2> DEFINE R == Reached[x]
               D == SUBSET DOMAIN Edges
               g == [t \in R |-> t.S]
    <2>1. \A t \in R : ChoiceRight(x, t)
      BY ReachedRight
    <2>2. \A t \in R : t.S \in D
      BY <2>1 DEF ChoiceRight, Chosen
    <2>3. \A t, u \in R : t.S = u.S => t = u
      BY <2>1, ChoiceOnce
    <2> HIDE DEF R
    <2>4. IsFiniteSet(D)
      <3>1. IsFiniteSet(DOMAIN Edges)
        <4>1. Edges \in Seq(V \X V)
          BY EdgesAre
        <4>2. Len(Edges) \in Nat /\ DOMAIN Edges = 1 .. Len(Edges)
          BY <4>1
        <4>3. QED
          BY <4>2, FS_Interval
      <3>2. QED
        BY <3>1, FS_SUBSET
    <2>5. g \in Injection(R, D)
      <3>1. g \in [R -> D]
        BY <2>2
      <3>2. \A t, u \in R : g[t] = g[u] => t = u
        BY <2>3
      <3> HIDE DEF g
      <3>3. QED
        BY <3>1, <3>2 DEF Injection, IsInjective
    <2>6. QED
      BY <2>4, <2>5, FS_Injection DEF R
  <1>2. QED
    BY <1>1

\* A listing names each element of a finite set once.
LEMMA ListingAll ==
  ASSUME NEW S, IsFiniteSet(S)
  PROVE  NoRepeats(SetToSeq(S)) /\ \A x \in S : \E i \in DOMAIN SetToSeq(S) : SetToSeq(S)[i] = x
  <1> DEFINE n == Cardinality(S)
             P(f) == f \in [1 .. n -> S] /\ IsInjective(f)
             g == SetToSeq(S)
  <1>1. n \in Nat /\ ExistsBijection(1 .. n, S)
    BY FS_CardinalityType
  <1>2. PICK f : f \in Bijection(1 .. n, S)
    BY <1>1 DEF ExistsBijection
  <1>3. P(f)
    BY <1>2 DEF Bijection, Injection, IsInjective
  <1>4. g \in [1 .. n -> S] /\ IsInjective(g)
    BY <1>3 DEF SetToSeq
  <1> HIDE DEF g
  <1>5. \A i, j \in 1 .. n : g[i] = g[j] => i = j
    BY <1>4 DEF IsInjective
  <1> DEFINE A == {g[i] : i \in 1 .. n}
  <1>6. IsFiniteSet(1 .. n) /\ Cardinality(1 .. n) = n
    <2> HIDE DEF n
    <2>1. Cardinality(1 .. n) = IF 1 > n THEN 0 ELSE n - 1 + 1
      BY <1>1, FS_Interval
    <2>2. QED
      BY <1>1, <2>1, FS_Interval
  <1>7. g \in [1 .. n -> A] /\ \A z \in A : \E i \in 1 .. n : g[i] = z
    BY <1>4
  <1> HIDE DEF A, n
  <1>8. IsFiniteSet(A) /\ Cardinality(A) = n
    BY <1>5, <1>6, <1>7, SameSize
  <1>9. A \subseteq S
    BY <1>4 DEF A
  <1>10. A = S
    BY <1>8, <1>9, FS_Subset DEF n
  <1>11. NoRepeats(g)
    BY <1>4, <1>5 DEF NoRepeats
  <1>12. \A x \in S : \E i \in DOMAIN g : g[i] = x
    BY <1>4, <1>10 DEF A
  <1>13. QED
    BY <1>11, <1>12 DEF g

\* Sources lists the cells that flow into a cell, each once.
LEMMA SourcesAre ==
  ASSUME NEW p \in 1 .. W - 1, NEW c \in Ranks
  PROVE  /\ Sources[p][c] \in Seq(Ranks) /\ NoRepeats(Sources[p][c])
         /\ \A d : (\E i \in DOMAIN Sources[p][c] : Sources[p][c][i] = d) <=> <<d, c>> \in Edge(p)
  <1> DEFINE I == {e[1] : e \in {x \in Edge(p) : x[2] = c}}
  <1>1. Sources[p][c] = SetToSeq(I)
    BY DEF Sources
  <1>2. \A e \in Edge(p) : e = <<e[1], e[2]>>
    <2>1. \A m \in Words(W) : \A e \in {MainCell(m)} \X include_horizontal(m, p) : e = <<e[1], e[2]>>
      OBVIOUS
    <2>2. QED
      BY <2>1 DEF Edge
  <1>3. \A d : d \in I <=> <<d, c>> \in Edge(p)
    <2>1. ASSUME NEW d, d \in I PROVE <<d, c>> \in Edge(p)
      <3>1. PICK e \in Edge(p) : e[2] = c /\ d = e[1]
        BY <2>1
      <3>2. QED
        BY <1>2, <3>1
    <2>2. ASSUME NEW d, <<d, c>> \in Edge(p) PROVE d \in I
      <3>1. <<d, c>>[1] = d /\ <<d, c>>[2] = c
        OBVIOUS
      <3>2. QED
        BY <2>2, <3>1
    <2>3. QED
      BY <2>1, <2>2
  <1>4. I \subseteq Ranks
    <2>1. W - 1 \in 1 .. W - 1 /\ 1 \in 1 .. W - 1 /\ p \in 1 .. W - 1
      BY GridAssumption
    <2>2. \A e \in Edge(p) : e[1] \in Ranks
      BY <2>1, EdgeInGroup
    <2>3. QED
      BY <2>2
  <1>5. IsFiniteSet(Ranks)
    <2>1. MainN + BlockN - 1 \in Int
      BY CellsAre
    <2>2. QED
      BY <2>1, FS_Interval DEF Ranks
  <1> HIDE DEF I
  <1>6. IsFiniteSet(I)
    BY <1>4, <1>5, FS_Subset
  <1>7. SetToSeq(I) \in Seq(I) /\ NoRepeats(SetToSeq(I))
        /\ \A x \in I : \E i \in DOMAIN SetToSeq(I) : SetToSeq(I)[i] = x
    BY <1>6, Listing, ListingAll
  <1> DEFINE s == SetToSeq(I)
  <1>8. s \in Seq(I) /\ NoRepeats(s) /\ (\A x \in I : \E i \in DOMAIN s : s[i] = x) /\ s = Sources[p][c]
    BY <1>1, <1>7
  <1> HIDE DEF s
  <1>9. s \in Seq(Ranks) /\ \A i \in DOMAIN s : s[i] \in I
    BY <1>4, <1>8
  <1>10. QED
    BY <1>3, <1>8, <1>9

-----------------------------------------------------------------------------
\* Putting the position back that was removed gives the word again.
LEMMA ShrinkInsert ==
  ASSUME NEW m \in Words(W), NEW at \in 0 .. W - 1, m[at] = "N"
  PROVE  minsert(mshrink(m, at), at) = m
  <1> DEFINE s == mshrink(m, at)
             t == minsert(s, at)
  <1>1. W \in Nat /\ W > 1 /\ s \in Words(W - 1) /\ \A i \in 0 .. W - 2 : s[i] = IF i < at THEN m[i] ELSE m[i + 1]
    BY GridAssumption, ShrinkWord
  <1>2. t \in Words(W) /\ \A i \in 0 .. W - 1 : t[i] = IF i < at THEN s[i] ELSE IF i = at THEN "N" ELSE s[i - 1]
    <2> HIDE DEF s
    <2>1. QED
      BY <1>1, InsertWord
  <1> HIDE DEF s, t
  <1>3. \A i \in 0 .. W - 1 : t[i] = m[i]
    <2>1. ASSUME NEW i \in 0 .. W - 1 PROVE t[i] = m[i]
      <3>1. CASE i < at
        BY <1>1, <1>2, <3>1
      <3>2. CASE i = at
        BY <1>1, <1>2, <3>2
      <3>3. CASE i > at
        <4>1. i - 1 \in 0 .. W - 2 /\ ~(i - 1 < at) /\ i - 1 + 1 = i /\ ~(i < at) /\ i # at
          BY <1>1, <3>3
        <4>2. QED
          BY <1>1, <1>2, <4>1
      <3>4. QED
        BY <3>1, <3>2, <3>3
    <2>2. QED
      BY <2>1
  <1>4. t = [i \in 0 .. W - 1 |-> t[i]] /\ m = [i \in 0 .. W - 1 |-> m[i]]
    BY <1>2 DEF Words
  <1>5. t = m
    BY <1>3, <1>4
  <1>6. QED
    BY <1>5 DEF t, s

\* Where the count of a cell flows.
LEMMA EdgeFrom ==
  ASSUME NEW p \in 1 .. W - 1, NEW c
  PROVE  /\ \A m \in Words(W) : <<MainCell(m), c>> \in Edge(p) <=>
               c = MainCell(m) \/ \E u \in Including(m, p) : c = CellOf(u, p - 1, p > 1 /\ m[p - 1] # "N")
         /\ \A s \in Words(W - 1) : <<BlockCell(s), c>> \in Edge(p) <=> c = MainCell(minsert(s, p))
  <1>1. /\ \A m \in Words(W) : \A t \in Words(W) : MainCell(m) = MainCell(t) => m = t
        /\ \A s \in Words(W - 1) : \A t \in Words(W - 1) : BlockCell(s) = BlockCell(t) => s = t
    BY CellsAre
  <1>2. \A m \in Words(W) : \A s \in Words(W - 1) : MainCell(m) # BlockCell(s)
    <2>1. MainN \in Nat /\ BlockN \in Nat /\ (\A m \in Words(W) : MainCell(m) \in 0 .. MainN - 1)
          /\ \A s \in Words(W - 1) : BlockCell(s) \in MainN .. MainN + BlockN - 1
      BY CellsAre
    <2>2. QED
      BY <2>1
  <1>3. ASSUME NEW m \in Words(W)
        PROVE  <<MainCell(m), c>> \in Edge(p) <=>
               c = MainCell(m) \/ \E u \in Including(m, p) : c = CellOf(u, p - 1, p > 1 /\ m[p - 1] # "N")
    <2>1. <<MainCell(m), c>> \in Edge(p) <=> c = MainCell(m) \/ c \in include_horizontal(m, p)
      <3>1. ASSUME <<MainCell(m), c>> \in Edge(p) PROVE c = MainCell(m) \/ c \in include_horizontal(m, p)
        <4>1. \/ \E t \in Words(W) : <<MainCell(m), c>> = <<MainCell(t), MainCell(t)>>
              \/ \E s \in Words(W - 1) : <<MainCell(m), c>> = <<BlockCell(s), MainCell(minsert(s, p))>>
              \/ \E t \in Words(W) : <<MainCell(m), c>> \in {MainCell(t)} \X include_horizontal(t, p)
          BY <3>1 DEF Edge
        <4>2. QED
          BY <1>1, <1>2, <4>1
      <3>2. ASSUME c = MainCell(m) PROVE <<MainCell(m), c>> \in Edge(p)
        BY <3>2 DEF Edge
      <3>3. ASSUME c \in include_horizontal(m, p) PROVE <<MainCell(m), c>> \in Edge(p)
        <4>1. <<MainCell(m), c>> \in {MainCell(m)} \X include_horizontal(m, p)
          BY <3>3
        <4>2. QED
          BY <4>1 DEF Edge
      <3>4. QED
        BY <3>1, <3>2, <3>3
    <2>2. include_horizontal(m, p) = {CellOf(t, p - 1, p > 1 /\ m[p - 1] # "N") : t \in Including(m, p)}
      BY IncludingCells
    <2>3. QED
      BY <2>1, <2>2
  <1>4. ASSUME NEW s \in Words(W - 1)
        PROVE  <<BlockCell(s), c>> \in Edge(p) <=> c = MainCell(minsert(s, p))
    <2>1. ASSUME <<BlockCell(s), c>> \in Edge(p) PROVE c = MainCell(minsert(s, p))
      <3>1. \/ \E t \in Words(W) : <<BlockCell(s), c>> = <<MainCell(t), MainCell(t)>>
            \/ \E r \in Words(W - 1) : <<BlockCell(s), c>> = <<BlockCell(r), MainCell(minsert(r, p))>>
            \/ \E t \in Words(W) : <<BlockCell(s), c>> \in {MainCell(t)} \X include_horizontal(t, p)
        BY <2>1 DEF Edge
      <3>2. QED
        BY <1>1, <1>2, <3>1
    <2>2. ASSUME c = MainCell(minsert(s, p)) PROVE <<BlockCell(s), c>> \in Edge(p)
      BY <2>2 DEF Edge
    <2>3. QED
      BY <2>1, <2>2
  <1>5. QED
    BY <1>3, <1>4

\* The cell of a choice, blocked or not.
LEMMA CellIs ==
  ASSUME NEW x \in V, NEW t, ChoiceRight(x, t)
  PROVE  /\ Pos(x) \in 0 .. W - 1 /\ x \in Nat /\ W \in Nat /\ W > 1 /\ t \in Chosen /\ t.m \in Words(W) /\ t.b \in BOOLEAN
         /\ t = [S |-> t.S, m |-> t.m, b |-> t.b]
         /\ ~t.b => Cell(x, t) = MainCell(t.m)
         /\ t.b => /\ Pos(x) > 0 /\ mshrink(t.m, Pos(x)) \in Words(W - 1)
                   /\ Cell(x, t) = BlockCell(mshrink(t.m, Pos(x)))
                   /\ minsert(mshrink(t.m, Pos(x)), Pos(x)) = t.m
         /\ Cell(x, t) \in Ranks
  <1>1. /\ Pos(x) \in 0 .. W - 1 /\ x \in Nat /\ W \in Nat /\ W > 1
    <2>1. x \in Nat /\ W \in Nat /\ W > 1
      BY Numbers
    <2>2. QED
      BY <2>1, PosType
  <1>2. t \in Chosen /\ t.m \in Words(W) /\ t.b \in BOOLEAN /\ t = [S |-> t.S, m |-> t.m, b |-> t.b]
    BY DEF ChoiceRight, Chosen
  <1>3. ~t.b => Cell(x, t) = MainCell(t.m)
    BY DEF Cell, CellOf
  <1>4. ASSUME t.b
        PROVE  /\ Pos(x) > 0 /\ mshrink(t.m, Pos(x)) \in Words(W - 1)
               /\ Cell(x, t) = BlockCell(mshrink(t.m, Pos(x)))
               /\ minsert(mshrink(t.m, Pos(x)), Pos(x)) = t.m
    <2> DEFINE m == t.m
               p == Pos(x)
    <2>1. m[p] = "N" /\ p > 0
      BY <1>4 DEF ChoiceRight, BlockRight
    <2>2. m \in Words(W) /\ p \in 0 .. W - 1
      BY <1>1, <1>2
    <2>3. Cell(x, t) = BlockCell(mshrink(m, p))
      BY <1>4 DEF Cell, CellOf
    <2> HIDE DEF m, p
    <2>4. mshrink(m, p) \in Words(W - 1) /\ minsert(mshrink(m, p), p) = m
      BY <2>1, <2>2, ShrinkWord, ShrinkInsert
    <2>5. QED
      BY <2>1, <2>3, <2>4 DEF m, p
  <1>5. Cell(x, t) \in Ranks
    <2>1. /\ \A m \in Words(W) : MainCell(m) \in Ranks
          /\ \A s \in Words(W - 1) : BlockCell(s) \in Ranks
      BY CellsAre
    <2>2. QED
      BY <1>2, <1>3, <1>4, <2>1
  <1>6. QED
    BY <1>1, <1>2, <1>3, <1>4, <1>5

\* The cell after leaving the edge out, and after including it.
LEMMA CellAfter ==
  ASSUME NEW x \in V, x # Target, Pos(x) > 0, NEW t, ChoiceRight(x, t)
  PROVE  /\ Pos(x) \in 1 .. W - 1 /\ Pos(x + 1) = Pos(x) - 1
         /\ Cell(x + 1, After(x, t, <<t.m, FALSE>>)) = MainCell(t.m)
         /\ \A u : Cell(x + 1, After(x, t, <<u, TRUE>>)) = CellOf(u, Pos(x) - 1, Pos(x) > 1 /\ t.m[Pos(x) - 1] # "N")
  <1>1. x \in Nat /\ W \in Nat /\ W > 1 /\ Pos(x) \in 0 .. W - 1
    BY CellIs
  <1>2. Pos(x) \in 1 .. W - 1 /\ 1 \in 0 .. Pos(x)
    BY <1>1
  <1>3. Pos(x + 1) = Pos(x) - 1
    <2>1. \A d \in 0 .. Pos(x) : Pos(x + d) = Pos(x) - d
      BY <1>1, PosType
    <2>2. QED
      BY <1>2, <2>1
  <1>4. After(x, t, <<t.m, FALSE>>).m = t.m /\ After(x, t, <<t.m, FALSE>>).b = FALSE
    BY DEF After
  <1>5. \A u : /\ After(x, t, <<u, TRUE>>).m = u
               /\ After(x, t, <<u, TRUE>>).b = (Pos(x) > 1 /\ t.m[Pos(x) - 1] # "N")
    BY DEF After
  <1>6. QED
    BY <1>2, <1>3, <1>4, <1>5 DEF Cell, CellOf

(***************************************************************************)
(* Where there is an edge to the right and one below, the moves of a       *)
(* choice are what flows from its cell: each move is one of the edges      *)
(* between cells, each such edge is a move, and only one.                  *)
(***************************************************************************)
LEMMA MoveCells ==
  ASSUME NEW x \in V, x # Target, Pos(x) > 0, x < LastRow, NEW t, ChoiceRight(x, t)
  PROVE  /\ \A c \in Allowed(x, t) : <<Cell(x, t), Cell(x + 1, After(x, t, c))>> \in Edge(Pos(x))
         /\ \A d : <<Cell(x, t), d>> \in Edge(Pos(x)) => \E c \in Allowed(x, t) : Cell(x + 1, After(x, t, c)) = d
         /\ \A c, e \in Allowed(x, t) :
               Cell(x + 1, After(x, t, c)) = Cell(x + 1, After(x, t, e)) => c = e
  <1> DEFINE p == Pos(x)
             m == t.m
             b1 == p > 1 /\ m[p - 1] # "N"
             Leave == <<m, FALSE>>
             Take(u) == <<u, TRUE>>
             Goes(c) == Cell(x + 1, After(x, t, c))
  <1>1. /\ p \in 1 .. W - 1 /\ x \in Nat /\ W \in Nat /\ W > 1 /\ m \in Words(W) /\ t \in Chosen /\ LastRow \in Nat
        /\ ~t.b => Cell(x, t) = MainCell(m)
        /\ t.b => /\ mshrink(m, p) \in Words(W - 1) /\ Cell(x, t) = BlockCell(mshrink(m, p))
                  /\ minsert(mshrink(m, p), p) = m
    <2>1. LastRow \in Nat
      BY Numbers
    <2>2. QED
      BY <2>1, CellIs, CellAfter
  <1>2. Goes(Leave) = MainCell(m) /\ \A u : Goes(Take(u)) = CellOf(u, p - 1, b1)
    BY CellAfter
  <1>3. \A c : c \in Allowed(x, t) <=> c = Leave \/ (~t.b /\ \E u \in Including(m, p) : c = Take(u))
    <2>1. ~(x >= LastRow)
      BY <1>1
    <2>2. \A c : c \in Allowed(x, t) <=> c \in Moves(x, t)
      BY <2>1 DEF Allowed
    <2>3. p > 0
      BY <1>1
    <2> HIDE DEF p
    <2>4. \A c : c \in Moves(x, t) <=> c = Leave \/ (~t.b /\ \E u \in Including(m, p) : c = Take(u))
      BY <2>3 DEF Moves, p
    <2>5. QED
      BY <2>2, <2>4
  <1>4. CASE t.b
    <2> DEFINE s == mshrink(m, p)
    <2>1. s \in Words(W - 1) /\ Cell(x, t) = BlockCell(s) /\ minsert(s, p) = m
      BY <1>1, <1>4
    <2>2. \A c : c \in Allowed(x, t) <=> c = Leave
      BY <1>3, <1>4
    <2> HIDE DEF s, p
    <2>3. \A d : <<BlockCell(s), d>> \in Edge(p) <=> d = MainCell(minsert(s, p))
      BY <1>1, <2>1, EdgeFrom
    <2> HIDE DEF Goes, Leave, Take, m
    <2>4. QED
      BY <1>2, <2>1, <2>2, <2>3 DEF Goes, p
  <1>5. CASE ~t.b
    <2>1. Cell(x, t) = MainCell(m)
      BY <1>1, <1>5
    <2>2. \A c : c \in Allowed(x, t) <=> c = Leave \/ \E u \in Including(m, p) : c = Take(u)
      BY <1>3, <1>5
    <2>3. \A d : <<MainCell(m), d>> \in Edge(p) <=> d = MainCell(m) \/ \E u \in Including(m, p) : d = CellOf(u, p - 1, b1)
      <3> HIDE DEF p, m
      <3>1. QED
        BY <1>1, EdgeFrom
    <2>4. \A u \in Including(m, p) : CellOf(u, p - 1, b1) # MainCell(m)
      <3>1. ASSUME NEW u \in Including(m, p), CellOf(u, p - 1, b1) = MainCell(m) PROVE FALSE
        <4>1. /\ u \in Words(W)
              /\ \A q \in 0 .. W - 1 : u[q] # "N" <=> IF q = p \/ q = p - 1 THEN m[q] = "N" ELSE m[q] # "N"
          <5> HIDE DEF p, m
          <5>1. QED
            BY <1>1, <3>1, Toggled
        <4>2. CASE b1
          <5> DEFINE r == p - 1
          <5>1. r \in 0 .. W - 1 /\ m[r] # "N"
            BY <1>1, <4>2
          <5>2. u[r] = "N"
            BY <4>1, <5>1
          <5>3. CellOf(u, r, b1) = BlockCell(mshrink(u, r))
            BY <4>2 DEF CellOf
          <5> HIDE DEF r
          <5>4. mshrink(u, r) \in Words(W - 1)
            BY <4>1, <5>1, <5>2, ShrinkWord
          <5>5. BlockCell(mshrink(u, r)) = MainCell(m)
            BY <3>1, <5>3 DEF r
          <5>6. MainN \in Nat /\ BlockN \in Nat /\ MainCell(m) \in 0 .. MainN - 1
                /\ BlockCell(mshrink(u, r)) \in MainN .. MainN + BlockN - 1
            <6> HIDE DEF m
            <6>1. QED
              BY <1>1, <5>4, CellsAre
          <5> HIDE DEF m
          <5>7. QED
            BY <5>5, <5>6
        <4>3. CASE ~b1
          <5>1. MainCell(u) = MainCell(m)
            BY <3>1, <4>3 DEF CellOf
          <5>2. u = m
            <6> HIDE DEF m
            <6>1. QED
              BY <1>1, <4>1, <5>1, CellsAre
          <5>3. p \in 0 .. W - 1
            BY <1>1
          <5>4. QED
            BY <4>1, <5>2, <5>3
        <4>4. QED
          BY <4>2, <4>3
      <3>2. QED
        BY <3>1
    <2>5. \A u, w \in Including(m, p) : u = w
      <3> HIDE DEF p, m
      <3>1. QED
        BY <1>1, IncludingOnce
    <2> HIDE DEF Goes, p, m, b1, Take, Leave
    <2>6. \A c \in Allowed(x, t) : <<Cell(x, t), Goes(c)>> \in Edge(p)
      BY <1>2, <2>1, <2>2, <2>3
    <2>7. \A d : <<Cell(x, t), d>> \in Edge(p) => \E c \in Allowed(x, t) : Goes(c) = d
      BY <1>2, <2>1, <2>2, <2>3
    <2>8. \A c, e \in Allowed(x, t) : Goes(c) = Goes(e) => c = e
      BY <1>2, <2>2, <2>4, <2>5
    <2>9. QED
      BY <2>6, <2>7, <2>8 DEF Goes, p
  <1>6. QED
    BY <1>4, <1>5

\* What is before a move can be told from what is after it.
LEMMA AfterBefore ==
  ASSUME NEW x \in V, x # Target, NEW t, ChoiceRight(x, t), NEW c
  PROVE  After(x, t, c).S \cap Before(x) = t.S
  <1>1. Before(x) \cap Right(x) = {} /\ Before(x) \cap Down(x) = {}
    BY EdgesFrom
  <1>2. t.S \subseteq Before(x)
    BY DEF ChoiceRight
  <1>3. After(x, t, c).S = Decided(t.S, x, c[2], c[1][Pos(x)] # "N")
    BY DEF After
  <1> DEFINE T == t.S
             d == c[1][Pos(x)] # "N"
  <1> HIDE DEF T, d
  <1>4. Decided(T, x, c[2], d) \cap Before(x) = T
    BY <1>1, <1>2 DEF Decided, T
  <1>5. QED
    BY <1>3, <1>4 DEF T, d

\* What is reached next comes of something reached, by a move.
LEMMA ReachedNext ==
  ASSUME NEW x \in V, x # Target
  PROVE  /\ x + 1 \in V
         /\ \A u : u \in Reached[x + 1] <=> \E t \in Reached[x] : \E c \in Allowed(x, t) : u = After(x, t, c)
  <1>1. Reached[x + 1] = NextChoices(x, Reached[x])
    BY ReachedDef DEF IsReached
  <1>2. x + 1 \in V
    BY EdgesFrom
  <1>3. \A u : u \in NextChoices(x, Reached[x]) <=> \E t \in Reached[x] : u \in Onwards(x, t)
    BY DEF NextChoices
  <1>4. QED
    BY <1>1, <1>2, <1>3 DEF Onwards

\* As many choices have a cell after an edge as before it had one of those that flow into it.
LEMMA CountFlow ==
  ASSUME NEW x \in V, x # Target, Pos(x) > 0, x < LastRow, NEW d
  PROVE  Many(x + 1, d) = Cardinality({t \in Reached[x] : <<Cell(x, t), d>> \in Edge(Pos(x))})
  <1> DEFINE U == {u \in Reached[x + 1] : Cell(x + 1, u) = d}
             T == {t \in Reached[x] : <<Cell(x, t), d>> \in Edge(Pos(x))}
             Of(u) == CHOOSE t \in Reached[x] : t.S = u.S \cap Before(x)
             g == [u \in U |-> Of(u)]
  <1>1. \A t \in Reached[x] : ChoiceRight(x, t)
    BY ReachedRight
  <1>2. \A t, s \in Reached[x] : t.S = s.S => t = s
    BY <1>1, ChoiceOnce
  <1>3. \A t \in Reached[x] : \A c : After(x, t, c).S \cap Before(x) = t.S
    BY <1>1, AfterBefore
  <1>4. ASSUME NEW t \in Reached[x], NEW c, After(x, t, c) \in U PROVE g[After(x, t, c)] = t
    <2> DEFINE u == After(x, t, c)
    <2>1. u.S \cap Before(x) = t.S
      BY <1>3
    <2>2. u \in U
      BY <1>4
    <2> HIDE DEF u, U
    <2>3. Of(u) = t
      BY <1>2, <2>1
    <2> HIDE DEF Of
    <2>4. g[u] = t
      BY <2>2, <2>3
    <2>5. QED
      BY <2>4 DEF u
  <1> HIDE DEF g
  <1>5. ASSUME NEW u \in U
        PROVE  \E t \in T : \E c \in Allowed(x, t) : u = After(x, t, c) /\ g[u] = t
    <2>1. PICK t \in Reached[x] : \E c \in Allowed(x, t) : u = After(x, t, c)
      BY ReachedNext
    <2>2. PICK c \in Allowed(x, t) : u = After(x, t, c)
      BY <2>1
    <2>3. <<Cell(x, t), Cell(x + 1, After(x, t, c))>> \in Edge(Pos(x))
      BY <1>1, MoveCells
    <2>4. Cell(x + 1, u) = d
      BY <1>5
    <2>5. t \in T
      BY <2>2, <2>3, <2>4
    <2>6. g[u] = t
      <3> HIDE DEF U
      <3>1. QED
        BY <1>4, <1>5, <2>2
    <2>7. QED
      BY <2>2, <2>5, <2>6
  <1>6. g \in [U -> T]
    <2>1. g = [u \in U |-> g[u]]
      BY DEF g
    <2>2. \A u \in U : g[u] \in T
      BY <1>5
    <2> HIDE DEF U, T
    <2>3. QED
      BY <2>1, <2>2
  <1>7. ASSUME NEW u \in U, NEW w \in U, g[u] = g[w] PROVE u = w
    <2>1. PICK t \in T : \E c \in Allowed(x, t) : u = After(x, t, c) /\ g[u] = t
      BY <1>5
    <2>2. PICK c \in Allowed(x, t) : u = After(x, t, c) /\ g[u] = t
      BY <2>1
    <2>3. PICK s \in T : \E e \in Allowed(x, s) : w = After(x, s, e) /\ g[w] = s
      BY <1>5
    <2>4. PICK e \in Allowed(x, s) : w = After(x, s, e) /\ g[w] = s
      BY <2>3
    <2>5. s = t
      BY <1>7, <2>2, <2>4
    <2>6. Cell(x + 1, After(x, t, c)) = Cell(x + 1, After(x, t, e))
      BY <2>2, <2>4, <2>5
    <2>7. c = e
      <3>1. t \in Reached[x] /\ e \in Allowed(x, t)
        BY <2>4, <2>5
      <3>2. QED
        BY <1>1, <2>6, <3>1, MoveCells
    <2>8. QED
      BY <2>2, <2>4, <2>5, <2>7
  <1>8. ASSUME NEW t \in T PROVE \E u \in U : g[u] = t
    <2>1. PICK c \in Allowed(x, t) : Cell(x + 1, After(x, t, c)) = d
      BY <1>1, MoveCells
    <2>2. After(x, t, c) \in U
      BY <2>1, ReachedNext
    <2>3. g[After(x, t, c)] = t
      <3>1. t \in Reached[x]
        OBVIOUS
      <3> HIDE DEF U, T
      <3>2. QED
        BY <1>4, <2>2, <3>1
    <2>4. QED
      BY <2>2, <2>3
  <1>9. IsFiniteSet(U)
    <2>1. x + 1 \in V
      BY ReachedNext
    <2>2. IsFiniteSet(Reached[x + 1])
      BY <2>1, ReachedFinite
    <2>3. QED
      BY <2>2, FS_Subset
  <1> HIDE DEF U, T
  <1>10. Cardinality(T) = Cardinality(U)
    BY <1>6, <1>7, <1>8, <1>9, SameSize
  <1>11. QED
    BY <1>10 DEF Many, U, T

\* Where there is no edge to the right, each choice goes on in its cell.
LEMMA CountSame ==
  ASSUME NEW x \in V, x # Target, Pos(x) = 0, x < LastRow, NEW d
  PROVE  Many(x + 1, d) = Many(x, d)
  <1> DEFINE U == {u \in Reached[x + 1] : Cell(x + 1, u) = d}
             T == {t \in Reached[x] : Cell(x, t) = d}
             Stay(t) == <<t.m, FALSE>>
             Leave(t) == After(x, t, Stay(t))
             g == [t \in T |-> Leave(t)]
  <1>1. \A t \in Reached[x] : ChoiceRight(x, t)
    BY ReachedRight
  <1>2. x \in Nat /\ LastRow \in Nat
    BY Numbers
  <1>3. \A t \in Reached[x] : Allowed(x, t) = {Stay(t)}
    <2>1. ~(x >= LastRow) /\ ~(Pos(x) > 0)
      BY <1>2
    <2>2. QED
      BY <2>1 DEF Allowed, Moves
  <1>4. ASSUME NEW t \in Reached[x] PROVE Cell(x + 1, Leave(t)) = Cell(x, t)
    <2>1. ~t.b
      BY <1>1, CellIs
    <2>2. Leave(t).m = t.m /\ Leave(t).b = FALSE
      BY DEF After
    <2>3. QED
      BY <2>1, <2>2 DEF Cell, CellOf
  <1>5. \A u : u \in Reached[x + 1] <=> \E t \in Reached[x] : u = Leave(t)
    <2>1. \A u : u \in Reached[x + 1] <=> \E t \in Reached[x] : \E c \in Allowed(x, t) : u = After(x, t, c)
      BY ReachedNext
    <2> HIDE DEF Stay
    <2>2. QED
      BY <1>3, <2>1
  <1>6. \A t \in Reached[x] : Leave(t).S \cap Before(x) = t.S
    BY <1>1, AfterBefore
  <1>7. \A t, s \in Reached[x] : t.S = s.S => t = s
    BY <1>1, ChoiceOnce
  <1> HIDE DEF Leave
  <1>8. g \in [T -> U]
    BY <1>4, <1>5
  <1>9. \A t, s \in T : g[t] = g[s] => t = s
    <2>1. ASSUME NEW t \in T, NEW s \in T, g[t] = g[s] PROVE t = s
      <3>1. Leave(t) = Leave(s)
        BY <2>1
      <3>2. QED
        BY <1>6, <1>7, <3>1
    <2>2. QED
      BY <2>1
  <1>10. \A u \in U : \E t \in T : g[t] = u
    BY <1>4, <1>5
  <1>11. IsFiniteSet(T)
    <2>1. IsFiniteSet(Reached[x])
      BY ReachedFinite
    <2>2. QED
      BY <2>1, FS_Subset
  <1> HIDE DEF U, T, g
  <1>12. Cardinality(U) = Cardinality(T)
    BY <1>8, <1>9, <1>10, <1>11, SameSize
  <1>13. QED
    BY <1>12 DEF Many, U, T

-----------------------------------------------------------------------------
\* The vector when it is x's turn, modulo mod.
Vec(mod, x) == [c \in Ranks |-> Many(x, c) % mod]

\* Each entry is a residue.
LEMMA VecType ==
  ASSUME NEW mod \in Nat \ {0}, NEW x \in V
  PROVE  /\ Vec(mod, x) \in [Ranks -> Nat]
         /\ \A c \in Ranks : Vec(mod, x)[c] = Many(x, c) % mod
         /\ \A d : Many(x, d) \in Nat
  <1>1. ASSUME NEW c PROVE Many(x, c) \in Nat
    <2> DEFINE T == {t \in Reached[x] : Cell(x, t) = c}
    <2>1. IsFiniteSet(Reached[x])
      BY ReachedFinite
    <2>2. IsFiniteSet(T)
      BY <2>1, FS_Subset
    <2> HIDE DEF T
    <2>3. Cardinality(T) \in Nat
      BY <2>2, FS_CardinalityType
    <2>4. QED
      BY <2>3 DEF Many, T
  <1>2. ASSUME NEW c \in Ranks PROVE Many(x, c) % mod \in Nat
    <2>1. Many(x, c) \in Int
      BY <1>1
    <2> DEFINE a == Many(x, c)
    <2> HIDE DEF a
    <2>2. a % mod \in 0 .. mod - 1
      BY <2>1, ModType DEF a
    <2>3. QED
      BY <2>2 DEF a
  <1>3. QED
    BY <1>1, <1>2 DEF Vec

\* Adding up what flows into a cell at an edge gives the next vector.
LEMMA VecEdge ==
  ASSUME NEW mod \in Nat \ {0}, NEW x \in V, x # Target, Pos(x) > 0, x < LastRow, NEW c \in Ranks
  PROVE  Vec(mod, x + 1)[c] = Added(mod, Sources[Pos(x)][c], Vec(mod, x))
  <1> DEFINE T == Reached[x]
             class == [t \in T |-> Cell(x, t)]
             from == Sources[Pos(x)][c]
             v == Vec(mod, x)
  <1>1. IsFiniteSet(T) /\ \A t \in T : ChoiceRight(x, t)
    BY ReachedFinite, ReachedRight
  <1>2. Pos(x) \in 1 .. W - 1
    <2>1. x \in Nat /\ W \in Nat /\ W > 1
      BY Numbers
    <2>2. Pos(x) \in 0 .. W - 1
      BY <2>1, PosType
    <2>3. QED
      BY <2>1, <2>2
  <1>3. /\ from \in Seq(Ranks) /\ NoRepeats(from)
        /\ \A d : (\E i \in DOMAIN from : from[i] = d) <=> <<d, c>> \in Edge(Pos(x))
    BY <1>2, SourcesAre
  <1>4. v \in [Ranks -> Nat] /\ \A d \in Ranks : v[d] = Many(x, d) % mod
    BY VecType
  <1>5. \A d \in Ranks : v[d] = Cardinality({t \in T : class[t] = d}) % mod
    <2>1. \A d : {t \in T : Cell(x, t) = d} = {t \in T : class[t] = d}
      OBVIOUS
    <2>2. \A d : Many(x, d) = Cardinality({t \in T : class[t] = d})
      BY <2>1 DEF Many
    <2> HIDE DEF v, T, class
    <2>3. QED
      BY <1>4, <2>2
  <1>6. {t \in T : \E i \in DOMAIN from : class[t] = from[i]} = {t \in T : <<Cell(x, t), c>> \in Edge(Pos(x))}
    <2>1. \A t \in T : class[t] = Cell(x, t)
      OBVIOUS
    <2> HIDE DEF from, class, T
    <2>2. QED
      BY <1>3, <2>1
  <1>7. Many(x + 1, c) = Cardinality({t \in T : \E i \in DOMAIN from : class[t] = from[i]})
    <2> HIDE DEF from, class
    <2>1. QED
      BY <1>6, CountFlow
  <1> HIDE DEF T, class, from, v
  <1>11. mod \in Nat \ {0} /\ IsFiniteSet(T) /\ v \in [Ranks -> Nat] /\ from \in Seq(Ranks) /\ NoRepeats(from)
    BY <1>1, <1>3, <1>4
  <1>12. Classified(mod, Ranks, T, class, v)
    BY <1>4, <1>5 DEF Classified
  <1>8. Added(mod, from, v) = Cardinality(AnyOf(T, class, from)) % mod
    BY <1>11, <1>12, AddedClasses
  <1>9. Vec(mod, x + 1)[c] = Many(x + 1, c) % mod
    BY DEF Vec
  <1>10. QED
    BY <1>7, <1>8, <1>9 DEF from, v, AnyOf

\* The vertex at a position of a row above the last one.
LEMMA RowAt ==
  ASSUME NEW r \in 0 .. W - 2, NEW p \in 0 .. W - 1, NEW x, x = W * r + (W - 1 - p)
  PROVE  x \in V /\ x \in Nat /\ x # Target /\ x < LastRow /\ Pos(x) = p /\ x + 1 \in V
  <1>1. W \in Nat \ {0} /\ LastRow \in Nat /\ LastRow = W * W - W /\ LastRow < Target /\ V = 0 .. Target /\ Target \in Nat
        /\ W * W \in Nat
    BY Numbers
  <1>2. W * r \in Nat /\ W * r + W <= W * (W - 1)
    <2>1. r \in Int /\ W - 1 \in Int /\ r < W - 1 /\ 0 <= r
      BY <1>1
    <2>2. W * r + W <= W * (W - 1)
      BY <1>1, <2>1, MulMono
    <2>3. QED
      BY <1>1, <2>2
  <1>3. W * (W - 1) = W * W - W
    BY <1>1
  <1> DEFINE a == W * r
             b == W - 1 - p
  <1>4. a \in Nat /\ b \in 0 .. W - 1 /\ x = a + b /\ a + W <= LastRow /\ W - 1 - b = p
    BY <1>1, <1>2, <1>3
  <1> HIDE DEF b
  <1>5. x % W = b
    <2>1. W \in Nat \ {0} /\ b \in 0 .. W - 1 /\ r \in Int /\ x \in Int /\ x = W * r + b
      BY <1>1, <1>4
    <2>2. QED
      BY <2>1, ModUnique
  <1> HIDE DEF a
  <1>6. QED
    BY <1>1, <1>4, <1>5 DEF Pos

\* A window of edges turns the counts at one vertex of a row into those at a later one.
THEOREM RowVec ==
  ASSUME NEW mod \in Nat \ {0}, NEW r \in 0 .. W - 2, NEW p_hi \in 1 .. W - 1, NEW p_lo \in 1 .. p_hi
  PROVE  WindowSteps(mod, Flow(p_hi, p_lo), Vec(mod, W * r + (W - 1 - p_hi))) = Vec(mod, W * r + (W - p_lo))
  <1> DEFINE At_(p) == W * r + (W - 1 - p)
             N == [p \in 0 .. W - 1 |-> Vec(mod, At_(p))]
  <1>1. W \in Nat /\ W * r \in Nat
    BY Numbers
  <1>2. \A p \in 0 .. W - 1 : At_(p) \in V /\ N[p] = Vec(mod, At_(p))
    BY RowAt
  <1>3. p_lo - 1 \in 0 .. W - 1 /\ p_hi \in 0 .. W - 1 /\ (\A p \in p_lo - 1 .. p_hi : p \in 0 .. W - 1)
        /\ \A p \in p_lo .. p_hi : p \in 1 .. W - 1 /\ p - 1 \in 0 .. W - 1 /\ p \in 0 .. W - 1
    BY <1>1
  <1>4. \A p \in p_lo - 1 .. p_hi : N[p] \in [Ranks -> Nat]
    <2>1. ASSUME NEW p \in p_lo - 1 .. p_hi PROVE N[p] \in [Ranks -> Nat]
      <3> DEFINE x == At_(p)
      <3>1. x \in V /\ N[p] = Vec(mod, x)
        BY <1>2, <1>3
      <3> HIDE DEF x, N
      <3>2. QED
        BY <3>1, VecType
    <2>2. QED
      BY <2>1
  <1>5. \A p \in 1 .. W - 1 : \A c \in Ranks : Sources[p][c] \in Seq(Ranks)
    BY SourcesAre
  <1>6. ASSUME NEW p \in p_lo .. p_hi, NEW c \in Ranks PROVE N[p - 1][c] = Added(mod, Sources[p][c], N[p])
    <2> DEFINE x == At_(p)
    <2>1. x \in V /\ x # Target /\ x < LastRow /\ Pos(x) = p /\ Pos(x) > 0
      <3>1. p \in 0 .. W - 1 /\ p > 0
        BY <1>3
      <3>2. QED
        BY <3>1, RowAt
    <2>2. At_(p - 1) = x + 1
      BY <1>1, <1>3
    <2>3. N[p - 1] = Vec(mod, x + 1) /\ N[p] = Vec(mod, x)
      BY <1>2, <1>3, <2>2
    <2> HIDE DEF x, N
    <2>4. Vec(mod, x + 1)[c] = Added(mod, Sources[Pos(x)][c], Vec(mod, x))
      BY <2>1, VecEdge
    <2>5. QED
      BY <2>1, <2>3, <2>4
  <1>7. N[p_hi] = Vec(mod, W * r + (W - 1 - p_hi)) /\ N[p_lo - 1] = Vec(mod, W * r + (W - p_lo))
    <2>1. At_(p_lo - 1) = W * r + (W - p_lo)
      BY <1>1
    <2>2. QED
      BY <1>2, <1>3, <2>1
  <1> HIDE DEF N
  <1>8. WindowSteps(mod, Flow(p_hi, p_lo), N[p_hi]) = N[p_lo - 1]
    BY <1>4, <1>5, <1>6, WindowOfEdges
  <1>9. QED
    BY <1>7, <1>8

\* The vector does not change from the last vertex of a row to the first of the next.
LEMMA RowEnd ==
  ASSUME NEW mod \in Nat \ {0}, NEW r \in 0 .. W - 2
  PROVE  Vec(mod, W * r + W) = Vec(mod, W * r + (W - 1))
  <1> DEFINE x == W * r + (W - 1 - 0)
  <1>1. W \in Nat /\ W > 1 /\ W * r \in Nat
    BY Numbers
  <1>2. x \in V /\ x # Target /\ x < LastRow /\ Pos(x) = 0
    <2>1. 0 \in 0 .. W - 1
      BY <1>1
    <2>2. QED
      BY <2>1, RowAt
  <1>3. x + 1 = W * r + W /\ x = W * r + (W - 1)
    BY <1>1
  <1> HIDE DEF x
  <1>4. \A d : Many(x + 1, d) = Many(x, d)
    BY <1>2, CountSame
  <1>5. Vec(mod, x + 1) = Vec(mod, x)
    BY <1>4 DEF Vec
  <1>6. QED
    BY <1>3, <1>5

-----------------------------------------------------------------------------
(***************************************************************************)
(* The last row. There is no edge below it, so its edges are forced: the   *)
(* first path end is led to the right until it meets the next. That ends   *)
(* in a path exactly if the line never rises above one.                    *)
(***************************************************************************)
Alt(m) == \A q \in 0 .. W : Line(m)[q] <= 1

\* Where no path ends above a position, the line is one down to it.
LEMMA LineTop ==
  ASSUME NEW m \in Words(W), NEW a \in 0 .. W, \A q \in a .. W - 1 : m[q] = "N"
  PROVE  \A q \in a .. W : Line(m)[q] = 1
  <1> DEFINE Bad == {q \in a .. W : Line(m)[q] # 1}
  <1>1. W \in Nat /\ Line(m)[W] = 1 /\ \A q \in 0 .. W - 1 : Line(m)[q] = Line(m)[q + 1] + Val(m[q])
    BY LineOf
  <1>2. ASSUME Bad # {} PROVE FALSE
    <2>1. Bad \in SUBSET (0 .. W)
      BY <1>1
    <2> DEFINE q == Max(Bad)
    <2>2. q \in Bad /\ \A r \in Bad : r <= q
      <3> HIDE DEF Bad
      <3>1. QED
        BY <1>1, <1>2, <2>1, NatMax
    <2> HIDE DEF q
    <2>3. q \in a .. W - 1 /\ q \in 0 .. W - 1 /\ q + 1 \in a .. W /\ ~(q + 1 <= q)
      BY <1>1, <2>2
    <2>4. Line(m)[q + 1] = 1
      BY <2>2, <2>3
    <2>5. Line(m)[q] = 1
      BY <1>1, <2>3, <2>4 DEF Val
    <2>6. QED
      BY <2>2, <2>5
  <1>3. QED
    BY <1>2

\* Including where the path end to the right of an edge's vertex is the first: the line stays low or not.
LEMMA AltInclude ==
  ASSUME NEW m \in Words(W), NEW p \in 1 .. W - 1, \A q \in p + 1 .. W - 1 : m[q] = "N", m[p] # "N",
         NEW t \in Including(m, p)
  PROVE  Alt(t) <=> Alt(m)
  <1>1. /\ t \in Words(W) /\ W \in Nat /\ p + 1 \in 0 .. W /\ p \in 0 .. W /\ p - 1 \in 0 .. W
        /\ p \in 0 .. W - 1 /\ p - 1 \in 0 .. W - 1
        /\ PairCase(m, t, p) \/ (\E q : LeftCase(m, t, p, q)) \/ (\E q : RightCase(m, t, p, q))
    BY IncludingCases, LineOf
  <1>2. Line(m)[p + 1] = 1
    BY <1>1, LineTop
  <1>3. /\ \A q \in 0 .. W : Line(m)[q] \in Nat /\ Line(t)[q] \in Nat
        /\ \A q \in 0 .. W - 1 : m[q] \in Letters /\ Line(m)[q] = Line(m)[q + 1] + Val(m[q])
    <2>1. \A q \in 0 .. W : Line(m)[q] \in Nat
      BY <1>1, LineOf
    <2>2. \A q \in 0 .. W : Line(t)[q] \in Nat
      BY <1>1, LineOf
    <2>3. \A q \in 0 .. W - 1 : m[q] \in Letters /\ Line(m)[q] = Line(m)[q + 1] + Val(m[q])
      BY LineOf
    <2>4. QED
      BY <2>1, <2>2, <2>3
  <1>4. Line(m)[p] = 1 + Val(m[p]) /\ Line(m)[p - 1] = Line(m)[p] + Val(m[p - 1]) /\ m[p] \in Letters /\ m[p - 1] \in Letters
    <2>1. Line(m)[p - 1] = Line(m)[(p - 1) + 1] + Val(m[p - 1]) /\ (p - 1) + 1 = p
      BY <1>1, <1>3
    <2>2. QED
      BY <1>1, <1>2, <1>3, <2>1
  <1>5. CASE PairCase(m, t, p)
    <2>1. Val(t[p]) = 0 /\ Val(t[p]) + Val(t[p - 1]) = Val(m[p]) + Val(m[p - 1])
      BY <1>5 DEF PairCase, Val
    <2>2. Elsewhere(Line(m), Line(t), W + 1, p) /\ Line(t)[p] = Line(m)[p + 1] + Val(t[p])
      BY <1>1, <1>5, <2>1, LinePair DEF PairCase
    <2>3. Line(t)[p] = 1 /\ \A q \in 0 .. W : q # p => Line(t)[q] = Line(m)[q]
      BY <1>1, <1>2, <2>1, <2>2 DEF Elsewhere
    <2>4. Line(m)[p] = Line(m)[p - 1] \/ Line(m)[p] <= 1
      BY <1>4, <1>5 DEF PairCase, Val
    <2>5. \A q \in 0 .. W : q # p => (Line(t)[q] <= 1 <=> Line(m)[q] <= 1)
      BY <2>3
    <2>6. p - 1 # p
      BY <1>1
    <2>7. Alt(t) => Line(m)[p - 1] <= 1
      BY <1>1, <2>5, <2>6 DEF Alt
    <2>8. Alt(t) => Alt(m)
      BY <1>1, <2>4, <2>5, <2>7 DEF Alt
    <2>9. Alt(m) => Alt(t)
      BY <1>1, <2>3, <2>5 DEF Alt
    <2>10. QED
      BY <2>8, <2>9
  <1>6. CASE \E q : LeftCase(m, t, p, q)
    <2>1. PICK q : LeftCase(m, t, p, q)
      BY <1>6
    <2>2. \A r \in 0 .. W + 1 : r > p \/ r <= q => Line(t)[r] = Line(m)[r]
      BY <1>1, <2>1, LineLeft
    <2>3. q \in 0 .. p - 2 /\ Arc(Line(m), p - 1, q) /\ m[p] = "L"
      BY <2>1 DEF LeftCase
    <2>4. q \in 0 .. W /\ q \in 0 .. W + 1 /\ q <= q /\ (p - 1) + 1 = p
      BY <1>1, <2>3
    <2>5. Line(m)[q] = Line(m)[p]
      BY <2>3, <2>4 DEF Arc
    <2>6. Line(m)[p] = 2
      BY <1>4, <2>3 DEF Val
    <2>7. Line(t)[q] = 2
      BY <2>2, <2>4, <2>5, <2>6
    <2>8. ~Alt(m) /\ ~Alt(t)
      BY <1>1, <2>4, <2>6, <2>7 DEF Alt
    <2>9. QED
      BY <2>8
  <1>7. CASE \E q : RightCase(m, t, p, q)
    <2>1. m[p] = "R" /\ m[p - 1] = "R"
      BY <1>7 DEF RightCase
    <2>2. Line(m)[p] = 0 /\ Line(m)[p - 1] = 0 - 1
      BY <1>4, <2>1 DEF Val
    <2>3. QED
      BY <1>1, <1>3, <2>2
  <1>8. QED
    BY <1>1, <1>5, <1>6, <1>7

\* In the last row a choice has one move if its line is low, and the line stays as it is in that.
LEMMA AltMoves ==
  ASSUME NEW x \in V, x # Target, x >= LastRow, NEW t, ChoiceRight(x, t)
  PROVE  /\ \A c \in Allowed(x, t) : Alt(After(x, t, c).m) <=> Alt(t.m)
         /\ \A c, e \in Allowed(x, t) : c = e
         /\ Alt(t.m) => \E c : c \in Allowed(x, t)
  <1> DEFINE p == Pos(x)
             m == t.m
  <1>1. x \in Nat /\ t \in Chosen /\ m \in Words(W) /\ W \in Nat /\ W > 1
    BY CellIs
  <1>2. p \in 1 .. W - 1 /\ p \in 0 .. W - 1 /\ p > 0
    <2>1. p \in 0 .. W - 1
      BY <1>1, PosType
    <2>2. p = 0 => x < LastRow
      BY PosNext
    <2>3. LastRow \in Nat
      BY Numbers
    <2>4. QED
      BY <1>1, <2>1, <2>2, <2>3
  <1>3. \A q \in p + 1 .. W - 1 : m[q] = "N"
    BY DEF ChoiceRight, NoneBelow
  <1>4. t.b => m[p] = "N"
    BY DEF ChoiceRight, BlockRight
  <1>5. \A c \in Allowed(x, t) : /\ c = <<c[1], c[2]>> /\ c[2] \in BOOLEAN /\ c[1][p] = "N"
                                 /\ c[2] => c[1] \in Including(m, p)
                                 /\ ~c[2] => c[1] = m
    BY <1>1, MoveIs
  <1>6. \A u \in Including(m, p) : u[p] # "N" <=> m[p] = "N"
    BY <1>1, <1>2, Toggled
  <1>7. \A c \in Allowed(x, t) : c[2] <=> m[p] # "N"
    BY <1>5, <1>6
  <1>8. \A u, w \in Including(m, p) : u = w
    BY <1>1, <1>2, IncludingOnce
  <1>9. \A c, e \in Allowed(x, t) : c = e
    <2>1. ASSUME NEW c \in Allowed(x, t), NEW e \in Allowed(x, t) PROVE c = e
      <3>1. c = <<c[1], c[2]>> /\ e = <<e[1], e[2]>>
        BY <1>5
      <3>2. c[2] \in BOOLEAN /\ e[2] \in BOOLEAN /\ (c[2] <=> e[2])
        BY <1>5, <1>7
      <3>3. c[2] = e[2]
        BY <3>2
      <3>4. c[1] = e[1]
        <4> HIDE DEF p, m
        <4>1. QED
          BY <1>5, <1>8, <3>2
      <3>5. QED
        BY <3>1, <3>3, <3>4
    <2>2. QED
      BY <2>1
  <1>10. \A c \in Allowed(x, t) : Alt(c[1]) <=> Alt(m)
    <2>1. ASSUME NEW c \in Allowed(x, t) PROVE Alt(c[1]) <=> Alt(m)
      <3>1. CASE c[2]
        <4>1. c[1] \in Including(m, p) /\ m[p] # "N"
          BY <1>5, <1>7, <3>1
        <4> HIDE DEF p, m
        <4>2. QED
          BY <1>1, <1>2, <1>3, <4>1, AltInclude
      <3>2. CASE ~c[2]
        BY <1>5, <3>2
      <3>3. QED
        BY <3>1, <3>2
    <2>2. QED
      BY <2>1
  <1>11. ASSUME Alt(m) PROVE \E c : c \in Allowed(x, t)
    <2>1. CASE m[p] = "N"
      <3> DEFINE c == <<m, FALSE>>
      <3>1. c \in Moves(x, t) /\ c[1] = m
        BY DEF Moves
      <3> HIDE DEF c
      <3>2. c \in Allowed(x, t)
        BY <2>1, <3>1 DEF Allowed
      <3>3. QED
        BY <3>2
    <2>2. CASE m[p] # "N"
      <3>1. ~(m[p] = "L" /\ m[p - 1] = "R")
        <4>1. SUFFICES ASSUME m[p] = "L" PROVE FALSE
          OBVIOUS
        <4>2. Line(m)[p] = Line(m)[p + 1] + Val(m[p]) /\ p + 1 \in 0 .. W /\ p \in 0 .. W
          BY <1>1, <1>2, LineOf
        <4>3. Line(m)[p + 1] = 1
          BY <1>1, <1>3, <4>2, LineTop
        <4>4. Line(m)[p] = 2
          BY <4>1, <4>2, <4>3 DEF Val
        <4>5. QED
          BY <1>11, <4>2, <4>4 DEF Alt
      <3>2. PICK u : u \in Including(m, p)
        BY <1>1, <1>2, <3>1, IncludingOnce
      <3> DEFINE c == <<u, TRUE>>
      <3>3. ~t.b /\ Pos(x) > 0
        BY <1>2, <1>4, <2>2
      <3>4. c \in Moves(x, t) /\ c[1] = u
        BY <3>2, <3>3 DEF Moves
      <3>5. u[p] = "N"
        BY <1>6, <2>2, <3>2
      <3> HIDE DEF c
      <3>6. c \in Allowed(x, t)
        BY <3>4, <3>5 DEF Allowed
      <3>7. QED
        BY <3>6
    <2>3. QED
      BY <2>1, <2>2
  <1>12. \A c : After(x, t, c).m = c[1]
    BY DEF After
  <1>13. QED
    BY <1>9, <1>10, <1>11, <1>12

\* The choices whose line is low.
LowOnes(x) == {t \in Reached[x] : Alt(t.m)}

\* In the last row there are as many of them after a vertex's turn as before it.
LEMMA AltStep ==
  ASSUME NEW x \in V, x # Target, x >= LastRow
  PROVE  Cardinality(LowOnes(x + 1)) = Cardinality(LowOnes(x))
  <1> DEFINE U == LowOnes(x + 1)
             T == LowOnes(x)
             Of(u) == CHOOSE t \in Reached[x] : t.S = u.S \cap Before(x)
             g == [u \in U |-> Of(u)]
  <1>1. \A t \in Reached[x] : ChoiceRight(x, t)
    BY ReachedRight
  <1>2. \A t, s \in Reached[x] : t.S = s.S => t = s
    BY <1>1, ChoiceOnce
  <1>3. \A t \in Reached[x] : \A c : After(x, t, c).S \cap Before(x) = t.S
    BY <1>1, AfterBefore
  <1>4. ASSUME NEW t \in Reached[x], NEW c, After(x, t, c) \in U PROVE g[After(x, t, c)] = t
    <2> DEFINE u == After(x, t, c)
    <2>1. u.S \cap Before(x) = t.S
      BY <1>3
    <2>2. u \in U
      BY <1>4
    <2> HIDE DEF u, U
    <2>3. Of(u) = t
      BY <1>2, <2>1
    <2> HIDE DEF Of
    <2>4. g[u] = t
      BY <2>2, <2>3
    <2>5. QED
      BY <2>4 DEF u
  <1> HIDE DEF g
  <1>5. ASSUME NEW u \in U
        PROVE  \E t \in T : \E c \in Allowed(x, t) : u = After(x, t, c) /\ g[u] = t
    <2>1. PICK t \in Reached[x] : \E c \in Allowed(x, t) : u = After(x, t, c)
      BY ReachedNext DEF LowOnes
    <2>2. PICK c \in Allowed(x, t) : u = After(x, t, c)
      BY <2>1
    <2>3. Alt(After(x, t, c).m) <=> Alt(t.m)
      BY <1>1, AltMoves
    <2>4. Alt(u.m)
      BY <1>5 DEF LowOnes
    <2>5. t \in T
      BY <2>2, <2>3, <2>4 DEF LowOnes
    <2>6. g[u] = t
      <3> HIDE DEF U
      <3>1. QED
        BY <1>4, <1>5, <2>2
    <2>7. QED
      BY <2>2, <2>5, <2>6
  <1>6. g \in [U -> T]
    <2>1. g = [u \in U |-> g[u]]
      BY DEF g
    <2>2. \A u \in U : g[u] \in T
      BY <1>5
    <2> HIDE DEF U, T
    <2>3. QED
      BY <2>1, <2>2
  <1>7. ASSUME NEW u \in U, NEW w \in U, g[u] = g[w] PROVE u = w
    <2>1. PICK t \in T : \E c \in Allowed(x, t) : u = After(x, t, c) /\ g[u] = t
      BY <1>5
    <2>2. PICK c \in Allowed(x, t) : u = After(x, t, c) /\ g[u] = t
      BY <2>1
    <2>3. PICK s \in T : \E e \in Allowed(x, s) : w = After(x, s, e) /\ g[w] = s
      BY <1>5
    <2>4. PICK e \in Allowed(x, s) : w = After(x, s, e) /\ g[w] = s
      BY <2>3
    <2>5. s = t
      BY <1>7, <2>2, <2>4
    <2>6. t \in Reached[x] /\ e \in Allowed(x, t)
      BY <2>4, <2>5 DEF LowOnes
    <2>7. c = e
      BY <1>1, <2>6, AltMoves
    <2>8. QED
      BY <2>2, <2>4, <2>5, <2>7
  <1>8. ASSUME NEW t \in T PROVE \E u \in U : g[u] = t
    <2>1. t \in Reached[x] /\ Alt(t.m)
      BY DEF LowOnes
    <2>2. PICK c : c \in Allowed(x, t)
      BY <1>1, <2>1, AltMoves
    <2>3. Alt(After(x, t, c).m)
      BY <1>1, <2>1, <2>2, AltMoves
    <2>4. After(x, t, c) \in U
      BY <2>1, <2>2, <2>3, ReachedNext DEF LowOnes
    <2>5. g[After(x, t, c)] = t
      <3> HIDE DEF U, T
      <3>2. QED
        BY <1>4, <2>1, <2>4
    <2>6. QED
      BY <2>4, <2>5
  <1>9. IsFiniteSet(U)
    <2>1. x + 1 \in V
      BY ReachedNext
    <2>2. IsFiniteSet(Reached[x + 1])
      BY <2>1, ReachedFinite
    <2>3. QED
      BY <2>2, FS_Subset DEF LowOnes
  <1> HIDE DEF U, T
  <1>10. Cardinality(T) = Cardinality(U)
    BY <1>6, <1>7, <1>8, <1>9, SameSize
  <1>11. QED
    BY <1>10 DEF U, T

\* At the target all lines are low.
LEMMA AltTarget == LowOnes(Target) = Reached[Target]
  <1>1. Target \in V /\ Target \in Nat /\ LastRow < Target /\ LastRow \in Nat /\ W \in Nat /\ W > 1 /\ Target = W * W - 1
        /\ W * W \in Nat
    BY Numbers
  <1>2. Pos(Target) = 0
    <2> DEFINE b == W - 1
    <2>1. W \in Nat \ {0} /\ b \in 0 .. W - 1 /\ b \in Int /\ Target \in Int /\ Target = W * b + b
      BY <1>1
    <2> HIDE DEF b
    <2>2. Target % W = b
      BY <2>1, ModUnique
    <2>3. QED
      BY <1>1, <2>2 DEF Pos, b
  <1>3. ASSUME NEW t \in Reached[Target] PROVE Alt(t.m)
    <2> DEFINE m == t.m
    <2>1. ChoiceRight(Target, t)
      BY <1>1, ReachedRight
    <2>2. m \in Words(W)
      BY <1>1, <2>1, CellIs
    <2>3. \A q \in 1 .. W - 1 : m[q] = "N"
      BY <1>1, <1>2, <2>1 DEF ChoiceRight, NoneBelow
    <2>4. \A q \in 1 .. W : Line(m)[q] = 1
      <3>1. 1 \in 0 .. W
        BY <1>1
      <3> HIDE DEF m
      <3>2. QED
        BY <2>2, <2>3, <3>1, LineTop
    <2>5. Line(m)[0] = 0
      <3>1. Height(m, W, 0) = 0
        BY <2>2 DEF Words
      <3>2. Line(m)[0] = Height(m, W, 0)
        BY <1>1 DEF Line
      <3>3. QED
        BY <3>1, <3>2
    <2>6. \A q \in 0 .. W : q = 0 \/ q \in 1 .. W
      BY <1>1
    <2>7. QED
      BY <2>4, <2>5, <2>6 DEF Alt
  <1>4. QED
    BY <1>3 DEF LowOnes

\* So there are as many choices with a low line where the last row begins as there are paths.
LEMMA AltTotal == Cardinality(LowOnes(LastRow)) = PathTotal
  <1> DEFINE N(x) == Cardinality(LowOnes(x))
             B == {x \in V : x >= LastRow => N(x) = N(LastRow)}
  <1>1. 0 \in V /\ Target \in V /\ V = 0 .. Target /\ LastRow \in Nat /\ W <= LastRow /\ W > 1 /\ W \in Nat /\ LastRow < Target /\ Target \in Nat
    BY Numbers
  <1>2. 0 \in B
    BY <1>1
  <1>3. ASSUME NEW x \in V \ {Target}, x \in B PROVE x + 1 \in B
    <2>1. x \in Nat /\ x + 1 \in V
      BY <1>1
    <2>2. CASE x >= LastRow
      <3>1. N(x + 1) = N(x)
        BY <2>2, AltStep
      <3>2. N(x) = N(LastRow)
        BY <1>3, <2>2
      <3>3. QED
        BY <2>1, <3>1, <3>2
    <2>3. CASE ~(x >= LastRow)
      <3>1. x + 1 >= LastRow => x + 1 = LastRow
        BY <1>1, <2>1, <2>3
      <3> HIDE DEF N
      <3>2. QED
        BY <2>1, <3>1
    <2>4. QED
      BY <2>2, <2>3
  <1>4. V \subseteq B
    <2> HIDE DEF B
    <2>1. QED
      BY <1>2, <1>3, VertexByVertex
  <1>5. N(Target) = N(LastRow)
    <2>1. Target >= LastRow
      BY <1>1
    <2> HIDE DEF N
    <2>2. QED
      BY <1>1, <1>4, <2>1
  <1>6. QED
    BY <1>5, AltTarget, ReachedPaths

-----------------------------------------------------------------------------
\* No choice is blocked where a row begins.
LEMMA RowStart ==
  ASSUME NEW x \in V, Pos(x) = W - 1, NEW t \in Reached[x]
  PROVE  ~t.b
  <1>1. W \in Nat /\ W > 1 /\ V = 0 .. Target /\ Target \in Nat
    BY Numbers
  <1>2. CASE x = 0
    <2>1. t = Begin
      BY <1>2, ReachedDef DEF IsReached
    <2>2. QED
      BY <2>1 DEF Begin
  <1>3. CASE x # 0
    <2> DEFINE y == x - 1
    <2>1. y \in V /\ y # Target /\ y \in Nat /\ y + 1 = x
      BY <1>1, <1>3
    <2> HIDE DEF y
    <2>2. PICK s \in Reached[y] : \E c \in Allowed(y, s) : t = After(y, s, c)
      BY <2>1, ReachedNext
    <2>3. PICK c \in Allowed(y, s) : t = After(y, s, c)
      BY <2>2
    <2>4. Pos(y) \in 0 .. W - 1
      BY <2>1, PosType
    <2>5. Pos(y) > 0 => Pos(x) = Pos(y) - 1
      BY <2>1, PosNext
    <2>6. ~(Pos(y) > 1)
      BY <1>1, <2>4, <2>5
    <2>7. QED
      BY <2>3, <2>6 DEF After
  <1>4. QED
    BY <1>2, <1>3

-----------------------------------------------------------------------------
(***************************************************************************)
(* The first row. No path end is met twice in it: the words after it are   *)
(* those whose line is low, one for each choice of edges.                  *)
(***************************************************************************)
\* What the letters are worth.
LEMMA ValIs == \A v \in Letters : \/ (v = "N" /\ Val(v) = 0)
                                 \/ (v = "L" /\ Val(v) = 1)
                                 \/ (v = "R" /\ Val(v) = 0 - 1)
  <1>1. "N" # "L" /\ "N" # "R" /\ "L" # "R"
    OBVIOUS
  <1>2. Val("N") = 0 /\ Val("L") = 1 /\ Val("R") = -1
    BY <1>1 DEF Val
  <1>3. -1 = 0 - 1
    OBVIOUS
  <1>4. Val("R") = 0 - 1
    BY <1>2, <1>3
  <1>5. QED
    BY <1>2, <1>4 DEF Letters

\* A low line that is zero from position p down.
Low(m, p) == Alt(m) /\ \A q \in 0 .. p : Line(m)[q] = 0

\* The letters of such a word around p.
LEMMA LowLetters ==
  ASSUME NEW m \in Words(W), NEW p \in 1 .. W - 1, Low(m, p)
  PROVE  /\ m[p - 1] = "N"
         /\ (m[p] = "N" /\ Line(m)[p + 1] = 0) \/ (m[p] = "R" /\ Line(m)[p + 1] = 1)
  <1>1. W \in Nat /\ (\A q \in 0 .. W - 1 : m[q] \in Letters /\ Line(m)[q] = Line(m)[q + 1] + Val(m[q]))
        /\ \A q \in 0 .. W + 1 : Line(m)[q] \in Nat
    BY LineOf
  <1>2. p \in 0 .. p /\ p - 1 \in 0 .. p /\ p \in 0 .. W - 1 /\ p - 1 \in 0 .. W - 1 /\ (p - 1) + 1 = p
        /\ p + 1 \in 0 .. W + 1
    BY <1>1
  <1>3. Line(m)[p] = 0 /\ Line(m)[p - 1] = 0
    BY <1>2 DEF Low
  <1>4. Line(m)[p - 1] = Line(m)[p] + Val(m[p - 1]) /\ Line(m)[p] = Line(m)[p + 1] + Val(m[p])
        /\ m[p] \in Letters /\ m[p - 1] \in Letters
    BY <1>1, <1>2
  <1>5. m[p - 1] = "N"
    BY <1>3, <1>4 DEF Letters, Val
  <1>6. Line(m)[p + 1] \in Nat
    BY <1>1, <1>2
  <1>7. (m[p] = "N" /\ Line(m)[p + 1] = 0) \/ (m[p] = "R" /\ Line(m)[p + 1] = 1)
    BY <1>3, <1>4, <1>6, ValIs
  <1>8. QED
    BY <1>5, <1>7

\* An edge that is left out, and one that is included.
LEMMA LowInclude ==
  ASSUME NEW m \in Words(W), NEW p \in 1 .. W - 1, Low(m, p)
  PROVE  /\ Low(m, p - 1) /\ Line(m)[p] = 0
         /\ Including(m, p) = {IF m[p] = "N" THEN Put(m, p, "L", "R") ELSE Put(m, p, "N", m[p])}
         /\ \A u \in Including(m, p) : /\ u \in Words(W) /\ Low(u, p - 1) /\ Line(u)[p] = 1
                                       /\ \A q \in 0 .. W : q # p => Line(u)[q] = Line(m)[q]
  <1>1. W \in Nat /\ p \in 0 .. p /\ p - 1 \in 0 .. p /\ (\A q \in 0 .. p - 1 : q \in 0 .. p /\ q # p) /\ p \in 0 .. W
        /\ \A q \in 0 .. p - 1 : q \in 0 .. W
    BY LineOf
  <1>2. m[p - 1] = "N" /\ ((m[p] = "N" /\ Line(m)[p + 1] = 0) \/ (m[p] = "R" /\ Line(m)[p + 1] = 1))
    BY LowLetters
  <1>3. Low(m, p - 1) /\ Line(m)[p] = 0
    BY <1>1 DEF Low
  <1>4. Including(m, p) = {IF m[p] = "N" THEN Put(m, p, "L", "R") ELSE Put(m, p, "N", m[p])}
    <2>1. CASE m[p] = "N"
      BY <1>2, <2>1 DEF Including
    <2>2. CASE m[p] = "R"
      BY <1>2, <2>2 DEF Including
    <2>3. QED
      BY <1>2, <2>1, <2>2
  <1>5. ASSUME NEW u \in Including(m, p)
        PROVE  /\ u \in Words(W) /\ Low(u, p - 1) /\ Line(u)[p] = 1
               /\ \A q \in 0 .. W : q # p => Line(u)[q] = Line(m)[q]
    <2>1. u \in Words(W)
      BY IncludingCases
    <2>2. /\ u[p] = IF m[p] = "N" THEN "L" ELSE "N"
          /\ u[p - 1] = IF m[p] = "N" THEN "R" ELSE m[p]
          /\ \A i \in 0 .. W - 1 : i # p /\ i # p - 1 => u[i] = m[i]
      <3>1. CASE m[p] = "N"
        <4>1. u = Put(m, p, "L", "R")
          BY <1>4, <3>1
        <4>2. QED
          BY <3>1, <4>1, PutAt
      <3>2. CASE m[p] # "N"
        <4>1. u = Put(m, p, "N", m[p])
          BY <1>4, <3>2
        <4>2. QED
          BY <3>2, <4>1, PutAt
      <3>3. QED
        BY <3>1, <3>2
    <2>3. Val(u[p]) + Val(u[p - 1]) = Val(m[p]) + Val(m[p - 1])
      BY <1>2, <2>2 DEF Val
    <2>4. Elsewhere(Line(m), Line(u), W + 1, p) /\ Line(u)[p] = Line(m)[p + 1] + Val(u[p])
      BY <2>1, <2>2, <2>3, LinePair
    <2>5. Line(u)[p] = 1
      BY <1>2, <2>2, <2>4 DEF Val
    <2>6. \A q \in 0 .. W : q # p => Line(u)[q] = Line(m)[q]
      BY <1>1, <2>4 DEF Elsewhere
    <2>7. Low(u, p - 1)
      <3>1. \A q \in 0 .. W : Line(u)[q] <= 1
        BY <1>3, <2>5, <2>6 DEF Low, Alt
      <3>2. \A q \in 0 .. p - 1 : Line(u)[q] = 0
        BY <1>1, <2>6 DEF Low
      <3>3. QED
        BY <3>1, <3>2 DEF Low, Alt
    <2>8. QED
      BY <2>1, <2>5, <2>6, <2>7
  <1>6. QED
    BY <1>3, <1>4, <1>5

\* A word with a low line that is one at p has another one before it.
LEMMA LowBefore ==
  ASSUME NEW m \in Words(W), NEW p \in 1 .. W - 1, Low(m, p - 1), Line(m)[p] = 1
  PROVE  \E s \in Words(W) : Low(s, p) /\ m \in Including(s, p)
  <1>1. W \in Nat /\ (\A q \in 0 .. W - 1 : m[q] \in Letters /\ Line(m)[q] = Line(m)[q + 1] + Val(m[q]))
        /\ \A q \in 0 .. W + 1 : Line(m)[q] \in Nat
    BY LineOf
  <1>2. p \in 0 .. W /\ p - 1 \in 0 .. p - 1 /\ p \in 0 .. W - 1 /\ p - 1 \in 0 .. W - 1 /\ (p - 1) + 1 = p
        /\ p + 1 \in 0 .. W + 1 /\ p + 1 \in 0 .. W /\ \A q \in 0 .. p : q = p \/ q \in 0 .. p - 1
    BY <1>1
  <1>3. Line(m)[p - 1] = 0 /\ Line(m)[p + 1] <= 1 /\ Line(m)[p + 1] \in Nat
    BY <1>1, <1>2 DEF Low, Alt
  <1>4. Line(m)[p - 1] = Line(m)[p] + Val(m[p - 1]) /\ Line(m)[p] = Line(m)[p + 1] + Val(m[p])
        /\ m[p] \in Letters /\ m[p - 1] \in Letters
    BY <1>1, <1>2
  <1>5. m[p - 1] = "R" /\ ((m[p] = "N" /\ Line(m)[p + 1] = 1) \/ (m[p] = "L" /\ Line(m)[p + 1] = 0))
    <2>1. Line(m)[p] = 1
      OBVIOUS
    <2>2. Val(m[p - 1]) = 0 - 1 /\ ((Val(m[p]) = 0 /\ Line(m)[p + 1] = 1) \/ (Val(m[p]) = 1 /\ Line(m)[p + 1] = 0))
      BY <1>3, <1>4, <2>1, ValIs
    <2>3. QED
      BY <1>4, <2>2, ValIs
  <1> DEFINE a == IF m[p] = "N" THEN "R" ELSE "N"
             s == Put(m, p, a, "N")
  <1>6. a \in Letters /\ "N" \in Letters /\ Val(a) + Val("N") = Val(m[p]) + Val(m[p - 1]) /\ Val("N") = 0
    BY <1>5 DEF Letters, Val
  <1>7. s \in Words(W) /\ s[p] = a /\ s[p - 1] = "N" /\ \A i \in 0 .. W - 1 : i # p /\ i # p - 1 => s[i] = m[i]
    <2> HIDE DEF a
    <2>1. QED
      BY <1>6, ReplacePair
  <1>8. Elsewhere(Line(m), Line(s), W + 1, p) /\ Line(s)[p] = Line(m)[p + 1] + Val(s[p])
    <2> HIDE DEF s
    <2>1. QED
      BY <1>6, <1>7, LinePair
  <1>9. Line(s)[p] = 0
    <2> HIDE DEF s
    <2>1. QED
      BY <1>5, <1>7, <1>8 DEF Val
  <1>10. \A q \in 0 .. W : q # p => Line(s)[q] = Line(m)[q]
    BY <1>1, <1>8 DEF Elsewhere
  <1> HIDE DEF s
  <1>11. Low(s, p)
    <2>1. \A q \in 0 .. W : Line(s)[q] <= 1
      BY <1>9, <1>10 DEF Low, Alt
    <2>2. \A q \in 0 .. p - 1 : q \in 0 .. W /\ q # p
      BY <1>1
    <2>3. \A q \in 0 .. p : Line(s)[q] = 0
      BY <1>2, <1>9, <1>10, <2>2 DEF Low
    <2>4. QED
      BY <2>1, <2>3 DEF Low, Alt
  <1>12. PICK u : u \in Including(s, p)
    BY <1>7, <1>11, LowInclude
  <1>13. u \in Words(W) /\ Line(u)[p] = 1 /\ \A q \in 0 .. W : q # p => Line(u)[q] = Line(s)[q]
    BY <1>7, <1>11, <1>12, LowInclude
  <1>14. \A q \in 1 .. W - 1 : Line(m)[q] = Line(u)[q]
    <2>1. \A q \in 1 .. W - 1 : q \in 0 .. W
      BY <1>1
    <2>2. QED
      BY <1>10, <1>13, <2>1
  <1>15. m = u
    BY <1>13, <1>14, LineInjective
  <1>16. QED
    BY <1>7, <1>11, <1>12, <1>15

\* What FirstRowWord does at an edge, from the edges before it.
FirstRowAt(f, mask, p) ==
    IF p = W THEN FirstWord
    ELSE IF p \notin mask THEN f[p + 1]
    ELSE IF f[p + 1][p] = "N" THEN Put(f[p + 1], p, "L", "R")
    ELSE Put(f[p + 1], p, "N", f[p + 1][p])

\* The recursive function in FirstRowWord exists and satisfies its definition.
LEMMA FirstRowDef ==
  ASSUME NEW mask \in SUBSET (1 .. W - 1)
  PROVE  \E f : FirstRowWord(mask) = f[1] /\ \A p \in 1 .. W : f[p] = FirstRowAt(f, mask, p)
  <1> DEFINE R == [0 .. W - 1 -> Letters]
             F(m, p) == IF p \notin mask THEN m
                        ELSE IF m[p] = "N" THEN Put(m, p, "L", "R") ELSE Put(m, p, "N", m[p])
             step == [x \in R \X (1 .. W - 1) |-> F(x[1], W - x[2])]
             Solves(f) == f = [p \in 1 .. W |-> FirstRowAt(f, mask, p)]
  <1>1. W \in Nat /\ W > 1 /\ W - 1 \in Nat
    BY Numbers
  <1>2. FirstWord \in R
    BY <1>1 DEF FirstWord, Letters
  <1>3. ASSUME NEW m \in R, NEW p \in 1 .. W - 1 PROVE F(m, p) \in R
    <2>1. "L" \in Letters /\ "R" \in Letters /\ "N" \in Letters /\ m[p] \in Letters
      BY <1>1 DEF Letters
    <2>2. \A a, b \in Letters : Put(m, p, a, b) \in R
      BY <1>1 DEF Put
    <2>3. QED
      BY <2>1, <2>2
  <1>4. step \in [R \X (1 .. W - 1) -> R]
    <2>1. \A x \in R \X (1 .. W - 1) : x[1] \in R /\ W - x[2] \in 1 .. W - 1
      BY <1>1
    <2> HIDE DEF R, F
    <2>2. QED
      BY <1>3, <2>1
  <1>5. PICK h \in [0 .. W - 1 -> R] : Iterates(h, W - 1, FirstWord, step)
    <2> HIDE DEF R, step
    <2>1. QED
      BY <1>1, <1>2, <1>4, IterExists
  <1>6. h[0] = FirstWord /\ \A i \in 1 .. W - 1 : h[i] = step[<<h[i - 1], i>>] /\ h[i - 1] \in R
    <2> HIDE DEF R, step
    <2>1. \A i \in 1 .. W - 1 : i - 1 \in 0 .. W - 1
      BY <1>1
    <2>2. QED
      BY <1>5, <2>1 DEF Iterates
  <1> DEFINE f == [p \in 1 .. W |-> h[W - p]]
  <1>7. ASSUME NEW p \in 1 .. W PROVE f[p] = FirstRowAt(f, mask, p)
    <2>1. CASE p = W
      <3>1. f[p] = h[0]
        BY <1>1, <2>1
      <3>2. QED
        BY <1>6, <2>1, <3>1 DEF FirstRowAt
    <2>2. CASE p # W
      <3> DEFINE i == W - p
      <3>1. i \in 1 .. W - 1 /\ W - i = p /\ i - 1 = W - (p + 1) /\ p + 1 \in 1 .. W /\ p \in 1 .. W
        BY <1>1, <2>2
      <3>2. f[p] = h[i] /\ f[p + 1] = h[i - 1]
        BY <3>1
      <3> HIDE DEF i, f
      <3>3. h[i] = step[<<h[i - 1], i>>] /\ <<h[i - 1], i>> \in R \X (1 .. W - 1)
        BY <1>6, <3>1
      <3>4. step[<<h[i - 1], i>>] = F(h[i - 1], W - i)
        <4> HIDE DEF R, F
        <4>1. QED
          BY <3>3
      <3>5. f[p] = F(f[p + 1], p)
        BY <3>1, <3>2, <3>3, <3>4
      <3>6. QED
        BY <2>2, <3>5 DEF FirstRowAt
    <2>3. QED
      BY <2>1, <2>2
  <1>8. Solves(f)
    <2>1. f = [p \in 1 .. W |-> f[p]]
      OBVIOUS
    <2> HIDE DEF f
    <2>2. QED
      BY <1>7, <2>1
  <1> DEFINE after == CHOOSE g : Solves(g)
  <1>9. FirstRowWord(mask) = after[1]
    BY DEF FirstRowWord, FirstRowAt, FirstWord
  <1>10. Solves(after)
    <2> HIDE DEF Solves, f
    <2>1. QED
      BY <1>8
  <1> HIDE DEF after
  <1>11. \A p \in 1 .. W : after[p] = FirstRowAt(after, mask, p)
    BY <1>10
  <1> HIDE DEF Solves
  <1>12. QED
    BY <1>9, <1>11

\* The word is low, and its line is one where an edge is chosen.
LEMMA FirstRowLow ==
  ASSUME NEW mask \in SUBSET (1 .. W - 1)
  PROVE  /\ FirstRowWord(mask) \in Words(W) /\ Alt(FirstRowWord(mask))
         /\ \A q \in 1 .. W - 1 : Line(FirstRowWord(mask))[q] = IF q \in mask THEN 1 ELSE 0
  <1>1. W \in Nat /\ W > 1
    BY Numbers
  <1>2. PICK f : FirstRowWord(mask) = f[1] /\ \A p \in 1 .. W : f[p] = FirstRowAt(f, mask, p)
    BY FirstRowDef
  <1> DEFINE Good(p) == /\ f[p] \in Words(W) /\ Low(f[p], p - 1)
                        /\ \A q \in p .. W - 1 : Line(f[p])[q] = IF q \in mask THEN 1 ELSE 0
             Bad == {i \in 0 .. W - 1 : ~Good(W - i)}
  <1>3. Good(W)
    <2>1. f[W] = FirstWord
      BY <1>1, <1>2 DEF FirstRowAt
    <2>2. \A q \in 0 .. W - 1 : Line(FirstWord)[q] = 0
      BY <1>1, FirstWordIs DEF Line
    <2>3. FirstWord \in Words(W) /\ Line(FirstWord)[W] = 1
      BY FirstWordIs, LineOf
    <2>4. Alt(FirstWord)
      <3>1. \A q \in 0 .. W : q = W \/ q \in 0 .. W - 1
        BY <1>1
      <3>2. QED
        BY <2>2, <2>3, <3>1 DEF Alt
    <2>5. W .. W - 1 = {}
      BY <1>1
    <2>6. QED
      BY <2>1, <2>2, <2>3, <2>4, <2>5 DEF Low
  <1>4. ASSUME NEW p \in 1 .. W - 1, Good(p + 1) PROVE Good(p)
    <2> DEFINE m == f[p + 1]
               u == f[p]
    <2>0. (p + 1) - 1 = p
      BY <1>1
    <2>1. m \in Words(W) /\ Low(m, p) /\ \A q \in p + 1 .. W - 1 : Line(m)[q] = IF q \in mask THEN 1 ELSE 0
      BY <1>4, <2>0
    <2>2. u = IF p \notin mask THEN m ELSE IF m[p] = "N" THEN Put(m, p, "L", "R") ELSE Put(m, p, "N", m[p])
      <3>1. p \in 1 .. W /\ p # W
        BY <1>1
      <3>2. f[p] = FirstRowAt(f, mask, p)
        BY <1>2, <3>1
      <3>3. QED
        BY <3>1, <3>2 DEF FirstRowAt
    <2>3. \A q \in p .. W - 1 : q = p \/ (q \in p + 1 .. W - 1 /\ q # p /\ q \in 0 .. W)
      BY <1>1
    <2> HIDE DEF m, u
    <2>4. CASE p \notin mask
      <3>1. u = m
        BY <2>2, <2>4
      <3>2. Low(m, p - 1) /\ Line(m)[p] = 0
        BY <2>1, LowInclude
      <3>3. \A q \in p .. W - 1 : Line(u)[q] = IF q \in mask THEN 1 ELSE 0
        BY <2>1, <2>3, <2>4, <3>1, <3>2
      <3>4. QED
        BY <2>1, <3>1, <3>2, <3>3 DEF u
    <2>5. CASE p \in mask
      <3>1. u \in Including(m, p)
        BY <2>1, <2>2, <2>5, LowInclude
      <3>2. /\ u \in Words(W) /\ Low(u, p - 1) /\ Line(u)[p] = 1
            /\ \A q \in 0 .. W : q # p => Line(u)[q] = Line(m)[q]
        BY <2>1, <3>1, LowInclude
      <3>3. \A q \in p .. W - 1 : Line(u)[q] = IF q \in mask THEN 1 ELSE 0
        BY <2>1, <2>3, <2>5, <3>2
      <3>4. QED
        BY <3>2, <3>3 DEF u
    <2>6. QED
      BY <2>4, <2>5
  <1> HIDE DEF Good
  <1>5. ASSUME Bad # {} PROVE FALSE
    <2>1. Bad \in SUBSET Nat
      BY <1>1
    <2>2. PICK i \in Bad : \A j \in Bad : i <= j
      <3> HIDE DEF Bad
      <3>1. QED
        BY <1>5, <2>1, NatMin
    <2>3. i \in 0 .. W - 1 /\ ~Good(W - i)
      BY <2>2
    <2>4. i # 0
      <3>1. W - 0 = W
        BY <1>1
      <3>2. QED
        BY <1>3, <2>3, <3>1
    <2> DEFINE p == W - i
               j == i - 1
    <2>5. p \in 1 .. W - 1 /\ j \in 0 .. W - 1 /\ W - j = p + 1 /\ ~(i <= j)
      BY <1>1, <2>3, <2>4
    <2>6. Good(W - j)
      <3> HIDE DEF j
      <3>1. QED
        BY <2>2, <2>5
    <2> HIDE DEF j
    <2>7. Good(p)
      <3> HIDE DEF p
      <3>1. QED
        BY <1>4, <2>5, <2>6
    <2>8. QED
      BY <2>3, <2>7
  <1>6. Good(1)
    <2> DEFINE i == W - 1
    <2>1. i \in 0 .. W - 1 /\ W - i = 1
      BY <1>1
    <2> HIDE DEF i
    <2>2. Good(W - i)
      BY <1>5, <2>1
    <2>3. QED
      BY <2>1, <2>2
  <1>7. QED
    BY <1>2, <1>6 DEF Good, Low

\* The cells of the first row stand for the words with a low line.
LEMMA FirstRowCellsAre == FirstRowCells = {MainCell(m) : m \in {w \in Words(W) : Alt(w)}}
  <1>1. ASSUME NEW m \in Words(W), Alt(m) PROVE \E mask \in SUBSET (1 .. W - 1) : m = FirstRowWord(mask)
    <2> DEFINE mask == {q \in 1 .. W - 1 : Line(m)[q] = 1}
    <2>1. mask \in SUBSET (1 .. W - 1)
      OBVIOUS
    <2>2. \A q \in 1 .. W - 1 : Line(m)[q] = IF q \in mask THEN 1 ELSE 0
      <3>1. W \in Nat /\ \A q \in 0 .. W + 1 : Line(m)[q] \in Nat
        BY LineOf
      <3>2. \A q \in 1 .. W - 1 : q \in 0 .. W /\ q \in 0 .. W + 1
        BY <3>1
      <3>3. \A q \in 1 .. W - 1 : Line(m)[q] \in Nat /\ Line(m)[q] <= 1
        BY <1>1, <3>1, <3>2 DEF Alt
      <3>4. QED
        BY <3>3
    <2> HIDE DEF mask
    <2>3. /\ FirstRowWord(mask) \in Words(W)
          /\ \A q \in 1 .. W - 1 : Line(FirstRowWord(mask))[q] = IF q \in mask THEN 1 ELSE 0
      BY <2>1, FirstRowLow
    <2>4. \A q \in 1 .. W - 1 : Line(m)[q] = Line(FirstRowWord(mask))[q]
      BY <2>2, <2>3
    <2> DEFINE t == FirstRowWord(mask)
    <2>5. t \in Words(W) /\ \A q \in 1 .. W - 1 : Line(m)[q] = Line(t)[q]
      BY <2>3, <2>4
    <2> HIDE DEF t
    <2>6. m = t
      BY <2>5, LineInjective
    <2>7. QED
      BY <2>1, <2>6 DEF t
  <1>2. \A mask \in SUBSET (1 .. W - 1) : FirstRowWord(mask) \in {w \in Words(W) : Alt(w)}
    BY FirstRowLow
  <1>3. {FirstRowWord(mask) : mask \in SUBSET (1 .. W - 1)} = {w \in Words(W) : Alt(w)}
    BY <1>1, <1>2
  <1>4. QED
    BY <1>3 DEF FirstRowCells

\* In the first row no word is blocked, each has a low line, and each such word is reached once.
FirstRight(x) == /\ \A t \in Reached[x] : ~t.b /\ Low(t.m, Pos(x))
                 /\ \A t, s \in Reached[x] : t.m = s.m => t = s
                 /\ \A m \in Words(W) : Low(m, Pos(x)) => \E t \in Reached[x] : t.m = m

\* It is so at the first vertex ...
LEMMA FirstBegin == FirstRight(0)
  <1>1. W \in Nat /\ W > 1
    BY Numbers
  <1>2. Reached[0] = {Begin}
    BY ReachedDef DEF IsReached
  <1>3. Pos(0) = W - 1
    <2>1. 0 \in 0 .. W - 1 /\ W \in Nat \ {0}
      BY <1>1
    <2>2. 0 % W = 0
      BY <2>1, ModIdle
    <2>3. QED
      BY <1>1, <2>2 DEF Pos
  <1>4. \A q \in 0 .. W - 1 : Line(FirstWord)[q] = 0
    BY <1>1, FirstWordIs DEF Line
  <1>5. FirstWord \in Words(W) /\ Line(FirstWord)[W] = 1
    BY FirstWordIs, LineOf
  <1>6. Low(FirstWord, Pos(0))
    <2>1. \A q \in 0 .. W : q = W \/ q \in 0 .. W - 1
      BY <1>1
    <2>2. QED
      BY <1>3, <1>4, <1>5, <2>1 DEF Low, Alt
  <1>7. ASSUME NEW m \in Words(W), Low(m, Pos(0)) PROVE m = FirstWord
    <2>1. \A q \in 1 .. W - 1 : q \in 0 .. W - 1
      BY <1>1
    <2>2. \A q \in 1 .. W - 1 : Line(m)[q] = Line(FirstWord)[q]
      BY <1>3, <1>4, <1>7, <2>1 DEF Low
    <2>3. QED
      BY <1>5, <2>2, LineInjective
  <1>8. Begin.m = FirstWord /\ ~Begin.b
    BY DEF Begin
  <1>9. QED
    BY <1>2, <1>6, <1>7, <1>8 DEF FirstRight

\* ... and it stays so along the row.
LEMMA FirstStep ==
  ASSUME NEW x \in V, x < W - 1, FirstRight(x)
  PROVE  FirstRight(x + 1)
  <1> DEFINE p == Pos(x)
  <1>1. x \in Nat /\ W \in Nat /\ W > 1 /\ x # Target /\ x < LastRow /\ LastRow \in Nat /\ x + 1 \in V
    BY Numbers, ReachedNext
  <1>2. p \in 1 .. W - 1 /\ p > 0 /\ p - 1 \in 0 .. W - 1 /\ Pos(x + 1) = p - 1
    <2>1. x % W = x
      <3>1. x \in 0 .. W - 1 /\ W \in Nat \ {0}
        BY <1>1
      <3>2. QED
        BY <3>1, ModIdle
    <2>2. p = W - 1 - x
      BY <2>1 DEF Pos
    <2>3. QED
      BY <1>1, <2>2, PosNext
  <1>3. /\ \A t \in Reached[x] : ~t.b /\ Low(t.m, p)
        /\ \A t, s \in Reached[x] : t.m = s.m => t = s
        /\ \A m \in Words(W) : Low(m, p) => \E t \in Reached[x] : t.m = m
    BY DEF FirstRight
  <1>4. \A t \in Reached[x] : ChoiceRight(x, t)
    BY ReachedRight
  <1>5. \A t \in Reached[x] : t \in Chosen /\ t.m \in Words(W)
    BY <1>4, CellIs
  <1>6. \A u : u \in Reached[x + 1] <=> \E t \in Reached[x] : \E c \in Allowed(x, t) : u = After(x, t, c)
    BY <1>1, ReachedNext
  <1>7. ASSUME NEW t \in Reached[x], NEW c \in Allowed(x, t)
        PROVE  /\ After(x, t, c).m = c[1] /\ ~After(x, t, c).b /\ c = <<c[1], c[2]>> /\ c[2] \in BOOLEAN
               /\ c[1] \in Words(W) /\ Low(c[1], p - 1)
               /\ Line(c[1])[p] = IF c[2] THEN 1 ELSE 0
               /\ \A q \in 0 .. W : q # p => Line(c[1])[q] = Line(t.m)[q]
    <2>1. c = <<c[1], c[2]>> /\ c[2] \in BOOLEAN /\ (c[2] => c[1] \in Including(t.m, p)) /\ (~c[2] => c[1] = t.m)
          /\ c[1] \in Words(W)
      BY <1>1, <1>5, MoveIs
    <2>2. t.m \in Words(W) /\ Low(t.m, p)
      BY <1>3, <1>5
    <2>3. t.m[p - 1] = "N"
      <3> HIDE DEF p
      <3>1. QED
        BY <1>2, <2>2, LowLetters
    <2>4. After(x, t, c).m = c[1] /\ ~After(x, t, c).b
      BY <2>3 DEF After
    <2> DEFINE m == t.m
               u == c[1]
    <2>5. m \in Words(W) /\ Low(m, p) /\ (c[2] => u \in Including(m, p)) /\ (~c[2] => u = m)
      BY <2>1, <2>2
    <2> HIDE DEF m, u, p
    <2>6. Low(u, p - 1) /\ Line(u)[p] = (IF c[2] THEN 1 ELSE 0) /\ \A q \in 0 .. W : q # p => Line(u)[q] = Line(m)[q]
      <3>1. CASE c[2]
        BY <1>2, <2>5, <3>1, LowInclude
      <3>2. CASE ~c[2]
        BY <1>2, <2>5, <3>2, LowInclude
      <3>3. QED
        BY <3>1, <3>2
    <2>7. QED
      BY <2>1, <2>4, <2>6 DEF m, u
  <1>8. \A u \in Reached[x + 1] : ~u.b /\ Low(u.m, Pos(x + 1))
    <2> HIDE DEF p
    <2>1. QED
      BY <1>2, <1>6, <1>7
  <1>9. ASSUME NEW u \in Reached[x + 1], NEW w \in Reached[x + 1], u.m = w.m PROVE u = w
    <2>1. PICK t \in Reached[x] : \E c \in Allowed(x, t) : u = After(x, t, c)
      BY <1>6
    <2>2. PICK c \in Allowed(x, t) : u = After(x, t, c)
      BY <2>1
    <2>3. PICK s \in Reached[x] : \E e \in Allowed(x, s) : w = After(x, s, e)
      BY <1>6
    <2>4. PICK e \in Allowed(x, s) : w = After(x, s, e)
      BY <2>3
    <2>5. c[1] = e[1]
      BY <1>7, <1>9, <2>2, <2>4
    <2>6. Line(c[1])[p] = (IF c[2] THEN 1 ELSE 0) /\ Line(e[1])[p] = (IF e[2] THEN 1 ELSE 0)
          /\ c[2] \in BOOLEAN /\ e[2] \in BOOLEAN
      BY <1>7
    <2>7. c[2] = e[2]
      BY <2>5, <2>6
    <2>8. c = e
      <3>1. c = <<c[1], c[2]>> /\ e = <<e[1], e[2]>>
        BY <1>7
      <3>2. QED
        BY <2>5, <2>7, <3>1
    <2>9. t.m = s.m
      <3> DEFINE a == t.m
                 b == s.m
      <3>1. a \in Words(W) /\ b \in Words(W) /\ Low(a, p) /\ Low(b, p)
        BY <1>3, <1>5
      <3>2. \A q \in 0 .. W : q # p => Line(c[1])[q] = Line(a)[q] /\ Line(e[1])[q] = Line(b)[q]
        BY <1>7
      <3>3. Line(a)[p] = 0 /\ Line(b)[p] = 0
        BY <1>2, <3>1 DEF Low
      <3> HIDE DEF a, b, p
      <3>4. \A q \in 1 .. W - 1 : q \in 0 .. W
        BY <1>1
      <3>5. \A q \in 1 .. W - 1 : Line(a)[q] = Line(b)[q]
        BY <2>5, <3>2, <3>3, <3>4
      <3>6. a = b
        BY <3>1, <3>5, LineInjective
      <3>7. QED
        BY <3>6 DEF a, b
    <2>10. t = s
      BY <1>3, <2>9
    <2>11. QED
      BY <2>2, <2>4, <2>8, <2>10
  <1>10. ASSUME NEW m \in Words(W), Low(m, p - 1) PROVE \E u \in Reached[x + 1] : u.m = m
    <2>1. Line(m)[p] \in {0, 1}
      <3>1. Line(m)[p] \in Nat
        BY <1>1, <1>2, LineOf
      <3>2. Line(m)[p] <= 1
        <4>1. p \in 0 .. W
          BY <1>1, <1>2
        <4> HIDE DEF p
        <4>2. QED
          BY <1>10, <4>1 DEF Low, Alt
      <3>3. QED
        BY <3>1, <3>2
    <2>2. CASE Line(m)[p] = 0
      <3>1. Low(m, p)
        <4>1. \A q \in 0 .. p : q = p \/ q \in 0 .. p - 1
          BY <1>2
        <4>2. QED
          BY <1>10, <2>2, <4>1 DEF Low
      <3>2. PICK t \in Reached[x] : t.m = m
        BY <1>3, <3>1
      <3> DEFINE c == <<t.m, FALSE>>
      <3>3. c \in Moves(x, t) /\ c[1] = m
        BY <3>2 DEF Moves
      <3> HIDE DEF c
      <3>4. c \in Allowed(x, t)
        BY <1>1, <3>3 DEF Allowed
      <3>5. After(x, t, c) \in Reached[x + 1] /\ After(x, t, c).m = m
        BY <1>6, <1>7, <3>3, <3>4
      <3>6. QED
        BY <3>5
    <2>3. CASE Line(m)[p] = 1
      <3>1. PICK s \in Words(W) : Low(s, p) /\ m \in Including(s, p)
        <4> HIDE DEF p
        <4>1. QED
          BY <1>2, <1>10, <2>3, LowBefore
      <3>2. PICK t \in Reached[x] : t.m = s
        BY <1>3, <3>1
      <3> DEFINE c == <<m, TRUE>>
      <3>3. c \in Moves(x, t) /\ c[1] = m
        BY <1>2, <1>3, <3>1, <3>2 DEF Moves
      <3> HIDE DEF c
      <3>4. c \in Allowed(x, t)
        BY <1>1, <3>3 DEF Allowed
      <3>5. After(x, t, c) \in Reached[x + 1] /\ After(x, t, c).m = m
        BY <1>6, <1>7, <3>3, <3>4
      <3>6. QED
        BY <3>5
    <2>4. QED
      BY <2>1, <2>2, <2>3
  <1>11. QED
    BY <1>2, <1>8, <1>9, <1>10 DEF FirstRight

\* So after the first row each word with a low line has been reached once, and no other.
LEMMA FirstRowReached == FirstRight(W - 1) /\ W - 1 \in V
  <1>1. W \in Nat /\ W > 1 /\ V = 0 .. Target /\ 0 \in V /\ LastRow < Target /\ W <= LastRow /\ Target \in Nat /\ LastRow \in Nat
    BY Numbers
  <1> DEFINE B == {x \in V : x <= W - 1 => FirstRight(x)}
  <1>2. 0 \in B
    BY <1>1, FirstBegin
  <1>3. ASSUME NEW x \in V \ {Target}, x \in B PROVE x + 1 \in B
    <2>1. x \in Nat /\ x + 1 \in V
      BY <1>1
    <2>2. ASSUME x + 1 <= W - 1 PROVE FirstRight(x + 1)
      <3>1. x < W - 1 /\ x <= W - 1
        BY <1>1, <2>1, <2>2
      <3>2. QED
        BY <1>3, <3>1, FirstStep
    <2>3. QED
      BY <2>1, <2>2
  <1> HIDE DEF B
  <1>4. V \subseteq B
    BY <1>2, <1>3, VertexByVertex
  <1>5. W - 1 \in V /\ W - 1 <= W - 1
    BY <1>1
  <1>6. QED
    BY <1>4, <1>5 DEF B

\* Twice the residue is the residue.
LEMMA ModTwice ==
  ASSUME NEW M \in Nat \ {0}, NEW a \in Int
  PROVE  (a % M) % M = a % M
  <1>1. a % M \in 0 .. M - 1
    BY ModType
  <1> DEFINE b == a % M
  <1> HIDE DEF b
  <1>2. b \in 0 .. M - 1
    BY <1>1 DEF b
  <1>3. b % M = b
    BY <1>2, ModIdle
  <1>4. QED
    BY <1>3 DEF b

\* The vector the solver begins with is that after the first row: one for each of its words.
THEOREM FirstVec ==
  ASSUME NEW mod \in Nat \ {0}
  PROVE  Vec(mod, W) = [c \in Ranks |-> IF c \in FirstRowCells THEN 1 % mod ELSE 0]
  <1> DEFINE x == W - 1
  <1>1. W \in Nat /\ W > 1 /\ W <= LastRow /\ LastRow \in Nat /\ x \in Nat /\ x < LastRow /\ x + 1 = W
    BY Numbers
  <1>2. FirstRight(x) /\ x \in V /\ x # Target
    BY <1>1, FirstRowReached, Numbers
  <1>3. Pos(x) = 0
    <2>1. x \in 0 .. W - 1 /\ W \in Nat \ {0}
      BY <1>1
    <2>2. x % W = x
      <3> HIDE DEF x
      <3>1. QED
        BY <2>1, ModIdle
    <2>3. QED
      BY <1>1, <2>2 DEF Pos
  <1> HIDE DEF x
  <1>4. \A d : Many(W, d) = Many(x, d)
    BY <1>1, <1>2, <1>3, CountSame
  <1>5. ASSUME NEW m \in Words(W) PROVE Low(m, 0) <=> Alt(m)
    <2>1. Height(m, W, 0) = 0
      BY DEF Words
    <2>2. Line(m)[0] = 0
      BY <1>1, <2>1 DEF Line
    <2>3. QED
      BY <2>2 DEF Low
  <1>6. /\ \A t \in Reached[x] : ~t.b /\ Low(t.m, 0)
        /\ \A t, s \in Reached[x] : t.m = s.m => t = s
        /\ \A m \in Words(W) : Low(m, 0) => \E t \in Reached[x] : t.m = m
    BY <1>2, <1>3 DEF FirstRight
  <1>7. \A t \in Reached[x] : t.m \in Words(W) /\ Cell(x, t) = MainCell(t.m)
    <2>1. \A t \in Reached[x] : ChoiceRight(x, t)
      BY <1>2, ReachedRight
    <2>2. QED
      BY <1>2, <1>6, <2>1, CellIs
  <1>8. FirstRowCells = {MainCell(m) : m \in {w \in Words(W) : Alt(w)}}
    BY FirstRowCellsAre
  <1>9. ASSUME NEW c PROVE Many(x, c) = IF c \in FirstRowCells THEN 1 ELSE 0
    <2> DEFINE T == {t \in Reached[x] : Cell(x, t) = c}
    <2>1. CASE c \in FirstRowCells
      <3>1. PICK m \in Words(W) : Alt(m) /\ c = MainCell(m)
        BY <1>8, <2>1
      <3>2. PICK t \in Reached[x] : t.m = m
        BY <1>5, <1>6, <3>1
      <3>3. T = {t}
        <4>1. t \in T
          BY <1>7, <3>1, <3>2
        <4>2. ASSUME NEW s \in T PROVE s = t
          <5>1. s.m \in Words(W) /\ MainCell(s.m) = MainCell(m)
            BY <1>7, <3>1
          <5>2. s.m = m
            BY <3>1, <5>1, CellsAre
          <5>3. QED
            BY <1>6, <3>2, <5>2
        <4> HIDE DEF T
        <4>3. QED
          BY <4>1, <4>2
      <3> HIDE DEF T
      <3>4. Cardinality(T) = 1
        BY <3>3, FS_Singleton
      <3>5. QED
        BY <2>1, <3>4 DEF Many, T
    <2>2. CASE c \notin FirstRowCells
      <3>1. T = {}
        <4>1. ASSUME NEW t \in T PROVE FALSE
          <5>1. c = MainCell(t.m) /\ t.m \in Words(W) /\ Alt(t.m)
            BY <1>5, <1>6, <1>7
          <5>2. QED
            BY <1>8, <2>2, <5>1
        <4>2. QED
          BY <4>1
      <3> HIDE DEF T
      <3>2. Cardinality(T) = 0
        BY <3>1, FS_EmptySet
      <3>3. QED
        BY <2>2, <3>2 DEF Many, T
    <2>3. QED
      BY <2>1, <2>2
  <1>10. 0 % mod = 0
    <2>1. 0 \in 0 .. mod - 1
      OBVIOUS
    <2>2. QED
      BY <2>1, ModIdle
  <1>11. \A c : Many(W, c) % mod = IF c \in FirstRowCells THEN 1 % mod ELSE 0
    BY <1>4, <1>9, <1>10
  <1>12. QED
    BY <1>11 DEF Vec

\* What is added up at the end: the cells of the first row's words where the last row begins. It is
\* the number of paths.
THEOREM LastSum ==
  ASSUME NEW mod \in Nat \ {0}
  PROVE  /\ IsFiniteSet(FirstRowCells) /\ FirstRowCells \subseteq Ranks
         /\ SumFunctionOnSet(Vec(mod, LastRow), FirstRowCells) % mod = PathTotal % mod
  <1> DEFINE D == FirstRowCells
             v == Vec(mod, LastRow)
             k == [c \in D |-> Many(LastRow, c)]
             id == [c \in D |-> c]
             F == [c \in D |-> {t \in Reached[LastRow] : Cell(LastRow, t) = c}]
  <1>1. LastRow \in V /\ LastRow \in Nat /\ W \in Nat /\ W > 1 /\ LastRow = W * W - W
    BY Numbers
  <1>2. D \subseteq Ranks
    BY FirstRowCellsAre, CellsAre
  <1>3. IsFiniteSet(D)
    <2>1. IsFiniteSet(Ranks)
      <3>1. 0 \in Int /\ MainN + BlockN - 1 \in Int
        BY CellsAre
      <3>2. QED
        BY <3>1, FS_Interval DEF Ranks
    <2>2. QED
      BY <1>2, <2>1, FS_Subset
  <1>4. \A c \in D : v[c] \in Nat /\ v[c] = Many(LastRow, c) % mod /\ Many(LastRow, c) \in Nat
    BY <1>1, <1>2, VecType
  <1>5. \A c \in D : k[c] \in Nat /\ k[c] = Many(LastRow, c) /\ id[c] = c
    BY <1>4
  <1>6. id \in Bijection(D, D)
    BY DEF Bijection, Injection, Surjection, IsInjective
  <1>7. \A c \in D : Cong(mod, v[c], k[id[c]])
    <2>1. ASSUME NEW c \in D PROVE Cong(mod, v[c], k[c])
      <3> DEFINE a == Many(LastRow, c)
      <3>1. a \in Int /\ v[c] = a % mod /\ k[c] = a
        BY <1>4, <1>5
      <3> HIDE DEF a, v, k
      <3>2. (a % mod) % mod = a % mod
        BY <3>1, ModTwice
      <3>3. QED
        BY <3>1, <3>2 DEF Cong
    <2>2. QED
      BY <1>5, <2>1
  <1> HIDE DEF D, v, k, id
  <1>8. Cong(mod, SumFunctionOnSet(v, D), SumFunctionOnSet(k, D))
    BY <1>3, <1>4, <1>5, <1>6, <1>7, SumMapMod
  <1>9. SumFunctionOnSet(k, D) = Cardinality(Together(F, D))
    <2>1. IsFiniteSet(Reached[LastRow])
      BY <1>1, ReachedFinite
    <2>2. \A c \in D : F[c] \subseteq Reached[LastRow] /\ k[c] = Cardinality(F[c])
      BY <1>5 DEF Many
    <2>3. \A c \in D : IsFiniteSet(F[c])
      BY <2>1, <2>2, FS_Subset
    <2>4. \A c, d \in D : c # d => F[c] \cap F[d] = {}
      OBVIOUS
    <2> HIDE DEF F
    <2>5. QED
      BY <1>3, <2>2, <2>3, <2>4, SumCards
  <1>10. Pos(LastRow) = W - 1
    <2> DEFINE q == W - 1
    <2>1. W \in Nat \ {0} /\ 0 \in 0 .. W - 1 /\ q \in Int /\ LastRow \in Int /\ LastRow = W * q + 0
      BY <1>1
    <2> HIDE DEF q
    <2>2. LastRow % W = 0
      BY <2>1, ModUnique
    <2>3. QED
      BY <1>1, <2>2 DEF Pos
  <1>11. \A t \in Reached[LastRow] : t.m \in Words(W) /\ Cell(LastRow, t) = MainCell(t.m)
    <2>1. \A t \in Reached[LastRow] : ChoiceRight(LastRow, t)
      BY <1>1, ReachedRight
    <2>2. \A t \in Reached[LastRow] : ~t.b
      BY <1>1, <1>10, RowStart
    <2>3. QED
      BY <1>1, <2>1, <2>2, CellIs
  <1>12. \A t \in Reached[LastRow] : Cell(LastRow, t) \in D <=> Alt(t.m)
    <2>1. ASSUME NEW t \in Reached[LastRow], Cell(LastRow, t) \in D PROVE Alt(t.m)
      <3>1. PICK m \in Words(W) : Alt(m) /\ MainCell(t.m) = MainCell(m)
        BY <1>11, <2>1, FirstRowCellsAre DEF D
      <3>2. t.m = m
        BY <1>11, <3>1, CellsAre
      <3>3. QED
        BY <3>1, <3>2
    <2>2. ASSUME NEW t \in Reached[LastRow], Alt(t.m) PROVE Cell(LastRow, t) \in D
      BY <1>11, <2>2, FirstRowCellsAre DEF D
    <2>3. QED
      BY <2>1, <2>2
  <1>13. Together(F, D) = LowOnes(LastRow)
    <2>1. \A t : t \in Together(F, D) <=> t \in Reached[LastRow] /\ Cell(LastRow, t) \in D
      BY DEF Together
    <2> HIDE DEF F
    <2>2. QED
      BY <1>12, <2>1 DEF LowOnes
  <1>14. SumFunctionOnSet(k, D) = PathTotal
    BY <1>9, <1>13, AltTotal
  <1>15. QED
    BY <1>2, <1>3, <1>8, <1>14 DEF Cong, D, v
=============================================================================
