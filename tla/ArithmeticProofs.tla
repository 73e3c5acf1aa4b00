--------------------------- MODULE ArithmeticProofs ---------------------------
(***************************************************************************)
(* What the proofs about the engine's answers rest on: what rounding half  *)
(* up preserves, what repeated multiplication is, and what the sum of a    *)
(* function over a finite set is, for every number and every such set.     *)
(*                                                                         *)
(* The prover cannot be given a property to do induction on, so induction  *)
(* is stated of the set of the numbers, or of the sets, that have it; it   *)
(* follows from the pigeonhole principle.  With it a function computed     *)
(* from its value before, or a fold over a finite set, exists and is one.  *)
(***************************************************************************)
EXTENDS Money, Functions, FiniteSetTheorems, TLAPS

(* The product of natural numbers is one.                                  *)
LEMMA NaturalProduct == \A a, b \in Nat : a * b \in Nat
  OBVIOUS

(* Multiplication by a natural number preserves the order.                 *)
LEMMA ProductMonotone ==
    \A a, b, c \in Nat : a <= b => a * c <= b * c
  OBVIOUS

(* Division rounds down.                                                   *)
LEMMA QuotientBounds ==
    \A n \in Nat, d \in Nat \ {0} :
        /\ n \div d \in Nat
        /\ d * (n \div d) <= n
        /\ n < d * (n \div d) + d
  OBVIOUS

(* Rounded is within half a unit of the exact quotient.                    *)
LEMMA RoundedBounds ==
    ASSUME NEW n \in Nat, NEW d \in Nat \ {0}
    PROVE  /\ Rounded(n, d) \in Nat
           /\ 2 * d * Rounded(n, d) <= 2 * n + d
           /\ 2 * n < 2 * d * Rounded(n, d) + d
<1> DEFINE num == 2 * n + d
           den == 2 * d
           q == num \div den
<1>1. num \in Nat /\ den \in Nat \ {0}
  OBVIOUS
<1>2. q \in Nat /\ den * q <= num /\ num < den * q + den
  <2> HIDE DEF num, den
  <2> QED BY <1>1, QuotientBounds
<1>3. Rounded(n, d) = q
  BY DEF Rounded
<1> HIDE DEF q
<1>4. q \in Nat /\ 2 * d * q <= 2 * n + d /\ 2 * n < 2 * d * q + d
  BY <1>2
<1> QED BY <1>3, <1>4

(* A quotient between two whole numbers rounds to one between them.        *)
LEMMA RoundedWithin ==
    ASSUME NEW n \in Nat, NEW d \in Nat \ {0}, NEW lo \in Nat, NEW hi \in Nat,
           lo * d <= n, n <= hi * d
    PROVE  lo <= Rounded(n, d) /\ Rounded(n, d) <= hi
<1> DEFINE q == Rounded(n, d)
<1>1. q \in Nat /\ 2 * d * q <= 2 * n + d /\ 2 * n < 2 * d * q + d
  BY RoundedBounds
<1> HIDE DEF q
<1>2. lo <= q
  <2> SUFFICES ASSUME q + 1 <= lo PROVE FALSE
    BY <1>1
  <2>1. (q + 1) * d <= lo * d
    BY <1>1
  <2> QED BY <1>1, <2>1
<1>3. q <= hi
  <2> SUFFICES ASSUME hi + 1 <= q PROVE FALSE
    BY <1>1
  <2>1. (hi + 1) * d <= q * d
    BY <1>1
  <2> QED BY <1>1, <2>1
<1> QED BY <1>2, <1>3 DEF q

(* The greater of two amounts rounds to no less.                           *)
LEMMA RoundedMonotone ==
    ASSUME NEW n \in Nat, NEW m \in Nat, NEW d \in Nat \ {0}, n <= m
    PROVE  Rounded(n, d) <= Rounded(m, d)
<1> DEFINE q == Rounded(n, d)
           r == Rounded(m, d)
<1>1. q \in Nat /\ 2 * d * q <= 2 * n + d
  BY RoundedBounds
<1>2. r \in Nat /\ 2 * m < 2 * d * r + d
  BY RoundedBounds
<1> HIDE DEF q, r
<1>3. q <= r
  <2> SUFFICES ASSUME r + 1 <= q PROVE FALSE
    BY <1>1, <1>2
  <2>1. (r + 1) * d <= q * d
    BY <1>1, <1>2
  <2> QED BY <1>1, <1>2, <2>1
<1> QED BY <1>3 DEF q, r

(* Whole units may be taken out of what is rounded.                        *)
LEMMA RoundedShift ==
    ASSUME NEW k \in Nat, NEW n \in Nat, NEW d \in Nat \ {0}
    PROVE  Rounded(k * d + n, d) = k + Rounded(n, d)
<1> DEFINE q == Rounded(k * d + n, d)
           r == Rounded(n, d)
<1>1. k * d + n \in Nat
  OBVIOUS
<1>2. q \in Nat /\ 2 * d * q <= 2 * (k * d + n) + d /\ 2 * (k * d + n) < 2 * d * q + d
  BY <1>1, RoundedBounds
<1>3. r \in Nat /\ 2 * d * r <= 2 * n + d /\ 2 * n < 2 * d * r + d
  BY RoundedBounds
<1> HIDE DEF q, r
<1>4. q <= k + r
  <2> SUFFICES ASSUME k + r + 1 <= q PROVE FALSE
    BY <1>2, <1>3
  <2>1. (k + r + 1) * d <= q * d
    BY <1>2, <1>3
  <2>2. (k + r + 1) * d = k * d + r * d + d
    BY <1>3
  <2> QED BY <1>2, <1>3, <2>1, <2>2
<1>5. k + r <= q
  <2> SUFFICES ASSUME q + 1 <= k + r PROVE FALSE
    BY <1>2, <1>3
  <2>1. (q + 1) * d <= (k + r) * d
    BY <1>2, <1>3
  <2>2. (k + r) * d = k * d + r * d
    BY <1>3
  <2> QED BY <1>2, <1>3, <2>1, <2>2
<1> QED BY <1>2, <1>3, <1>4, <1>5 DEF q, r

(* Quotients in their order round in their order.                          *)
LEMMA RoundedInOrder ==
    ASSUME NEW n \in Nat, NEW d \in Nat \ {0}, NEW m \in Nat, NEW e \in Nat \ {0},
           n * e <= m * d
    PROVE  Rounded(n, d) <= Rounded(m, e)
<1> DEFINE q == Rounded(n, d)
           r == Rounded(m, e)
<1>1. q \in Nat /\ 2 * d * q <= 2 * n + d
  BY RoundedBounds
<1>2. r \in Nat /\ 2 * m < 2 * e * r + e
  BY RoundedBounds
<1> HIDE DEF q, r
<1>3. q <= r
  <2> SUFFICES ASSUME r + 1 <= q PROVE FALSE
    BY <1>1, <1>2
  <2>1. (2 * d * q) * e <= (2 * n + d) * e
    BY <1>1, ProductMonotone
  <2>2. (2 * m + 1) * d <= (2 * e * r + e) * d
    BY <1>2, ProductMonotone
  <2>3. (r + 1) * (d * e) <= q * (d * e)
    BY <1>1, <1>2, ProductMonotone
  <2>4. /\ (2 * d * q) * e = 2 * (q * (d * e))
        /\ (2 * n + d) * e = 2 * (n * e) + d * e
        /\ (2 * m + 1) * d = 2 * (m * d) + d
        /\ (2 * e * r + e) * d = 2 * (r * (d * e)) + d * e
        /\ (r + 1) * (d * e) = r * (d * e) + d * e
    BY <1>1, <1>2
  <2>5. /\ q * (d * e) \in Nat /\ n * e \in Nat /\ m * d \in Nat /\ d * e \in Nat
        /\ r * (d * e) \in Nat
    BY <1>1, <1>2
  <2> QED BY <2>1, <2>2, <2>3, <2>4, <2>5
<1> QED BY <1>3 DEF q, r

-------------------------------------------------------------------------------
(* A finite set less one of its elements is smaller by one.                *)
LEMMA DropFewer ==
    ASSUME NEW S, IsFiniteSet(S), NEW x \in S
    PROVE  /\ IsFiniteSet(S \ {x})
           /\ Cardinality(S) \in Nat
           /\ Cardinality(S \ {x}) = Cardinality(S) - 1
           /\ Cardinality(S \ {x}) < Cardinality(S)
<1>1. /\ IsFiniteSet(S \ {x})
      /\ Cardinality(S \ {x}) = Cardinality(S) - 1
  BY FS_RemoveElement
<1>2. Cardinality(S) \in Nat
  BY FS_CardinalityType
<1> QED
  BY <1>1, <1>2

(* A finite set does not fit into itself less one element.                 *)
LEMMA Pigeons ==
    ASSUME NEW S, IsFiniteSet(S), NEW x \in S, NEW f \in [S -> S \ {x}]
    PROVE  \E y, z \in S : y # z /\ f[y] = f[z]
<1> DEFINE R == S \ {x}
<1>1. IsFiniteSet(R) /\ Cardinality(R) < Cardinality(S)
  BY DropFewer
<1>2. f \in [S -> R]
  OBVIOUS
<1> HIDE DEF R
<1> QED
  BY <1>1, <1>2, FS_PigeonHole

(* A set of numbers that has 0, and with each number the next, has all of  *)
(* them: were m the one it misses, adding 1 would fit those up to m into   *)
(* themselves less 0.                                                      *)
LEMMA Induction ==
    ASSUME NEW T, 0 \in T, \A n \in Nat : n \in T => n + 1 \in T,
           NEW m \in Nat
    PROVE  m \in T
<1> SUFFICES ASSUME m \notin T PROVE FALSE
  OBVIOUS
<1> DEFINE S == T \cap 0 .. m
           up == [n \in S |-> n + 1]
<1>1. IsFiniteSet(S)
  <2>1. S \in SUBSET (0 .. m)
    OBVIOUS
  <2>2. IsFiniteSet(0 .. m)
    BY FS_Interval
  <2> HIDE DEF S
  <2> QED BY <2>1, <2>2, FS_Subset
<1>2. up \in [S -> S \ {0}]
  OBVIOUS
<1>3. \A n \in S : up[n] = n + 1 /\ n \in Int
  OBVIOUS
<1>4. 0 \in S
  OBVIOUS
<1> HIDE DEF S, up
<1>5. PICK x, y \in S : x # y /\ up[x] = up[y]
  BY <1>1, <1>2, <1>4, Pigeons
<1> QED
  BY <1>3, <1>5

(* A property the empty set has, and a set has that has it short of any    *)
(* one of its elements, is one of every finite set.                        *)
LEMMA SetInduction ==
    ASSUME NEW S, IsFiniteSet(S), NEW Q, {} \in Q,
           \A T \in SUBSET S : T # {} /\ (\A x \in T : T \ {x} \in Q) => T \in Q
    PROVE  S \in Q
<1> DEFINE N == {n \in Nat : \A T \in SUBSET S : Cardinality(T) = n => T \in Q}
<1>1. \A T \in SUBSET S : IsFiniteSet(T) /\ Cardinality(T) \in Nat
  BY FS_Subset, FS_CardinalityType
<1>2. 0 \in N
  BY <1>1, FS_EmptySet
<1>3. \A n \in Nat : n \in N => n + 1 \in N
  <2> SUFFICES ASSUME NEW n \in Nat, n \in N,
                      NEW T \in SUBSET S, Cardinality(T) = n + 1
               PROVE  T \in Q
    OBVIOUS
  <2>1. T # {}
    <3>1. Cardinality({}) = 0
      BY FS_EmptySet
    <3> QED BY <3>1
  <2>2. \A x \in T : T \ {x} \in SUBSET S /\ Cardinality(T \ {x}) = n
    BY <1>1, DropFewer
  <2> QED BY <2>1, <2>2
<1>4. Cardinality(S) \in Nat
  BY <1>1
<1> HIDE DEF N
<1>5. Cardinality(S) \in N
  BY <1>2, <1>3, <1>4, Induction
<1> QED BY <1>5 DEF N

IsRecursive(f, base, step) ==
    \A n \in Nat : f[n] = IF n = 0 THEN base ELSE step[n][f[n - 1]]

(* What is computed from the value before, from a first one on, exists.    *)
LEMMA Recursion ==
    ASSUME NEW V, NEW base \in V, NEW step \in [Nat -> [V -> V]]
    PROVE  \E f \in [Nat -> V] : IsRecursive(f, base, step)
<1> DEFINE Starts(n, g) ==
             /\ g \in [0 .. n -> V]
             /\ g[0] = base
             /\ \A k \in 1 .. n : g[k] = step[k][g[k - 1]]
           Start(n) == CHOOSE g : Starts(n, g)
           f == [n \in Nat |-> Start(n)[n]]
<1>1. \A n \in Nat : \E g : Starts(n, g)
  <2> DEFINE T == {n \in Nat : \E g : Starts(n, g)}
  <2>1. 0 \in T
    <3>1. Starts(0, [k \in 0 .. 0 |-> base])
      OBVIOUS
    <3> QED BY <3>1
  <2>2. ASSUME NEW n \in Nat, NEW g, Starts(n, g)
        PROVE  \E h : Starts(n + 1, h)
    <3> DEFINE h == [k \in 0 .. n + 1 |-> IF k = n + 1 THEN step[k][g[n]] ELSE g[k]]
    <3>1. g[n] \in V /\ step[n + 1][g[n]] \in V
      BY <2>2
    <3>2. h \in [0 .. n + 1 -> V]
      BY <2>2, <3>1
    <3>3. h[0] = base
      BY <2>2
    <3>4. \A k \in 1 .. n + 1 : h[k] = step[k][h[k - 1]]
      BY <2>2
    <3>5. Starts(n + 1, h)
      BY <3>2, <3>3, <3>4
    <3> QED BY <3>5
  <2>3. \A n \in Nat : n \in T => n + 1 \in T
    <3> HIDE DEF Starts
    <3> QED BY <2>2
  <2> SUFFICES ASSUME NEW n \in Nat PROVE n \in T
    OBVIOUS
  <2> HIDE DEF T
  <2> QED BY <2>1, <2>3, Induction
<1>2. \A n \in Nat : Starts(n, Start(n))
  <2> HIDE DEF Starts
  <2> QED BY <1>1
<1>3. ASSUME NEW n \in Nat, NEW m \in Nat, n <= m
      PROVE  Start(n)[n] = Start(m)[n]
  <2> DEFINE g == Start(n)
             h == Start(m)
             T == {k \in Nat : k <= n => g[k] = h[k]}
  <2>1. Starts(n, g) /\ Starts(m, h)
    BY <1>2
  <2> HIDE DEF g, h
  <2>2. 0 \in T
    BY <2>1
  <2>3. \A k \in Nat : k \in T => k + 1 \in T
    <3> SUFFICES ASSUME NEW k \in Nat, k \in T, k + 1 <= n PROVE g[k + 1] = h[k + 1]
      OBVIOUS
    <3>1. k + 1 \in 1 .. n /\ k + 1 \in 1 .. m /\ (k + 1) - 1 = k
      BY <1>3
    <3>2. g[k + 1] = step[k + 1][g[k]] /\ h[k + 1] = step[k + 1][h[k]]
      BY <2>1, <3>1
    <3> QED BY <3>2
  <2>4. n \in T
    <3> HIDE DEF T
    <3> QED BY <2>2, <2>3, Induction
  <2> QED BY <2>4 DEF g, h
<1>4. f \in [Nat -> V]
  <2> SUFFICES ASSUME NEW n \in Nat PROVE Start(n)[n] \in V
    OBVIOUS
  <2> HIDE DEF Start
  <2>1. Start(n) \in [0 .. n -> V]
    BY <1>2
  <2> QED BY <2>1
<1>5. IsRecursive(f, base, step)
  <2> SUFFICES ASSUME NEW n \in Nat
               PROVE  f[n] = IF n = 0 THEN base ELSE step[n][f[n - 1]]
    BY DEF IsRecursive
  <2>1. CASE n = 0
    BY <1>2, <2>1
  <2>2. CASE n # 0
    <3>1. n \in 1 .. n /\ n - 1 \in Nat /\ n - 1 <= n
      BY <2>2
    <3>2. Start(n)[n] = step[n][Start(n)[n - 1]]
      BY <1>2, <3>1
    <3> HIDE DEF Start
    <3>3. Start(n - 1)[n - 1] = Start(n)[n - 1]
      BY <1>3, <3>1
    <3> QED BY <2>2, <3>1, <3>2, <3>3
  <2> QED BY <2>1, <2>2
<1> QED BY <1>4, <1>5

(* A power is 1, or the base times the power before.                       *)
LEMMA PowerSteps ==
    ASSUME NEW b \in Int
    PROVE  /\ Power(b, 0) = 1
           /\ \A n \in Nat : Power(b, n) \in Int /\ Power(b, n + 1) = b * Power(b, n)
<1> DEFINE step == [k \in Nat |-> [v \in Int |-> b * v]]
           IsPower(p) == p = [k \in Nat |-> IF k = 0 THEN 1 ELSE b * p[k - 1]]
           power == CHOOSE p : IsPower(p)
           one == 1
<1>1. step \in [Nat -> [Int -> Int]] /\ one \in Int
  OBVIOUS
<1>2. PICK p \in [Nat -> Int] : IsRecursive(p, one, step)
  <2> HIDE DEF step, one
  <2> QED BY <1>1, Recursion
<1>3. \A k \in Nat : p[k] = IF k = 0 THEN 1 ELSE b * p[k - 1]
  <2> SUFFICES ASSUME NEW k \in Nat PROVE p[k] = IF k = 0 THEN 1 ELSE b * p[k - 1]
    OBVIOUS
  <2>1. p[k] = IF k = 0 THEN one ELSE step[k][p[k - 1]]
    BY <1>2 DEF IsRecursive
  <2> QED BY <2>1
<1>4. IsPower(p)
  BY <1>3
<1>5. IsPower(power)
  <2> HIDE DEF IsPower
  <2> QED BY <1>4
<1>6. \A n \in Nat : Power(b, n) = power[n]
  BY DEF Power
<1> HIDE DEF power
<1>7. \A k \in Nat : power[k] = IF k = 0 THEN 1 ELSE b * power[k - 1]
  BY <1>5
<1> HIDE DEF IsPower
<1>8. \A n \in Nat : power[n] \in Int
  <2> DEFINE T == {n \in Nat : power[n] \in Int}
  <2>1. 0 \in T
    BY <1>7
  <2>2. \A n \in Nat : n \in T => n + 1 \in T
    BY <1>7
  <2> SUFFICES ASSUME NEW n \in Nat PROVE n \in T
    OBVIOUS
  <2> HIDE DEF T
  <2> QED BY <2>1, <2>2, Induction
<1> QED BY <1>6, <1>7, <1>8

(* Powers of a natural number; none of them is 0 but those of 0.           *)
LEMMA PowerIsNatural ==
    ASSUME NEW b \in Nat
    PROVE  \A n \in Nat : Power(b, n) \in Nat /\ (b # 0 => Power(b, n) # 0)
<1> DEFINE T == {n \in Nat : Power(b, n) \in Nat /\ (b # 0 => Power(b, n) # 0)}
<1>1. 0 \in T
  BY PowerSteps
<1>2. ASSUME NEW n \in Nat, n \in T PROVE n + 1 \in T
  <2> DEFINE p == Power(b, n)
  <2>1. p \in Nat /\ (b # 0 => p # 0) /\ Power(b, n + 1) = b * p
    BY <1>2, PowerSteps
  <2> HIDE DEF p
  <2>2. b * p \in Nat /\ (b # 0 => b * p # 0)
    BY <2>1
  <2> QED BY <2>1, <2>2
<1> SUFFICES ASSUME NEW n \in Nat PROVE n \in T
  OBVIOUS
<1> HIDE DEF T
<1> QED BY <1>1, <1>2, Induction

-------------------------------------------------------------------------------
AnyOf(s) == CHOOSE x \in s : TRUE

IsFold(it, S, base, step) ==
    \A s \in SUBSET S :
       it[s] = IF s = {} THEN base ELSE step[AnyOf(s)][it[s \ {AnyOf(s)}]]

(* What is folded over a finite set, one element at a time, exists.        *)
LEMMA FoldExists ==
    ASSUME NEW S, IsFiniteSet(S), NEW V, NEW base \in V,
           NEW step \in [S -> [V -> V]]
    PROVE  \E it \in [SUBSET S -> V] : IsFold(it, S, base, step)
<1> DEFINE Upto(n) == {s \in SUBSET S : Cardinality(s) <= n}
           Folds(n) ==
             \E it \in [Upto(n) -> V] :
                \A s \in Upto(n) :
                   it[s] = IF s = {} THEN base
                           ELSE step[AnyOf(s)][it[s \ {AnyOf(s)}]]
           N == {n \in Nat : Folds(n)}
<1>1. \A s \in SUBSET S : IsFiniteSet(s) /\ Cardinality(s) \in Nat
  BY FS_Subset, FS_CardinalityType
<1>2. \A s \in SUBSET S : s # {} =>
         /\ AnyOf(s) \in s /\ s \ {AnyOf(s)} \in SUBSET S
         /\ Cardinality(s \ {AnyOf(s)}) = Cardinality(s) - 1
  BY <1>1, DropFewer DEF AnyOf
<1>3. 0 \in N
  <2>1. \A s \in Upto(0) : s = {}
    BY <1>1, FS_EmptySet
  <2>2. [s \in Upto(0) |-> base] \in [Upto(0) -> V]
    OBVIOUS
  <2> QED BY <2>1, <2>2
<1>4. ASSUME NEW n \in Nat, Folds(n) PROVE Folds(n + 1)
  <2>1. PICK it \in [Upto(n) -> V] :
                \A s \in Upto(n) :
                   it[s] = IF s = {} THEN base
                           ELSE step[AnyOf(s)][it[s \ {AnyOf(s)}]]
    BY <1>4
  <2> DEFINE more == [s \in Upto(n + 1) |->
                        IF s = {} THEN base
                        ELSE step[AnyOf(s)][it[s \ {AnyOf(s)}]]]
  <2>2. \A s \in Upto(n + 1) : s # {} => AnyOf(s) \in S /\ s \ {AnyOf(s)} \in Upto(n)
    BY <1>1, <1>2
  <2>3. more \in [Upto(n + 1) -> V]
    BY <2>2
  <2>4. Upto(n) \subseteq Upto(n + 1)
    BY <1>1
  <2>5. \A s \in Upto(n) : more[s] = it[s]
    BY <2>1, <2>4
  <2>6. \A s \in Upto(n + 1) :
          more[s] = IF s = {} THEN base
                    ELSE step[AnyOf(s)][more[s \ {AnyOf(s)}]]
    BY <2>2, <2>5
  <2> QED BY <2>3, <2>6
<1>5. Cardinality(S) \in N
  <2>1. \A n \in Nat : n \in N => n + 1 \in N
    <3> HIDE DEF Folds
    <3> QED BY <1>4
  <2> HIDE DEF N
  <2> QED BY <1>1, <1>3, <2>1, Induction
<1>6. Upto(Cardinality(S)) = SUBSET S
  BY <1>1, FS_Subset
<1> QED BY <1>5, <1>6 DEF IsFold

-------------------------------------------------------------------------------
SumOf(f, S) ==
    CHOOSE sum : sum = [s \in SUBSET S |->
        IF s = {} THEN 0 ELSE f[AnyOf(s)] + sum[s \ {AnyOf(s)}]]

(* The library's sum is such a fold: each set's sum from that of the set   *)
(* without one of its elements, whichever CHOOSE takes.                    *)
LEMMA SumIs == ASSUME NEW f, NEW S PROVE SumFunctionOnSet(f, S) = SumOf(f, S)[S]
  BY DEF SumFunctionOnSet, SumOf, AnyOf, FoldFunctionOnSet, MapThenFoldSet

(* ... and there is such a fold.                                           *)
LEMMA SumOfStep ==
    ASSUME NEW S, IsFiniteSet(S), NEW f, \A x \in S : f[x] \in Int
    PROVE  /\ SumOf(f, S) \in [SUBSET S -> Int]
           /\ \A s \in SUBSET S :
                SumOf(f, S)[s] = IF s = {} THEN 0
                                 ELSE f[AnyOf(s)] + SumOf(f, S)[s \ {AnyOf(s)}]
<1> DEFINE step == [x \in S |-> [n \in Int |-> f[x] + n]]
           IsSum(sum) == sum = [s \in SUBSET S |->
               IF s = {} THEN 0 ELSE f[AnyOf(s)] + sum[s \ {AnyOf(s)}]]
<1>1. step \in [S -> [Int -> Int]]
  OBVIOUS
<1>2. PICK it \in [SUBSET S -> Int] : IsFold(it, S, 0, step)
  <2> DEFINE zero == 0
  <2>1. zero \in Int
    OBVIOUS
  <2> HIDE DEF step, zero
  <2>2. \E it \in [SUBSET S -> Int] : IsFold(it, S, zero, step)
    BY <1>1, <2>1, FoldExists
  <2> QED BY <2>2 DEF zero
<1>3. \A s \in SUBSET S : s # {} => AnyOf(s) \in S /\ s \ {AnyOf(s)} \in SUBSET S
  BY DEF AnyOf
<1>4. \A s \in SUBSET S :
         it[s] = IF s = {} THEN 0 ELSE f[AnyOf(s)] + it[s \ {AnyOf(s)}]
  BY <1>2, <1>3 DEF IsFold
<1>5. IsSum(it)
  BY <1>2, <1>4
<1>6. IsSum(SumOf(f, S))
  <2>1. SumOf(f, S) = CHOOSE sum : IsSum(sum)
    BY DEF SumOf
  <2> HIDE DEF IsSum
  <2> QED BY <1>5, <2>1
<1>7. \A s \in SUBSET S :
         SumOf(f, S)[s] = IF s = {} THEN 0
                          ELSE f[AnyOf(s)] + SumOf(f, S)[s \ {AnyOf(s)}]
  BY <1>6
<1>8. \A s \in SUBSET S : SumOf(f, S)[s] = it[s]
  <2> DEFINE Q == {s \in SUBSET S : SumOf(f, S)[s] = it[s]}
  <2> SUFFICES ASSUME NEW s \in SUBSET S PROVE s \in Q
    OBVIOUS
  <2>1. {} \in Q
    BY <1>4, <1>7
  <2>2. \A T \in SUBSET s : T # {} /\ (\A x \in T : T \ {x} \in Q) => T \in Q
    BY <1>4, <1>7 DEF AnyOf
  <2>3. IsFiniteSet(s)
    BY FS_Subset
  <2> HIDE DEF Q
  <2> QED BY <2>1, <2>2, <2>3, SetInduction
<1>9. SumOf(f, S) \in [SUBSET S -> Int]
  BY <1>2, <1>6, <1>8
<1> QED BY <1>7, <1>9

(* One sum is part of the other's.                                         *)
LEMMA SumPart ==
    ASSUME NEW S, IsFiniteSet(S), NEW f, \A x \in S : f[x] \in Int,
           NEW T \in SUBSET S
    PROVE  SumFunctionOnSet(f, T) = SumOf(f, S)[T]
<1> DEFINE Q == {s \in SUBSET T : SumOf(f, T)[s] = SumOf(f, S)[s]}
<1>1. IsFiniteSet(T)
  BY FS_Subset
<1>2. \A s \in SUBSET T :
         /\ SumOf(f, T)[s] = IF s = {} THEN 0
                             ELSE f[AnyOf(s)] + SumOf(f, T)[s \ {AnyOf(s)}]
         /\ SumOf(f, S)[s] = IF s = {} THEN 0
                             ELSE f[AnyOf(s)] + SumOf(f, S)[s \ {AnyOf(s)}]
  BY <1>1, SumOfStep
<1>3. {} \in Q
  BY <1>2
<1>4. \A s \in SUBSET T : s # {} /\ (\A x \in s : s \ {x} \in Q) => s \in Q
  BY <1>2 DEF AnyOf
<1> HIDE DEF Q
<1>5. T \in Q
  BY <1>1, <1>3, <1>4, SetInduction
<1> QED BY <1>5, SumIs DEF Q

(* Nothing sums to 0.                                                      *)
LEMMA SumEmpty == ASSUME NEW f PROVE SumFunctionOnSet(f, {}) = 0
<1>1. IsFiniteSet({})
  BY FS_EmptySet
<1> DEFINE none == {}
<1>2. IsFiniteSet(none) /\ (\A x \in none : f[x] \in Int) /\ none = {}
  BY <1>1
<1> HIDE DEF none
<1>3. SumOf(f, none)[none] = 0
  BY <1>2, SumOfStep
<1> QED BY <1>2, <1>3, SumIs

(* Integers sum to an integer.                                             *)
LEMMA SumInt ==
    ASSUME NEW S, IsFiniteSet(S), NEW f, \A x \in S : f[x] \in Int
    PROVE  SumFunctionOnSet(f, S) \in Int
<1>1. SumOf(f, S) \in [SUBSET S -> Int] /\ S \in SUBSET S
  BY SumOfStep
<1> QED BY <1>1, SumIs

(* The sum takes out the element CHOOSE takes first.                       *)
LEMMA SumAnyOf ==
    ASSUME NEW S, IsFiniteSet(S), NEW f, \A x \in S : f[x] \in Int, S # {}
    PROVE  SumFunctionOnSet(f, S) = f[AnyOf(S)] + SumFunctionOnSet(f, S \ {AnyOf(S)})
<1>1. SumOf(f, S)[S] = f[AnyOf(S)] + SumOf(f, S)[S \ {AnyOf(S)}]
  BY SumOfStep
<1>2. S \ {AnyOf(S)} \in SUBSET S
  OBVIOUS
<1> QED BY <1>1, <1>2, SumPart

(* Whichever element is taken out, the sum is it and the sum of the rest.  *)
LEMMA SumRemove ==
    ASSUME NEW S, IsFiniteSet(S), NEW f, \A x \in S : f[x] \in Int
    PROVE  \A x \in S : SumFunctionOnSet(f, S) = f[x] + SumFunctionOnSet(f, S \ {x})
<1> DEFINE Q == {T \in SUBSET S :
                   \A x \in T : SumFunctionOnSet(f, T) = f[x] + SumFunctionOnSet(f, T \ {x})}
<1>1. \A T \in SUBSET S : SumFunctionOnSet(f, T) \in Int
  BY FS_Subset, SumInt
<1>2. \A T \in SUBSET S : T # {} =>
         /\ AnyOf(T) \in T
         /\ SumFunctionOnSet(f, T) = f[AnyOf(T)] + SumFunctionOnSet(f, T \ {AnyOf(T)})
  BY FS_Subset, SumAnyOf DEF AnyOf
<1>3. ASSUME NEW T \in SUBSET S, T # {}, \A x \in T : T \ {x} \in Q, NEW x \in T
      PROVE  SumFunctionOnSet(f, T) = f[x] + SumFunctionOnSet(f, T \ {x})
  <2> DEFINE y == AnyOf(T)
             R == T \ {x, y}
  <2>1. y \in T /\ SumFunctionOnSet(f, T) = f[y] + SumFunctionOnSet(f, T \ {y})
    BY <1>2, <1>3
  <2> HIDE DEF y
  <2>2. CASE x = y
    BY <2>1, <2>2
  <2>3. CASE x # y
    <3>1. x \in T \ {y} /\ y \in T \ {x} /\ (T \ {y}) \ {x} = R /\ (T \ {x}) \ {y} = R
      BY <1>3, <2>1, <2>3
    <3>2. SumFunctionOnSet(f, T \ {y}) = f[x] + SumFunctionOnSet(f, R)
      BY <1>3, <2>1, <3>1
    <3>3. SumFunctionOnSet(f, T \ {x}) = f[y] + SumFunctionOnSet(f, R)
      BY <1>3, <3>1
    <3>4. f[x] \in Int /\ f[y] \in Int /\ SumFunctionOnSet(f, R) \in Int
      BY <1>1, <2>1, <1>3
    <3> QED BY <2>1, <3>2, <3>3, <3>4
  <2> QED BY <2>2, <2>3
<1>4. {} \in Q
  OBVIOUS
<1>5. \A T \in SUBSET S : T # {} /\ (\A x \in T : T \ {x} \in Q) => T \in Q
  BY <1>3
<1> HIDE DEF Q
<1>6. S \in Q
  BY <1>4, <1>5, SetInduction
<1> QED BY <1>6 DEF Q

(* What is no greater element by element has no greater sum.               *)
LEMMA SumMonotone ==
    ASSUME NEW S, IsFiniteSet(S), NEW f, NEW g,
           \A x \in S : f[x] \in Int /\ g[x] \in Int /\ f[x] <= g[x]
    PROVE  SumFunctionOnSet(f, S) <= SumFunctionOnSet(g, S)
<1> DEFINE Q == {T \in SUBSET S : SumFunctionOnSet(f, T) <= SumFunctionOnSet(g, T)}
<1>1. \A T \in SUBSET S :
         /\ IsFiniteSet(T)
         /\ SumFunctionOnSet(f, T) \in Int /\ SumFunctionOnSet(g, T) \in Int
  BY FS_Subset, SumInt
<1>2. {} \in Q
  BY SumEmpty
<1>3. ASSUME NEW T \in SUBSET S, NEW x \in T, T \ {x} \in Q
      PROVE  T \in Q
  <2>1. /\ SumFunctionOnSet(f, T) = f[x] + SumFunctionOnSet(f, T \ {x})
        /\ SumFunctionOnSet(g, T) = g[x] + SumFunctionOnSet(g, T \ {x})
    BY <1>1, SumRemove
  <2> QED BY <1>1, <1>3, <2>1
<1>4. S \in Q
  <2>1. \A T \in SUBSET S : T # {} /\ (\A x \in T : T \ {x} \in Q) => T \in Q
    BY <1>3
  <2> HIDE DEF Q
  <2> QED BY <1>2, <2>1, SetInduction
<1> QED BY <1>4

(* Functions that agree on a set have one sum over it.                     *)
LEMMA SumSame ==
    ASSUME NEW S, IsFiniteSet(S), NEW f, NEW g,
           \A x \in S : f[x] \in Int /\ g[x] = f[x]
    PROVE  SumFunctionOnSet(f, S) = SumFunctionOnSet(g, S)
<1>1. SumFunctionOnSet(f, S) \in Int /\ SumFunctionOnSet(g, S) \in Int
  BY SumInt
<1>2. /\ SumFunctionOnSet(f, S) <= SumFunctionOnSet(g, S)
      /\ SumFunctionOnSet(g, S) <= SumFunctionOnSet(f, S)
  BY SumMonotone
<1> QED BY <1>1, <1>2

(* Natural numbers sum to a natural number.                                *)
LEMMA SumNat ==
    ASSUME NEW S, IsFiniteSet(S), NEW f, \A x \in S : f[x] \in Nat
    PROVE  SumFunctionOnSet(f, S) \in Nat
<1> DEFINE Q == {T \in SUBSET S : SumFunctionOnSet(f, T) \in Nat}
<1>1. {} \in Q
  BY SumEmpty
<1>2. ASSUME NEW T \in SUBSET S, NEW x \in T, T \ {x} \in Q
      PROVE  T \in Q
  <2>1. IsFiniteSet(T) /\ \A y \in T : f[y] \in Int
    BY FS_Subset
  <2>2. SumFunctionOnSet(f, T) = f[x] + SumFunctionOnSet(f, T \ {x})
    BY <2>1, SumRemove
  <2> QED BY <1>2, <2>2
<1>3. S \in Q
  <2>1. \A T \in SUBSET S : T # {} /\ (\A x \in T : T \ {x} \in Q) => T \in Q
    BY <1>2
  <2> HIDE DEF Q
  <2> QED BY <1>1, <2>1, SetInduction
<1> QED BY <1>3

(* The sum of a sum is the sum of the sums.                                *)
LEMMA SumPlus ==
    ASSUME NEW S, IsFiniteSet(S), NEW f, NEW g, NEW h,
           \A x \in S : f[x] \in Int /\ g[x] \in Int /\ h[x] = f[x] + g[x]
    PROVE  SumFunctionOnSet(h, S) = SumFunctionOnSet(f, S) + SumFunctionOnSet(g, S)
<1> DEFINE Q == {T \in SUBSET S :
                   SumFunctionOnSet(h, T) = SumFunctionOnSet(f, T) + SumFunctionOnSet(g, T)}
<1>1. \A T \in SUBSET S :
         /\ IsFiniteSet(T)
         /\ SumFunctionOnSet(f, T) \in Int /\ SumFunctionOnSet(g, T) \in Int
  BY FS_Subset, SumInt
<1>2. {} \in Q
  BY SumEmpty
<1>3. ASSUME NEW T \in SUBSET S, NEW x \in T, T \ {x} \in Q
      PROVE  T \in Q
  <2>1. \A y \in T : f[y] \in Int /\ g[y] \in Int /\ h[y] \in Int
    OBVIOUS
  <2>2. /\ SumFunctionOnSet(f, T) = f[x] + SumFunctionOnSet(f, T \ {x})
        /\ SumFunctionOnSet(g, T) = g[x] + SumFunctionOnSet(g, T \ {x})
        /\ SumFunctionOnSet(h, T) = h[x] + SumFunctionOnSet(h, T \ {x})
    BY <1>1, <2>1, SumRemove
  <2> QED BY <1>1, <1>3, <2>2
<1>4. S \in Q
  <2>1. \A T \in SUBSET S : T # {} /\ (\A x \in T : T \ {x} \in Q) => T \in Q
    BY <1>3
  <2> HIDE DEF Q
  <2> QED BY <1>2, <2>1, SetInduction
<1> QED BY <1>4

(* A common factor may be taken out of a sum.                              *)
LEMMA SumTimes ==
    ASSUME NEW S, IsFiniteSet(S), NEW f, NEW h, NEW c \in Int,
           \A x \in S : f[x] \in Int /\ h[x] = c * f[x]
    PROVE  SumFunctionOnSet(h, S) = c * SumFunctionOnSet(f, S)
<1> DEFINE Q == {T \in SUBSET S : SumFunctionOnSet(h, T) = c * SumFunctionOnSet(f, T)}
<1>1. \A T \in SUBSET S : IsFiniteSet(T) /\ SumFunctionOnSet(f, T) \in Int
  BY FS_Subset, SumInt
<1>2. {} \in Q
  BY SumEmpty
<1>3. ASSUME NEW T \in SUBSET S, NEW x \in T, T \ {x} \in Q
      PROVE  T \in Q
  <2>1. \A y \in T : f[y] \in Int /\ h[y] \in Int
    OBVIOUS
  <2>2. /\ SumFunctionOnSet(f, T) = f[x] + SumFunctionOnSet(f, T \ {x})
        /\ SumFunctionOnSet(h, T) = h[x] + SumFunctionOnSet(h, T \ {x})
    BY <1>1, <2>1, SumRemove
  <2>3. f[x] \in Int /\ SumFunctionOnSet(f, T \ {x}) \in Int
    BY <1>1
  <2>4. c * (f[x] + SumFunctionOnSet(f, T \ {x})) = c * f[x] + c * SumFunctionOnSet(f, T \ {x})
    BY <2>3
  <2> QED BY <1>3, <2>2, <2>4
<1>4. S \in Q
  <2>1. \A T \in SUBSET S : T # {} /\ (\A x \in T : T \ {x} \in Q) => T \in Q
    BY <1>3
  <2> HIDE DEF Q
  <2> QED BY <1>2, <2>1, SetInduction
<1> QED BY <1>4

(* The sum of the same number over and over.                               *)
LEMMA SumConstant ==
    ASSUME NEW S, IsFiniteSet(S), NEW f, NEW c \in Int, \A x \in S : f[x] = c
    PROVE  SumFunctionOnSet(f, S) = c * Cardinality(S)
<1> DEFINE Q == {T \in SUBSET S : SumFunctionOnSet(f, T) = c * Cardinality(T)}
<1>1. {} \in Q
  <2>1. Cardinality({}) = 0 /\ SumFunctionOnSet(f, {}) = 0
    BY SumEmpty, FS_EmptySet
  <2> QED BY <2>1
<1>2. ASSUME NEW T \in SUBSET S, NEW x \in T, T \ {x} \in Q
      PROVE  T \in Q
  <2>1. SumFunctionOnSet(f, T) = f[x] + SumFunctionOnSet(f, T \ {x})
    BY FS_Subset, SumRemove
  <2>2. Cardinality(T) \in Nat /\ Cardinality(T \ {x}) = Cardinality(T) - 1
    BY FS_Subset, DropFewer
  <2>3. c * Cardinality(T) = c + c * (Cardinality(T) - 1)
    BY <2>2
  <2> QED BY <1>2, <2>1, <2>2, <2>3
<1>3. S \in Q
  <2>1. \A T \in SUBSET S : T # {} /\ (\A x \in T : T \ {x} \in Q) => T \in Q
    BY <1>2
  <2> HIDE DEF Q
  <2> QED BY <1>1, <2>1, SetInduction
<1> QED BY <1>3

(* The sum over a set is that over a part and that over the rest.          *)
LEMMA SumUnion ==
    ASSUME NEW S, IsFiniteSet(S), NEW f, \A x \in S : f[x] \in Int,
           NEW R \in SUBSET S
    PROVE  SumFunctionOnSet(f, S) = SumFunctionOnSet(f, R) + SumFunctionOnSet(f, S \ R)
<1> DEFINE Q == {T \in SUBSET S :
                   SumFunctionOnSet(f, T) =
                     SumFunctionOnSet(f, T \cap R) + SumFunctionOnSet(f, T \ R)}
<1>1. \A T \in SUBSET S : IsFiniteSet(T) /\ SumFunctionOnSet(f, T) \in Int
  BY FS_Subset, SumInt
<1>2. {} \in Q
  <2>1. {} \cap R = {} /\ {} \ R = {}
    OBVIOUS
  <2> QED BY <2>1, SumEmpty
<1>3. ASSUME NEW T \in SUBSET S, NEW x \in T, T \ {x} \in Q
      PROVE  T \in Q
  <2>1. SumFunctionOnSet(f, T) = f[x] + SumFunctionOnSet(f, T \ {x})
    BY <1>1, SumRemove
  <2>2. CASE x \in R
    <3>1. (T \ {x}) \cap R = (T \cap R) \ {x} /\ (T \ {x}) \ R = T \ R /\ x \in T \cap R
      BY <2>2
    <3>2. SumFunctionOnSet(f, T \cap R) = f[x] + SumFunctionOnSet(f, (T \cap R) \ {x})
      BY <1>1, <3>1, SumRemove
    <3>3. SumFunctionOnSet(f, T \ {x}) = SumFunctionOnSet(f, (T \cap R) \ {x}) + SumFunctionOnSet(f, T \ R)
      BY <1>3, <3>1
    <3> QED BY <1>1, <2>1, <3>2, <3>3
  <2>3. CASE x \notin R
    <3>1. (T \ {x}) \cap R = T \cap R /\ (T \ {x}) \ R = (T \ R) \ {x} /\ x \in T \ R
      BY <2>3
    <3>2. SumFunctionOnSet(f, T \ R) = f[x] + SumFunctionOnSet(f, (T \ R) \ {x})
      BY <1>1, <3>1, SumRemove
    <3>3. SumFunctionOnSet(f, T \ {x}) = SumFunctionOnSet(f, T \cap R) + SumFunctionOnSet(f, (T \ R) \ {x})
      BY <1>3, <3>1
    <3> QED BY <1>1, <2>1, <3>2, <3>3
  <2> QED BY <2>2, <2>3
<1>4. S \in Q
  <2>1. \A T \in SUBSET S : T # {} /\ (\A x \in T : T \ {x} \in Q) => T \in Q
    BY <1>3
  <2> HIDE DEF Q
  <2> QED BY <1>2, <2>1, SetInduction
<1>5. S \cap R = R
  OBVIOUS
<1> QED BY <1>4, <1>5

(* A sum is the sum, over the kinds there are, of what each kind sums to.  *)
Kinds(k, S) == {k[x] : x \in S}
OfKind(k, S, t) == {x \in S : k[x] = t}
SumsByKind(g, f, k, S) ==
    \A t \in Kinds(k, S) : g[t] = SumFunctionOnSet(f, OfKind(k, S, t))

LEMMA SumByKind ==
    ASSUME NEW S, IsFiniteSet(S), NEW f, \A x \in S : f[x] \in Int,
           NEW k, NEW g, SumsByKind(g, f, k, S)
    PROVE  /\ IsFiniteSet(Kinds(k, S))
           /\ SumFunctionOnSet(g, Kinds(k, S)) = SumFunctionOnSet(f, S)
<1> DEFINE K == Kinds(k, S)
           Of(T) == {x \in S : k[x] \in T}
           Q == {T \in SUBSET K : SumFunctionOnSet(g, T) = SumFunctionOnSet(f, Of(T))}
<1>1. IsFiniteSet(K)
  <2> DEFINE F == [x \in S |-> k[x]]
  <2>2. F \in Surjection(S, K)
    BY DEF Surjection, Kinds
  <2> QED BY <2>2, FS_Surjection
<1>2. \A T \in SUBSET K : Of(T) \in SUBSET S /\ IsFiniteSet(Of(T))
  BY FS_Subset
<1>3. \A t \in K : g[t] \in Int
  <2> TAKE t \in K
  <2> DEFINE R == OfKind(k, S, t)
  <2>1. IsFiniteSet(R) /\ \A x \in R : f[x] \in Int
    BY FS_Subset DEF OfKind
  <2> HIDE DEF R
  <2>2. SumFunctionOnSet(f, R) \in Int
    BY <2>1, SumInt
  <2> QED BY <2>2 DEF R, SumsByKind
<1>4. {} \in Q
  <2>1. Of({}) = {} /\ {} \in SUBSET K
    OBVIOUS
  <2>2. SumFunctionOnSet(g, {}) = 0 /\ SumFunctionOnSet(f, {}) = 0
    BY SumEmpty
  <2> QED BY <2>1, <2>2
<1>5. ASSUME NEW T \in SUBSET K, T # {}, \A t \in T : T \ {t} \in Q
      PROVE  T \in Q
  <2>1. PICK t \in T : TRUE
    BY <1>5
  <2> DEFINE R == OfKind(k, S, t)
             rest == T \ {t}
  <2>2. R \in SUBSET Of(T) /\ Of(T) \ R = Of(rest)
    BY <2>1 DEF OfKind
  <2>3. SumFunctionOnSet(f, Of(T)) = SumFunctionOnSet(f, R) + SumFunctionOnSet(f, Of(T) \ R)
    <3>1. IsFiniteSet(Of(T)) /\ \A x \in Of(T) : f[x] \in Int
      BY <1>2
    <3>2. R \in SUBSET Of(T)
      BY <2>2
    <3> HIDE DEF R, Of
    <3> QED BY <3>1, <3>2, SumUnion
  <2>4. SumFunctionOnSet(g, T) = g[t] + SumFunctionOnSet(g, rest)
    <3>1. IsFiniteSet(T) /\ \A x \in T : g[x] \in Int
      BY <1>1, <1>3, FS_Subset
    <3> QED BY <2>1, <3>1, SumRemove
  <2>5. SumFunctionOnSet(g, rest) = SumFunctionOnSet(f, Of(rest))
    BY <1>5, <2>1
  <2>6. g[t] = SumFunctionOnSet(f, R)
    BY <2>1 DEF SumsByKind
  <2> HIDE DEF R, Of, rest
  <2> QED BY <2>2, <2>3, <2>4, <2>5, <2>6
<1>6. K \in Q
  <2> HIDE DEF Q
  <2> QED BY <1>1, <1>4, <1>5, SetInduction
<1>7. Of(K) = S
  BY DEF Kinds
<1> QED BY <1>1, <1>6, <1>7

(* A sum of roundings is within half a unit each of the sum.               *)
LEMMA SumOfRounded ==
    ASSUME NEW T, IsFiniteSet(T), NEW v, \A t \in T : v[t] \in Nat,
           NEW d \in Nat \ {0}, NEW r, \A t \in T : r[t] = Rounded(v[t], d)
    PROVE  /\ SumFunctionOnSet(v, T) \in Nat /\ SumFunctionOnSet(r, T) \in Nat
           /\ 2 * d * SumFunctionOnSet(r, T)
                 <= 2 * SumFunctionOnSet(v, T) + d * Cardinality(T)
           /\ 2 * SumFunctionOnSet(v, T)
                 <= 2 * d * SumFunctionOnSet(r, T) + d * Cardinality(T)
<1> DEFINE twice == [t \in T |-> 2 * v[t]]
           scaled == [t \in T |-> 2 * d * r[t]]
           each == [t \in T |-> d]
           above == [t \in T |-> twice[t] + each[t]]
           under == [t \in T |-> scaled[t] + each[t]]
           two == 2
           scale == 2 * d
<1>0. two \in Int /\ scale \in Int /\ d \in Int
  OBVIOUS
<1>1. \A t \in T : /\ v[t] \in Int /\ r[t] \in Nat /\ twice[t] \in Int /\ scaled[t] \in Int
                   /\ above[t] \in Int /\ under[t] \in Int
                   /\ scaled[t] <= above[t] /\ twice[t] <= under[t]
  <2> TAKE t \in T
  <2>1. r[t] = Rounded(v[t], d) /\ v[t] \in Nat
    OBVIOUS
  <2>2. /\ r[t] \in Nat /\ 2 * d * r[t] <= 2 * v[t] + d /\ 2 * v[t] < 2 * d * r[t] + d
    BY <2>1, RoundedBounds
  <2>3. 2 * d * r[t] \in Int
    BY <2>2
  <2> QED BY <2>1, <2>2, <2>3
<1>2. \A t \in T : /\ twice[t] = two * v[t] /\ scaled[t] = scale * r[t] /\ each[t] = d
                   /\ above[t] = twice[t] + each[t] /\ under[t] = scaled[t] + each[t]
  OBVIOUS
<1> HIDE DEF twice, scaled, each, above, under, two, scale
<1>3. SumFunctionOnSet(twice, T) = two * SumFunctionOnSet(v, T)
  BY <1>0, <1>1, <1>2, SumTimes
<1>4. SumFunctionOnSet(scaled, T) = scale * SumFunctionOnSet(r, T)
  BY <1>0, <1>1, <1>2, SumTimes
<1>5. SumFunctionOnSet(each, T) = d * Cardinality(T)
  BY <1>0, <1>2, SumConstant
<1>6. SumFunctionOnSet(above, T) = SumFunctionOnSet(twice, T) + SumFunctionOnSet(each, T)
  BY <1>0, <1>1, <1>2, SumPlus
<1>7. SumFunctionOnSet(under, T) = SumFunctionOnSet(scaled, T) + SumFunctionOnSet(each, T)
  BY <1>0, <1>1, <1>2, SumPlus
<1>8. /\ SumFunctionOnSet(scaled, T) <= SumFunctionOnSet(above, T)
      /\ SumFunctionOnSet(twice, T) <= SumFunctionOnSet(under, T)
  BY <1>1, SumMonotone
<1>9. SumFunctionOnSet(v, T) \in Nat /\ SumFunctionOnSet(r, T) \in Nat
  BY <1>1, SumNat
<1>10. Cardinality(T) \in Nat
  BY FS_CardinalityType
<1> QED BY <1>3, <1>4, <1>5, <1>6, <1>7, <1>8, <1>9, <1>10 DEF two, scale

(* Less of what is not negative sums to no more.                           *)
LEMMA SumWithin ==
    ASSUME NEW S, IsFiniteSet(S), NEW f, \A x \in S : f[x] \in Nat, NEW R \in SUBSET S
    PROVE  SumFunctionOnSet(f, R) <= SumFunctionOnSet(f, S)
<1> DEFINE rest == S \ R
<1>1. IsFiniteSet(R) /\ IsFiniteSet(rest) /\ \A x \in S : f[x] \in Int
  BY FS_Subset
<1>2. (\A x \in R : f[x] \in Nat) /\ \A x \in rest : f[x] \in Nat
  OBVIOUS
<1>3. SumFunctionOnSet(f, S) = SumFunctionOnSet(f, R) + SumFunctionOnSet(f, rest)
  BY <1>1, SumUnion
<1> HIDE DEF rest
<1>4. SumFunctionOnSet(f, R) \in Nat /\ SumFunctionOnSet(f, rest) \in Nat
  BY <1>1, <1>2, SumNat
<1> QED BY <1>3, <1>4

-------------------------------------------------------------------------------
(***************************************************************************)
(* Order.  Of finitely many numbers one is the least and one the greatest. *)
(***************************************************************************)
LEMMA LeastOf ==
    ASSUME NEW S, IsFiniteSet(S), S # {}, NEW v, \A x \in S : v[x] \in Int
    PROVE  \E a \in S : \A b \in S : v[a] <= v[b]
<1> DEFINE HasLeast(T) == T = {} \/ \E a \in T : \A b \in T : v[a] <= v[b]
           Q == {T \in SUBSET S : HasLeast(T)}
<1>1. {} \in Q
  OBVIOUS
<1>2. ASSUME NEW T \in SUBSET S, T # {}, \A x \in T : T \ {x} \in Q
      PROVE  T \in Q
  <2>1. PICK x \in T : TRUE
    BY <1>2
  <2>2. CASE T \ {x} = {}
    <3>1. \A b \in T : b = x
      BY <2>2
    <3>2. \A b \in T : v[x] <= v[b]
      BY <3>1
    <3> QED BY <2>1, <3>2
  <2>3. CASE \E a \in T \ {x} : \A b \in T \ {x} : v[a] <= v[b]
    <3>1. PICK a \in T \ {x} : \A b \in T \ {x} : v[a] <= v[b]
      BY <2>3
    <3>2. CASE v[x] <= v[a]
      <4>1. \A b \in T : v[x] <= v[b]
        BY <2>1, <3>1, <3>2
      <4> QED BY <2>1, <4>1
    <3>3. CASE v[a] <= v[x]
      <4>1. \A b \in T : v[a] <= v[b]
        BY <2>1, <3>1, <3>3
      <4> QED BY <3>1, <4>1
    <3>4. v[x] \in Int /\ v[a] \in Int
      OBVIOUS
    <3> QED BY <3>2, <3>3, <3>4
  <2> QED BY <1>2, <2>1, <2>2, <2>3
<1>3. S \in Q
  <2> HIDE DEF Q
  <2> QED BY <1>1, <1>2, SetInduction
<1> QED BY <1>3

(* The greatest is the least of the opposites.                             *)
LEMMA GreatestOf ==
    ASSUME NEW S, IsFiniteSet(S), S # {}, NEW v, \A x \in S : v[x] \in Int
    PROVE  \E a \in S : \A b \in S : v[b] <= v[a]
<1> DEFINE w == [x \in S |-> -v[x]]
<1>1. \A x \in S : w[x] \in Int /\ w[x] = -v[x]
  OBVIOUS
<1> HIDE DEF w
<1>2. PICK a \in S : \A b \in S : w[a] <= w[b]
  BY <1>1, LeastOf
<1> QED BY <1>1, <1>2

(* The rows with fewer than limit others before them are the first of      *)
(* them: all of them or limit many, and before every other.                *)
Orders(key, rows) ==
    (\A x \in rows : key[x] \in Int) /\ \A x, y \in rows : key[x] = key[y] => x = y
Ahead(rows, key, limit) ==
    {x \in rows : Cardinality({y \in rows : key[y] < key[x]}) < limit}

LEMMA FirstRows ==
    ASSUME NEW rows, IsFiniteSet(rows), NEW key, Orders(key, rows), NEW limit \in Nat, NEW listed,
           listed = Ahead(rows, key, limit)
    PROVE  /\ listed \subseteq rows
           /\ Cardinality(listed) <= limit
           /\ listed = rows \/ Cardinality(listed) = limit
           /\ \A x \in listed, y \in rows \ listed : key[x] < key[y]
<1> DEFINE Before(x) == {y \in rows : key[y] < key[x]}
<1>0. (\A x \in rows : key[x] \in Int) /\ \A x, y \in rows : key[x] = key[y] => x = y
  BY DEF Orders
<1>1. /\ listed \subseteq rows /\ IsFiniteSet(listed)
      /\ \A x \in rows : x \in listed <=> Cardinality(Before(x)) < limit
  BY FS_Subset DEF Ahead
<1>2. \A x \in rows : IsFiniteSet(Before(x)) /\ Cardinality(Before(x)) \in Nat
  BY FS_Subset, FS_CardinalityType
<1>3. ASSUME NEW x \in listed, NEW y \in rows \ listed PROVE key[x] < key[y]
  <2> SUFFICES ASSUME key[y] < key[x] PROVE FALSE
    BY <1>0, <1>1
  <2>1. Before(y) \subseteq Before(x)
    BY <1>0, <1>1
  <2>2. Cardinality(Before(y)) <= Cardinality(Before(x))
    BY <1>1, <1>2, <2>1, FS_Subset
  <2> HIDE DEF Before
  <2> QED BY <1>1, <1>2, <2>2
<1>4. Cardinality(listed) \in Nat
  BY <1>1, FS_CardinalityType
<1>5. Cardinality(listed) <= limit
  <2>1. CASE listed = {}
    <3>1. Cardinality(listed) = 0
      BY <2>1, FS_EmptySet
    <3> QED BY <3>1
  <2>2. CASE listed # {}
    <3>1. \A x \in listed : key[x] \in Int
      BY <1>0, <1>1
    <3>2. PICK z \in listed : \A x \in listed : key[x] <= key[z]
      BY <1>1, <2>2, <3>1, GreatestOf
    <3>3. listed \ {z} \subseteq Before(z)
      BY <1>0, <1>1, <3>2
    <3>4. Cardinality(listed \ {z}) <= Cardinality(Before(z))
      BY <1>1, <1>2, <3>3, FS_Subset
    <3>5. Cardinality(listed \ {z}) = Cardinality(listed) - 1
      BY <1>1, FS_RemoveElement
    <3>6. Cardinality(Before(z)) < limit /\ Cardinality(Before(z)) \in Nat
      BY <1>1, <1>2
    <3> HIDE DEF Before
    <3> QED BY <1>4, <3>4, <3>5, <3>6
  <2> QED BY <2>1, <2>2
<1>6. ASSUME listed # rows PROVE Cardinality(listed) = limit
  <2> DEFINE rest == rows \ listed
  <2>1. rest # {} /\ IsFiniteSet(rest) /\ \A x \in rest : key[x] \in Int
    BY <1>0, <1>1, <1>6, FS_Subset
  <2>2. PICK z \in rest : \A x \in rest : key[z] <= key[x]
    <3> HIDE DEF rest
    <3> QED BY <2>1, LeastOf
  <2>3. z \in rows /\ z \notin listed
    OBVIOUS
  <2>4. Before(z) = listed
    <3>1. \A y \in Before(z) : y \in listed
      <4> SUFFICES ASSUME NEW y \in rows, key[y] < key[z], y \notin listed PROVE FALSE
        OBVIOUS
      <4>1. key[z] <= key[y]
        BY <2>2
      <4> QED BY <1>0, <2>3, <4>1
    <3>2. \A y \in listed : y \in Before(z)
      BY <1>1, <1>3, <2>3
    <3> QED BY <3>1, <3>2
  <2>5. ~(Cardinality(listed) < limit)
    BY <1>1, <2>3, <2>4
  <2> QED BY <1>4, <1>5, <2>5
<1> QED BY <1>1, <1>3, <1>5, <1>6
===============================================================================
