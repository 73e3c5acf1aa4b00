---------------------------- MODULE ValuationProofs ----------------------------
(***************************************************************************)
(* What the two steps that weigh evidence promise: the sales comparison,   *)
(* whose grid is sorted, trimmed and averaged into one value, and the      *)
(* reconciliation of the approaches; for any calls and any comparables a   *)
(* caller may list, any units, any limits of adequacy and any tolerance    *)
(* below 1.                                                                *)
(***************************************************************************)
EXTENDS Reconciliation, SalesComparison, ArithmeticProofs

-------------------------------------------------------------------------------
(* An accepted call failed none of the checks.                             *)
LEMMA AcceptedPasses ==
    ASSUME NEW c \in Call, Code(c) = "accepted"
    PROVE  /\ ~Malformed(c.lines)
           /\ ~OffOne(c.lines)
           /\ Required(c) \subseteq Relied(c.lines)
           /\ Forbidden(c) \intersect Relied(c.lines) = {}
           /\ ~Diverges(c)
  BY DEF Code

(* The weights of well-formed lines are between 0 and 1 and their values   *)
(* are natural numbers.                                                    *)
LEMMA LinesTyped ==
    ASSUME NEW lines \in Seq(Line), ~Malformed(lines), NEW m \in Methods
    PROVE  Weight(lines, m) \in 0 .. One /\ Indicated(lines, m) \in Nat
<1>1. CASE Written(lines, m)
  <2>1. PICK i \in DOMAIN lines : lines[i] = LineOf(lines, m)
    BY <1>1 DEF Written, LineOf
  <2>2. lines[i] \in Line
    BY <2>1
  <2>3. LineOf(lines, m).weight \in 0 .. One
    BY <2>1 DEF Malformed
  <2>4. LineOf(lines, m).value \in Nat
    BY <2>1, <2>2 DEF Line
  <2> QED BY <1>1, <2>3, <2>4 DEF Weight, Indicated
<1>2. CASE ~Written(lines, m)
  BY <1>2, UnitsAssumption DEF Weight, Indicated
<1> QED BY <1>1, <1>2

(* Among the approaches relied on, one is lowest and one is highest.       *)
LEMMA RangeExists ==
    ASSUME NEW lines \in Seq(Line), ~Malformed(lines), Relied(lines) # {}
    PROVE  /\ Lowest(lines) \in Nat
           /\ Highest(lines) \in Nat
           /\ \E m \in Relied(lines) : Lowest(lines) = Indicated(lines, m)
           /\ \E m \in Relied(lines) : Highest(lines) = Indicated(lines, m)
           /\ \A m \in Relied(lines) : /\ Lowest(lines) <= Indicated(lines, m)
                                       /\ Indicated(lines, m) <= Highest(lines)
<1> DEFINE V(m) == Indicated(lines, m)
           R == Relied(lines)
<1>1. \A m \in Methods : V(m) \in Nat
  BY LinesTyped
<1>2. R \subseteq {"sales", "income", "cost"} /\ R # {}
  BY DEF Relied, Methods
<1>3. /\ V("sales") \in Nat
      /\ V("income") \in Nat
      /\ V("cost") \in Nat
  BY <1>1 DEF Methods
<1> HIDE DEF V, R
<1>4. \E m \in R : \A k \in R : V(m) <= V(k)
  <2> DEFINE Least(m) == /\ m \in R
                         /\ "sales" \in R => V(m) <= V("sales")
                         /\ "income" \in R => V(m) <= V("income")
                         /\ "cost" \in R => V(m) <= V("cost")
  <2>1. "sales" \in R \/ "income" \in R \/ "cost" \in R
    BY <1>2
  <2>2. Least("sales") \/ Least("income") \/ Least("cost")
    BY <1>3, <2>1
  <2>3. \A m : Least(m) => \A k \in R : V(m) <= V(k)
    BY <1>2
  <2>4. \A m : Least(m) => m \in R
    OBVIOUS
  <2> HIDE DEF Least
  <2> QED BY <2>2, <2>3, <2>4
<1>5. \E m \in R : \A k \in R : V(m) >= V(k)
  <2> DEFINE Greatest(m) == /\ m \in R
                            /\ "sales" \in R => V(m) >= V("sales")
                            /\ "income" \in R => V(m) >= V("income")
                            /\ "cost" \in R => V(m) >= V("cost")
  <2>1. "sales" \in R \/ "income" \in R \/ "cost" \in R
    BY <1>2
  <2>2. Greatest("sales") \/ Greatest("income") \/ Greatest("cost")
    BY <1>3, <2>1
  <2>3. \A m : Greatest(m) => \A k \in R : V(m) >= V(k)
    BY <1>2
  <2>4. \A m : Greatest(m) => m \in R
    OBVIOUS
  <2> HIDE DEF Greatest
  <2> QED BY <2>2, <2>3, <2>4
<1>6. \E v \in {V(m) : m \in R} : \A m \in R : v <= V(m)
  BY <1>4
<1>7. \E v \in {V(m) : m \in R} : \A m \in R : v >= V(m)
  BY <1>5
<1>8. Lowest(lines) \in {V(m) : m \in R} /\ \A m \in R : Lowest(lines) <= V(m)
  BY <1>6 DEF Lowest, V, R
<1>9. Highest(lines) \in {V(m) : m \in R} /\ \A m \in R : Highest(lines) >= V(m)
  BY <1>7 DEF Highest, V, R
<1>10. \A v \in {V(m) : m \in R} : v \in Nat
  BY <1>2, <1>3
<1>11. Lowest(lines) \in Nat /\ Highest(lines) \in Nat
  BY <1>8, <1>9, <1>10
<1>12. \A m \in R : V(m) \in Nat
  BY <1>10
<1>13. \A m \in R : V(m) <= Highest(lines)
  BY <1>9, <1>11, <1>12
<1> QED BY <1>8, <1>9, <1>11, <1>13 DEF V, R

(* One term of the weighted sum lies between the lowest and the highest    *)
(* value, times its weight.                                                *)
LEMMA ShareBounds ==
    ASSUME NEW lines \in Seq(Line), ~Malformed(lines), Relied(lines) # {},
           NEW m \in Methods
    PROVE  /\ Share(lines, m) \in Nat
           /\ Lowest(lines) * Weight(lines, m) <= Share(lines, m)
           /\ Share(lines, m) <= Highest(lines) * Weight(lines, m)
<1> DEFINE w == Weight(lines, m)
           v == Indicated(lines, m)
           lo == Lowest(lines)
           hi == Highest(lines)
<1>1. w \in Nat /\ v \in Nat
  BY LinesTyped, UnitsAssumption
<1>2. lo \in Nat /\ hi \in Nat
  BY RangeExists
<1>3. w = 0 \/ (lo <= v /\ v <= hi)
  <2>1. w = 0 \/ m \in Relied(lines)
    BY <1>1 DEF Relied
  <2> QED BY <2>1, RangeExists
<1> HIDE DEF w, v, lo, hi
<1>4. v * w \in Nat /\ lo * w <= v * w /\ v * w <= hi * w
  BY <1>1, <1>2, <1>3
<1> QED BY <1>4 DEF Share, w, v, lo, hi

(* The weighted sum lies between the lowest and the highest value, times   *)
(* the sum of the weights.                                                 *)
LEMMA SumBounds ==
    ASSUME NEW lines \in Seq(Line), ~Malformed(lines), Relied(lines) # {}
    PROVE  /\ TotalWeight(lines) \in Nat
           /\ WeightedSum(lines) \in Nat
           /\ Lowest(lines) * TotalWeight(lines) <= WeightedSum(lines)
           /\ WeightedSum(lines) <= Highest(lines) * TotalWeight(lines)
<1> DEFINE a == Weight(lines, "sales")
           b == Weight(lines, "income")
           c == Weight(lines, "cost")
           x == Share(lines, "sales")
           y == Share(lines, "income")
           z == Share(lines, "cost")
           lo == Lowest(lines)
           hi == Highest(lines)
<1>1. a \in Nat /\ b \in Nat /\ c \in Nat
  BY LinesTyped, UnitsAssumption DEF Methods
<1>2. lo \in Nat /\ hi \in Nat
  BY RangeExists
<1>3. x \in Nat /\ lo * a <= x /\ x <= hi * a
  BY ShareBounds DEF Methods
<1>4. y \in Nat /\ lo * b <= y /\ y <= hi * b
  BY ShareBounds DEF Methods
<1>5. z \in Nat /\ lo * c <= z /\ z <= hi * c
  BY ShareBounds DEF Methods
<1>6. TotalWeight(lines) = a + b + c /\ WeightedSum(lines) = x + y + z
  BY DEF TotalWeight, WeightedSum
<1> HIDE DEF a, b, c, x, y, z, lo, hi
<1>7. /\ lo * (a + b + c) = lo * a + lo * b + lo * c
      /\ hi * (a + b + c) = hi * a + hi * b + hi * c
  BY <1>1, <1>2
<1>8. lo * a \in Nat /\ lo * b \in Nat /\ lo * c \in Nat
  BY <1>1, <1>2
<1>9. hi * a \in Nat /\ hi * b \in Nat /\ hi * c \in Nat
  BY <1>1, <1>2
<1>10. lo * (a + b + c) <= x + y + z /\ x + y + z <= hi * (a + b + c)
  BY <1>3, <1>4, <1>5, <1>7, <1>8, <1>9
<1>11. a + b + c \in Nat /\ x + y + z \in Nat
  BY <1>1, <1>3, <1>4, <1>5
<1> QED BY <1>6, <1>10, <1>11 DEF lo, hi

(* Weights that make 1, or nearly, are not all zero.                       *)
LEMMA SomethingRelied ==
    ASSUME NEW lines \in Seq(Line), ~Malformed(lines), ~OffOne(lines)
    PROVE  Relied(lines) # {}
<1> SUFFICES ASSUME Relied(lines) = {} PROVE FALSE
  OBVIOUS
<1>1. \A m \in Methods : Weight(lines, m) = 0
  BY LinesTyped, UnitsAssumption DEF Relied
<1>2. TotalWeight(lines) = 0
  BY <1>1 DEF TotalWeight, Methods
<1> QED BY <1>2, UnitsAssumption DEF OffOne

-------------------------------------------------------------------------------
(* Everything the theorems need of an accepted call.                       *)
LEMMA AcceptedFacts ==
    ASSUME NEW c \in Call, Code(c) = "accepted"
    PROVE  /\ c.lines \in Seq(Line)
           /\ ~Malformed(c.lines)
           /\ ~OffOne(c.lines)
           /\ ~Diverges(c)
           /\ Relied(c.lines) # {}
<1>1. c.lines \in Seq(Line)
  BY DEF Call
<1> QED BY <1>1, AcceptedPasses, SomethingRelied

(* The concluded value of lines that passed the check of the weights.      *)
LEMMA ConcludedSupported ==
    ASSUME NEW lines \in Seq(Line), ~Malformed(lines), ~OffOne(lines)
    PROVE  /\ Concluded(lines) \in Nat
           /\ TotalWeight(lines) = One =>
                 Lowest(lines) <= Concluded(lines)
                   /\ Concluded(lines) <= Highest(lines)
           /\ 2 * One * Concluded(lines) + One
                 >= 2 * (One - Tolerance) * Lowest(lines)
           /\ 2 * One * Concluded(lines)
                 <= 2 * (One + Tolerance) * Highest(lines) + One
<1> DEFINE lo == Lowest(lines)
           hi == Highest(lines)
           t == TotalWeight(lines)
           n == WeightedSum(lines)
           q == Concluded(lines)
<1>1. lo \in Nat /\ hi \in Nat
  BY SomethingRelied, RangeExists
<1>2. t \in Nat /\ n \in Nat /\ lo * t <= n /\ n <= hi * t
  BY SomethingRelied, SumBounds
<1>3. One - Tolerance \in Nat /\ One + Tolerance \in Nat
  BY UnitsAssumption
<1>4. One - Tolerance <= t /\ t <= One + Tolerance
  BY <1>2, <1>3, UnitsAssumption DEF OffOne
<1>5. One \in Nat \ {0}
  BY UnitsAssumption
<1>6. q \in Nat /\ 2 * One * q <= 2 * n + One /\ 2 * n < 2 * One * q + One
  BY <1>2, <1>5, RoundedBounds DEF Concluded
<1>7. ASSUME t = One PROVE lo <= q /\ q <= hi
  <2>1. lo * One <= n /\ n <= hi * One
    BY <1>2, <1>7
  <2> HIDE DEF lo, hi, n
  <2>2. lo <= Rounded(n, One) /\ Rounded(n, One) <= hi
    BY <1>1, <1>2, <1>5, <2>1, RoundedWithin
  <2> QED BY <2>2 DEF Concluded, n
<1> DEFINE below == One - Tolerance
           above == One + Tolerance
<1>8. /\ below \in Nat /\ above \in Nat
      /\ below <= t /\ t <= above
  BY <1>3, <1>4
<1> HIDE DEF lo, hi, t, n, q, below, above
<1>9. below * lo <= t * lo
  BY <1>1, <1>2, <1>8, ProductMonotone
<1>10. t * hi <= above * hi
  BY <1>1, <1>2, <1>8, ProductMonotone
<1>11. /\ t * lo = lo * t /\ t * hi = hi * t
       /\ 2 * below * lo = 2 * (below * lo)
       /\ 2 * above * hi = 2 * (above * hi)
  BY <1>1, <1>2, <1>8
<1>12. /\ lo * t \in Nat /\ hi * t \in Nat
       /\ below * lo \in Nat /\ above * hi \in Nat
       /\ 2 * One * q \in Nat
  BY <1>1, <1>2, <1>5, <1>6, <1>8
<1>13. 2 * One * q + One >= 2 * below * lo
  BY <1>2, <1>5, <1>6, <1>9, <1>11, <1>12
<1>14. 2 * One * q <= 2 * above * hi + One
  BY <1>2, <1>5, <1>6, <1>10, <1>11, <1>12
<1> QED BY <1>6, <1>7, <1>13, <1>14 DEF lo, hi, t, q, below, above

(* The limit in force is positive.                                         *)
LEMMA LimitTyped ==
    ASSUME NEW c \in Call
    PROVE  Limit(c) \in Nat
  BY LimitAssumption DEF Limit, Call

(* Lines that do not diverge lie, lowest to highest, within the limit.     *)
LEMMA SpanWithinLimit ==
    ASSUME NEW c \in Call, Code(c) = "accepted", Lowest(c.lines) > 0
    PROVE  200 * PercentScale * (Highest(c.lines) - Lowest(c.lines))
             <= (2 * Limit(c) * PercentScale + 1) * Lowest(c.lines)
<1> DEFINE lo == Lowest(c.lines)
           hi == Highest(c.lines)
           R == Relied(c.lines)
           p == PercentScale
           k == Limit(c)
<1>1. /\ c.lines \in Seq(Line) /\ ~Malformed(c.lines) /\ ~Diverges(c)
      /\ R # {}
  BY AcceptedFacts
<1>2. /\ lo \in Nat \ {0} /\ hi \in Nat
      /\ \E m \in R : lo = Indicated(c.lines, m)
      /\ \E m \in R : hi = Indicated(c.lines, m)
      /\ \A m \in R : lo <= Indicated(c.lines, m)
  BY <1>1, RangeExists
<1>3. lo <= hi
  BY <1>2
<1>4. p \in Nat \ {0} /\ k \in Nat
  BY UnitsAssumption, LimitTyped
<1>5. IsFiniteSet(R)
  <2>1. R \subseteq {"sales", "income", "cost"}
    BY DEF Relied, Methods
  <2>2. IsFiniteSet({"sales", "income", "cost"})
    <3>1. IsFiniteSet((({} \union {"sales"}) \union {"income"}) \union {"cost"})
      BY FS_EmptySet, FS_AddElement
    <3>2. {"sales", "income", "cost"}
            = (({} \union {"sales"}) \union {"income"}) \union {"cost"}
      OBVIOUS
    <3> QED BY <3>1, <3>2
  <2> QED BY <2>1, <2>2, FS_Subset
<1>6. CASE Cardinality(R) > 1
  <2> DEFINE num == 100 * p * (hi - lo)
             q == Divergence(c.lines)
  <2>1. q <= k * p
    <3>1. Comparable(c.lines)
      BY <1>6 DEF Comparable
    <3>2. q \in Nat
      <4>1. num \in Nat
        <5> HIDE DEF lo, hi, p
        <5> QED BY <1>2, <1>3, <1>4
      <4>2. q = Rounded(num, lo)
        BY DEF Divergence
      <4> HIDE DEF num, lo, q
      <4> QED BY <1>2, <4>1, <4>2, RoundedBounds
    <3>3. ~(q > k * p)
      BY <1>1, <3>1 DEF Diverges
    <3> HIDE DEF q, k, p
    <3> QED BY <1>4, <3>2, <3>3
  <2>2. q \in Nat /\ 2 * num < 2 * lo * q + lo
    <3>1. num \in Nat
      <4> HIDE DEF lo, hi, p
      <4> QED BY <1>2, <1>3, <1>4
    <3>2. q = Rounded(num, lo)
      BY DEF Divergence
    <3> HIDE DEF num, lo, q
    <3> QED BY <1>2, <3>1, <3>2, RoundedBounds
  <2> HIDE DEF q, lo, hi, k, p
  <2>3. q * lo <= (k * p) * lo
    BY <1>2, <1>4, <2>1, <2>2, ProductMonotone
  <2> DEFINE kp == k * p
  <2>4. kp \in Nat /\ q * lo <= kp * lo
    BY <1>4, <2>3
  <2>5. 2 * num < 2 * (q * lo) + lo
    BY <1>2, <2>2
  <2>6. 200 * p * (hi - lo) = 2 * num
    BY <1>2, <1>3, <1>4
  <2>7. (2 * k * p + 1) * lo = 2 * (kp * lo) + lo
    BY <1>2, <1>4
  <2>8. num \in Nat /\ q * lo \in Nat /\ kp * lo \in Nat
    <3>1. num \in Nat
      BY <1>2, <1>3, <1>4
    <3> HIDE DEF kp
    <3> QED BY <1>2, <2>2, <2>4, <3>1
  <2>9. 2 * num <= 2 * (kp * lo) + lo
    <3> HIDE DEF num, kp
    <3> QED BY <1>2, <2>4, <2>5, <2>8
  <2>10. 200 * p * (hi - lo) <= (2 * k * p + 1) * lo
    <3> HIDE DEF num, kp
    <3> QED BY <2>6, <2>7, <2>9
  <2> QED BY <2>10 DEF lo, hi, k, p
<1>7. CASE ~(Cardinality(R) > 1)
  <2>1. Cardinality(R) = 1
    BY <1>1, <1>5, <1>7, FS_CardinalityType, FS_EmptySet
  <2>2. PICK m : R = {m}
    BY <1>5, <2>1, FS_Singleton
  <2>3. hi = lo
    BY <1>2, <2>2
  <2> HIDE DEF lo, hi, k, p
  <2>4. 200 * p * (hi - lo) = 0
    BY <1>2, <1>4, <2>3
  <2>5. (2 * k * p + 1) * lo \in Nat
    BY <1>2, <1>4
  <2>6. 200 * p * (hi - lo) <= (2 * k * p + 1) * lo
    BY <2>4, <2>5
  <2> QED BY <2>6 DEF lo, hi, k, p
<1> QED BY <1>6, <1>7

-------------------------------------------------------------------------------
(* The inductive invariant: an answer is the outcome of the call it is     *)
(* the answer to.                                                          *)
Inv == call \in Call /\ (answer # None => answer = Outcome(call))

LEMMA AnswerIsOutcome == Spec => []Inv
<1>1. Init => Inv
  BY CallsAssumption DEF Init, Inv
<1>2. Inv /\ [Reconcile]_vars => Inv'
  <2> SUFFICES ASSUME Inv, [Reconcile]_vars PROVE Inv'
    OBVIOUS
  <2>1. CASE Reconcile
    BY <2>1 DEF Inv, Reconcile
  <2>2. CASE UNCHANGED vars
    BY <2>2 DEF Inv, vars
  <2> QED BY <2>1, <2>2
<1> QED BY <1>1, <1>2, PTL DEF Spec

(* An answer that accepts is what reconcile concluded.                     *)
LEMMA AcceptedAnswer ==
    ASSUME Inv, Accepted
    PROVE  Code(call) = "accepted" /\ answer = Reconciled(call)
<1>1. answer = Outcome(call) /\ answer.code = "accepted"
  BY DEF Inv, Accepted
<1>2. Code(call) = "accepted"
  BY <1>1 DEF Outcome, Refusal
<1> QED BY <1>1, <1>2 DEF Outcome

(* Every answer of reconcile is well typed: a conclusion, its span and its *)
(* divergence are natural numbers, and a refusal carries a known code.     *)
THEOREM TypeCorrect == Spec => []TypeOK
<1>1. ASSUME NEW c \in Call PROVE Outcome(c) \in Answer
  <2>1. CASE Code(c) = "accepted"
    <3>1. /\ c.lines \in Seq(Line) /\ ~Malformed(c.lines) /\ ~OffOne(c.lines)
          /\ Relied(c.lines) # {}
      BY <2>1, AcceptedFacts
    <3>2. Lowest(c.lines) \in Nat /\ Highest(c.lines) \in Nat
      BY <3>1, RangeExists
    <3>3. Concluded(c.lines) \in Nat
      BY <3>1, ConcludedSupported
    <3>4. Comparable(c.lines) => Divergence(c.lines) \in Nat
      <4> DEFINE lo == Lowest(c.lines)
                 hi == Highest(c.lines)
      <4>1. lo <= hi
        BY <3>1, <3>2, RangeExists
      <4>2. Comparable(c.lines) => lo \in Nat \ {0}
        BY <3>2 DEF Comparable
      <4>3. Divergence(c.lines) = Rounded(100 * PercentScale * (hi - lo), lo)
        BY DEF Divergence
      <4>4. PercentScale \in Nat
        BY UnitsAssumption
      <4>5. hi \in Nat /\ lo \in Nat
        BY <3>2
      <4> HIDE DEF lo, hi
      <4>6. 100 * PercentScale * (hi - lo) \in Nat
        BY <4>1, <4>4, <4>5
      <4> QED BY <4>2, <4>3, <4>6, RoundedBounds
    <3> QED BY <2>1, <3>2, <3>3, <3>4 DEF Outcome, Reconciled, Answer, Codes
  <2>2. CASE Code(c) # "accepted"
    BY <2>2 DEF Outcome, Refusal, Answer, Code, Codes
  <2> QED BY <2>1, <2>2
<1>2. Inv => TypeOK
  BY <1>1 DEF Inv, TypeOK
<1> QED BY <1>2, AnswerIsOutcome, PTL

(* The concluded value of an accepted call is supported by the approaches  *)
(* it relies on: "weights that do not sum are not weights".                *)
THEOREM ConclusionSupported == Spec => []ConclusionIsSupported
<1>1. Inv => ConclusionIsSupported
  <2> SUFFICES ASSUME Inv, Accepted PROVE ConclusionIsSupported
    BY DEF ConclusionIsSupported
  <2>1. call \in Call
    BY DEF Inv
  <2>2. Code(call) = "accepted" /\ answer = Reconciled(call)
    BY AcceptedAnswer
  <2>3. /\ call.lines \in Seq(Line) /\ ~Malformed(call.lines)
        /\ ~OffOne(call.lines)
    BY <2>1, <2>2, AcceptedFacts
  <2>4. /\ answer.value = Concluded(call.lines)
        /\ answer.low = Lowest(call.lines)
        /\ answer.high = Highest(call.lines)
    BY <2>2 DEF Reconciled
  <2>5. /\ TotalWeight(call.lines) = One =>
              answer.low <= answer.value /\ answer.value <= answer.high
        /\ 2 * One * answer.value + One >= 2 * (One - Tolerance) * answer.low
        /\ 2 * One * answer.value <= 2 * (One + Tolerance) * answer.high + One
    BY <2>3, <2>4, ConcludedSupported
  <2> QED BY <2>5 DEF ConclusionIsSupported
<1> QED BY <1>1, AnswerIsOutcome, PTL

(* No approach relied on is further from an accepted conclusion than the   *)
(* divergence limit: no conclusion is one that "neither supports".         *)
THEOREM ApproachesInAgreement == Spec => []ApproachesAgree
<1>1. Inv => ApproachesAgree
  <2> SUFFICES ASSUME Inv, Accepted, TotalWeight(call.lines) = One,
                      answer.low > 0, NEW m \in Relied(call.lines)
               PROVE  LET v == Indicated(call.lines, m)
                          bound == (2 * Limit(call) * PercentScale + 1)
                                     * answer.value
                      IN  /\ 200 * PercentScale * (v - answer.value) <= bound
                          /\ 200 * PercentScale * (answer.value - v) <= bound
    BY DEF ApproachesAgree
  <2> DEFINE v == Indicated(call.lines, m)
             lo == Lowest(call.lines)
             hi == Highest(call.lines)
             q == Concluded(call.lines)
             p == PercentScale
             k == 2 * Limit(call) * PercentScale + 1
  <2>1. call \in Call /\ Code(call) = "accepted" /\ answer = Reconciled(call)
    BY AcceptedAnswer DEF Inv
  <2>2. /\ call.lines \in Seq(Line) /\ ~Malformed(call.lines)
        /\ ~OffOne(call.lines) /\ Relied(call.lines) # {}
    BY <2>1, AcceptedFacts
  <2>3. answer.value = q /\ answer.low = lo
    BY <2>1 DEF Reconciled
  <2>4. q \in Nat /\ lo <= q /\ q <= hi
    BY <2>2, ConcludedSupported
  <2>5. lo \in Nat /\ hi \in Nat /\ lo <= v /\ v <= hi
    BY <2>2, RangeExists
  <2>6. v \in Nat
    BY <2>2, LinesTyped DEF Relied
  <2>7. 200 * p * (hi - lo) <= k * lo
    BY <2>1, <2>3, SpanWithinLimit
  <2>8. p \in Nat /\ k \in Nat
    <3>1. p \in Nat /\ Limit(call) \in Nat
      BY <2>1, UnitsAssumption, LimitTyped
    <3> QED BY <3>1
  <2> HIDE DEF v, lo, hi, q, p, k
  <2>9. k * lo <= k * q
    <3>1. lo * k <= q * k
      BY <2>4, <2>5, <2>8, ProductMonotone
    <3> QED BY <2>4, <2>5, <2>8, <3>1
  <2> DEFINE w == 200 * p
  <2>10. w \in Nat
    BY <2>8
  <2> HIDE DEF w
  <2>11. w * (v - q) <= w * (hi - lo) /\ w * (q - v) <= w * (hi - lo)
    <3>1. \A x, y \in Int : x <= y => w * x <= w * y
      BY <2>10
    <3>2. /\ v - q \in Int /\ q - v \in Int /\ hi - lo \in Int
          /\ v - q <= hi - lo /\ q - v <= hi - lo
      BY <2>4, <2>5, <2>6
    <3> QED BY <3>1, <3>2
  <2>12. /\ w * (v - q) \in Int /\ w * (q - v) \in Int
         /\ w * (hi - lo) \in Int /\ k * lo \in Int /\ k * q \in Int
    BY <2>4, <2>5, <2>6, <2>8, <2>10
  <2>13. w * (hi - lo) <= k * lo
    BY <2>7 DEF w
  <2>14. w * (v - q) <= k * q /\ w * (q - v) <= k * q
    BY <2>9, <2>11, <2>12, <2>13
  <2> QED BY <2>3, <2>14 DEF v, q, p, k, w
<1> QED BY <1>1, AnswerIsOutcome, PTL

(* An accepted report answers its mandate: income for a lender, no         *)
(* capitalised income in a forced sale, cost alone for insurable value.    *)
THEOREM MandateAnswered == Spec => []MandateIsAnswered
<1>1. Inv => MandateIsAnswered
  <2> SUFFICES ASSUME Inv, Accepted PROVE MandateIsAnswered
    BY DEF MandateIsAnswered
  <2>1. call \in Call /\ Code(call) = "accepted"
    BY AcceptedAnswer DEF Inv
  <2>2. /\ Required(call) \subseteq Relied(call.lines)
        /\ Forbidden(call) \intersect Relied(call.lines) = {}
    BY <2>1, AcceptedPasses
  <2>3. call.income /\ call.purpose \in PurposesRequiringIncome
          => "income" \in Relied(call.lines)
    BY <2>2 DEF Required, PurposeRequires
  <2>4. ForcedSale(call) => "income" \notin Relied(call.lines)
    BY <2>2 DEF Forbidden, ForcedSale
  <2>5. call.basis = "insurable" => Relied(call.lines) = {"cost"}
    <3> SUFFICES ASSUME call.basis = "insurable"
                 PROVE  Relied(call.lines) = {"cost"}
      OBVIOUS
    <3>1. "cost" \in Relied(call.lines)
      BY <2>2 DEF Required, BasisRequires
    <3>2. "sales" \notin Relied(call.lines) /\ "income" \notin Relied(call.lines)
      <4>1. ~ForcedSale(call)
        BY DEF ForcedSale
      <4>2. Forbidden(call) = {"sales", "income"}
        BY <4>1 DEF Forbidden
      <4> QED BY <2>2, <4>2
    <3>3. Relied(call.lines) \subseteq {"sales", "income", "cost"}
      BY DEF Relied, Methods
    <3> QED BY <3>1, <3>2, <3>3
  <2>6. call.basis # "insurable" /\ ~call.specialised
          => "sales" \in Relied(call.lines)
    BY <2>2 DEF Required, BasisRequires
  <2> QED BY <2>3, <2>4, <2>5, <2>6 DEF MandateIsAnswered
<1> QED BY <1>1, AnswerIsOutcome, PTL

-------------------------------------------------------------------------------
(***************************************************************************)
(* Leaving out a line of weight zero.  The lines that are left are lines   *)
(* of the call, in their order and without the one left out.               *)
(***************************************************************************)
LEMMA LinesLeft ==
    ASSUME NEW lines \in Seq(Line), NEW i \in DOMAIN lines, NEW rest,
           rest = LeavingOut(lines, i)
    PROVE  /\ rest \in Seq(Line)
           /\ \A k \in DOMAIN rest : \E p \in DOMAIN lines \ {i} : rest[k] = lines[p]
           /\ \A p \in DOMAIN lines \ {i} : \E k \in DOMAIN rest : rest[k] = lines[p]
           /\ \A k, l \in DOMAIN rest :
                 k # l => \E p, q \in DOMAIN lines :
                              p # q /\ rest[k] = lines[p] /\ rest[l] = lines[q]
<1> DEFINE n == Len(lines)
           old(k) == IF k < i THEN k ELSE k + 1
<1>1. n \in Nat \ {0} /\ DOMAIN lines = 1 .. n /\ i \in 1 .. n
  OBVIOUS
<1>2. DOMAIN rest = 1 .. n - 1 /\ n - 1 \in Nat
  BY <1>1 DEF LeavingOut
<1>3. \A k \in DOMAIN rest : rest[k] = lines[old(k)] /\ old(k) \in 1 .. n /\ old(k) # i
  BY <1>1, <1>2 DEF LeavingOut
<1>4. \A k \in 1 .. n : lines[k] \in Line
  OBVIOUS
<1>5. rest \in [1 .. n - 1 -> Line]
  <2>1. rest = [k \in 1 .. n - 1 |-> IF k < i THEN lines[k] ELSE lines[k + 1]]
    BY DEF LeavingOut
  <2>2. \A k \in 1 .. n - 1 : rest[k] \in Line
    BY <1>2, <1>3, <1>4
  <2> QED BY <2>1, <2>2
<1>6. rest \in Seq(Line)
  BY <1>2, <1>5
<1>7. \A p \in 1 .. n \ {i} : \E k \in 1 .. n - 1 : old(k) = p
  <2> SUFFICES ASSUME NEW p \in 1 .. n, p # i PROVE \E k \in 1 .. n - 1 : old(k) = p
    OBVIOUS
  <2>1. CASE p < i
    <3>1. p \in 1 .. n - 1 /\ old(p) = p
      BY <1>1, <2>1
    <3> QED BY <3>1
  <2>2. CASE p > i
    <3>1. p - 1 \in 1 .. n - 1 /\ old(p - 1) = p
      BY <1>1, <2>2
    <3> QED BY <3>1
  <2> QED BY <1>1, <2>1, <2>2
<1>8. \A k, l \in 1 .. n - 1 : k # l => old(k) # old(l)
  BY <1>1
<1>9. \A k \in DOMAIN rest : \E p \in DOMAIN lines \ {i} : rest[k] = lines[p]
  <2> HIDE DEF old
  <2> QED BY <1>1, <1>3
<1>10. \A p \in DOMAIN lines \ {i} : \E k \in DOMAIN rest : rest[k] = lines[p]
  <2> HIDE DEF old
  <2> SUFFICES ASSUME NEW p \in 1 .. n \ {i} PROVE \E k \in DOMAIN rest : rest[k] = lines[p]
    BY <1>1
  <2>1. PICK k \in 1 .. n - 1 : old(k) = p
    BY <1>7
  <2> QED BY <1>2, <1>3, <2>1
<1>11. ASSUME NEW k \in DOMAIN rest, NEW l \in DOMAIN rest, k # l
       PROVE  \E p, q \in DOMAIN lines : p # q /\ rest[k] = lines[p] /\ rest[l] = lines[q]
  <2> HIDE DEF old
  <2>1. old(k) # old(l) /\ rest[k] = lines[old(k)] /\ rest[l] = lines[old(l)]
    BY <1>2, <1>3, <1>8, <1>11
  <2>2. old(k) \in DOMAIN lines /\ old(l) \in DOMAIN lines
    BY <1>1, <1>3
  <2> QED BY <2>1, <2>2
<1> QED BY <1>6, <1>9, <1>10, <1>11

(* They give every method the weight it had, and every method relied on    *)
(* the value it had.                                                       *)
LEMMA MethodsLeft ==
    ASSUME NEW lines \in Seq(Line), ~Malformed(lines), ~Duplicated(lines),
           NEW i \in DOMAIN lines, lines[i].weight = 0,
           NEW rest, rest = LeavingOut(lines, i)
    PROVE  /\ rest \in Seq(Line)
           /\ ~Malformed(rest)
           /\ ~Duplicated(rest)
           /\ \A m \in Methods : Weight(rest, m) = Weight(lines, m)
           /\ \A m \in Methods :
                 Weight(lines, m) # 0 => Indicated(rest, m) = Indicated(lines, m)
<1>1. /\ rest \in Seq(Line)
      /\ \A k \in DOMAIN rest : \E p \in DOMAIN lines \ {i} : rest[k] = lines[p]
      /\ \A p \in DOMAIN lines \ {i} : \E k \in DOMAIN rest : rest[k] = lines[p]
      /\ \A k, l \in DOMAIN rest :
            k # l => \E p, q \in DOMAIN lines :
                         p # q /\ rest[k] = lines[p] /\ rest[l] = lines[q]
  BY LinesLeft
<1>2. ~Malformed(rest)
  BY <1>1 DEF Malformed
<1>3. ~Duplicated(rest)
  <2> SUFFICES ASSUME NEW k \in DOMAIN rest, NEW l \in DOMAIN rest, k # l,
                      rest[k].method = rest[l].method
               PROVE  FALSE
    BY DEF Duplicated
  <2>1. PICK p \in DOMAIN lines, q \in DOMAIN lines :
            p # q /\ rest[k] = lines[p] /\ rest[l] = lines[q]
    BY <1>1
  <2>2. lines[p].method = lines[q].method
    BY <2>1
  <2> QED BY <2>1, <2>2 DEF Duplicated
<1>4. ASSUME NEW m \in Methods
      PROVE  /\ Weight(rest, m) = Weight(lines, m)
             /\ Weight(lines, m) # 0 => Indicated(rest, m) = Indicated(lines, m)
  <2>1. \A p \in DOMAIN lines : lines[p].method = m => LineOf(lines, m) = lines[p]
    BY DEF LineOf, Duplicated
  <2>2. \A k \in DOMAIN rest : rest[k].method = m => LineOf(rest, m) = rest[k]
    BY <1>3 DEF LineOf, Duplicated
  <2>3. CASE \E p \in DOMAIN lines \ {i} : lines[p].method = m
    <3>1. PICK p \in DOMAIN lines \ {i} : lines[p].method = m
      BY <2>3
    <3>2. PICK k \in DOMAIN rest : rest[k] = lines[p]
      BY <1>1
    <3>3. LineOf(lines, m) = lines[p] /\ LineOf(rest, m) = lines[p]
      BY <2>1, <2>2, <3>1, <3>2
    <3>4. Written(lines, m) /\ Written(rest, m)
      BY <3>1, <3>2 DEF Written
    <3> QED BY <3>3, <3>4 DEF Weight, Indicated
  <2>4. CASE ~\E p \in DOMAIN lines \ {i} : lines[p].method = m
    <3>1. ~Written(rest, m)
      BY <1>1, <2>4 DEF Written
    <3>2. Written(lines, m) => LineOf(lines, m) = lines[i]
      BY <2>1, <2>4 DEF Written
    <3> QED BY <3>1, <3>2 DEF Weight
  <2> QED BY <2>3, <2>4
<1> QED BY <1>1, <1>2, <1>3, <1>4

(* So they pass the checks the lines passed and conclude what they did.    *)
LEMMA SameWithoutTheLine ==
    ASSUME NEW lines \in Seq(Line), ~Malformed(lines), ~Duplicated(lines), ~OffOne(lines),
           NEW i \in DOMAIN lines, lines[i].weight = 0,
           NEW rest, rest = LeavingOut(lines, i)
    PROVE  /\ ~Malformed(rest) /\ rest # << >> /\ ~Duplicated(rest) /\ ~OffOne(rest)
           /\ Relied(rest) = Relied(lines)
           /\ Lowest(rest) = Lowest(lines)
           /\ Highest(rest) = Highest(lines)
           /\ WeightedSum(rest) = WeightedSum(lines)
<1>1. /\ rest \in Seq(Line) /\ ~Malformed(rest) /\ ~Duplicated(rest)
      /\ \A m \in Methods : Weight(rest, m) = Weight(lines, m)
      /\ \A m \in Methods : Weight(lines, m) # 0 => Indicated(rest, m) = Indicated(lines, m)
  BY MethodsLeft
<1>2. Relied(rest) = Relied(lines)
  BY <1>1 DEF Relied
<1>3. TotalWeight(rest) = TotalWeight(lines)
  BY <1>1 DEF TotalWeight, Methods
<1>4. ~OffOne(rest)
  BY <1>3 DEF OffOne
<1>5. Relied(lines) # {}
  BY SomethingRelied
<1>6. \A m \in Relied(lines) : m \in Methods /\ Indicated(rest, m) = Indicated(lines, m)
  BY <1>1 DEF Relied
<1>7. /\ Lowest(lines) \in Nat
      /\ \E m \in Relied(lines) : Lowest(lines) = Indicated(lines, m)
      /\ \A m \in Relied(lines) : Lowest(lines) <= Indicated(lines, m)
      /\ Highest(lines) \in Nat
      /\ \E m \in Relied(lines) : Highest(lines) = Indicated(lines, m)
      /\ \A m \in Relied(lines) : Indicated(lines, m) <= Highest(lines)
  BY <1>5, RangeExists
<1>8. /\ Lowest(rest) \in Nat
      /\ \E m \in Relied(rest) : Lowest(rest) = Indicated(rest, m)
      /\ \A m \in Relied(rest) : Lowest(rest) <= Indicated(rest, m)
      /\ Highest(rest) \in Nat
      /\ \E m \in Relied(rest) : Highest(rest) = Indicated(rest, m)
      /\ \A m \in Relied(rest) : Indicated(rest, m) <= Highest(rest)
  BY <1>1, <1>2, <1>5, RangeExists
<1>9. Lowest(rest) <= Lowest(lines) /\ Lowest(lines) <= Lowest(rest)
  BY <1>2, <1>6, <1>7, <1>8
<1>10. Highest(rest) <= Highest(lines) /\ Highest(lines) <= Highest(rest)
  BY <1>2, <1>6, <1>7, <1>8
<1>11. \A m \in Methods : Share(rest, m) = Share(lines, m)
  <2> SUFFICES ASSUME NEW m \in Methods PROVE Share(rest, m) = Share(lines, m)
    OBVIOUS
  <2>1. Indicated(rest, m) \in Nat /\ Indicated(lines, m) \in Nat
    BY <1>1, LinesTyped
  <2>2. CASE Weight(lines, m) = 0
    BY <1>1, <2>1, <2>2 DEF Share
  <2>3. CASE Weight(lines, m) # 0
    BY <1>1, <2>3 DEF Share
  <2> QED BY <2>2, <2>3
<1>12. WeightedSum(rest) = WeightedSum(lines)
  BY <1>11 DEF WeightedSum, Methods
<1>13. rest # << >>
  <2>1. PICK m \in Methods : Weight(rest, m) > 0
    BY <1>2, <1>5 DEF Relied
  <2>2. Written(rest, m)
    BY <2>1 DEF Weight
  <2> QED BY <2>2 DEF Written
<1> QED BY <1>1, <1>2, <1>4, <1>7, <1>8, <1>9, <1>10, <1>12, <1>13

(* An approach shown with weight zero is not relied upon: an accepted call *)
(* is answered as it is without that line.                                 *)
THEOREM ShownNotRelied == Spec => []ShownIsNotRelied
<1>1. Inv => ShownIsNotRelied
  <2> SUFFICES ASSUME Inv, Accepted, NEW i \in DOMAIN call.lines, call.lines[i].weight = 0
               PROVE  answer = Outcome([call EXCEPT !.lines = LeavingOut(@, i)])
    BY DEF ShownIsNotRelied
  <2> DEFINE rest == LeavingOut(call.lines, i)
             left == [call EXCEPT !.lines = LeavingOut(@, i)]
  <2>1. call \in Call /\ Code(call) = "accepted" /\ answer = Reconciled(call)
    BY AcceptedAnswer DEF Inv
  <2>2. /\ call.lines \in Seq(Line) /\ ~Malformed(call.lines) /\ ~OffOne(call.lines)
        /\ ~Diverges(call) /\ Required(call) \subseteq Relied(call.lines)
        /\ Forbidden(call) \intersect Relied(call.lines) = {}
    BY <2>1, AcceptedFacts, AcceptedPasses
  <2>3. ~Duplicated(call.lines)
    BY <2>1 DEF Code
  <2>4. /\ ~Malformed(rest) /\ rest # << >> /\ ~Duplicated(rest) /\ ~OffOne(rest)
        /\ Relied(rest) = Relied(call.lines)
        /\ Lowest(rest) = Lowest(call.lines)
        /\ Highest(rest) = Highest(call.lines)
        /\ WeightedSum(rest) = WeightedSum(call.lines)
    BY <2>2, <2>3, SameWithoutTheLine
  <2>5. /\ left.lines = rest /\ left.basis = call.basis /\ left.income = call.income
        /\ left.specialised = call.specialised /\ left.purpose = call.purpose
        /\ left.limit = call.limit
    BY <2>1 DEF Call
  <2> HIDE DEF rest, left
  <2>6. ForcedSale(left) = ForcedSale(call)
    BY <2>5 DEF ForcedSale
  <2>7. Required(left) = Required(call)
    BY <2>5, <2>6 DEF Required, BasisRequires, PurposeRequires
  <2>8. Forbidden(left) = Forbidden(call)
    BY <2>5, <2>6 DEF Forbidden
  <2>9. Limit(left) = Limit(call)
    BY <2>5 DEF Limit
  <2>10. Comparable(rest) = Comparable(call.lines) /\ Divergence(rest) = Divergence(call.lines)
    BY <2>4 DEF Comparable, Divergence
  <2>11. ~Diverges(left)
    BY <2>2, <2>5, <2>9, <2>10 DEF Diverges
  <2>12. Code(left) = "accepted"
    BY <2>2, <2>4, <2>5, <2>7, <2>8, <2>11 DEF Code
  <2>13. Concluded(rest) = Concluded(call.lines)
    BY <2>4 DEF Concluded
  <2>14. Reconciled(left) = Reconciled(call)
    BY <2>4, <2>5, <2>10, <2>13 DEF Reconciled
  <2> QED BY <2>1, <2>12, <2>14 DEF Outcome, left
<1> QED BY <1>1, AnswerIsOutcome, PTL

-------------------------------------------------------------------------------
(***************************************************************************)
(* Sorting.  Of finitely many numbers one is the least, and one the        *)
(* greatest; and every place in their order is somebody's.                 *)
(***************************************************************************)
(* How many of a sequence are below its i-th, and how many up to it.       *)
Under(s, key, i) == {j \in DOMAIN s : key[j] < key[i]}
Upto(s, key, i) == {j \in DOMAIN s : key[j] <= key[i]}
Places(s, key, i, k) ==
    i \in DOMAIN s /\ Cardinality(Under(s, key, i)) < k /\ k <= Cardinality(Upto(s, key, i))
Keyed(s, key) ==
    /\ Len(s) \in Nat /\ DOMAIN s = 1 .. Len(s)
    /\ \A i \in DOMAIN s : key[i] \in Int

LEMMA DomainIsFinite ==
    ASSUME NEW s, NEW key, Keyed(s, key)
    PROVE  IsFiniteSet(DOMAIN s) /\ Cardinality(DOMAIN s) = Len(s)
  BY FS_Interval DEF Keyed

(* Somebody takes each place: the one with fewest up to it that are enough.*)
LEMMA EveryPlaceIsTaken ==
    ASSUME NEW s, NEW key, Keyed(s, key), NEW k \in DOMAIN s
    PROVE  \E i : Places(s, key, i, k)
<1> DEFINE D == DOMAIN s
           T == {i \in D : k <= Cardinality(Upto(s, key, i))}
<1>1. IsFiniteSet(D) /\ Cardinality(D) = Len(s) /\ k \in 1 .. Len(s) /\ Len(s) \in Nat
      /\ D = 1 .. Len(s) /\ \A i \in D : key[i] \in Int
  BY DomainIsFinite DEF Keyed
<1>2. T # {}
  <2>1. PICK top \in D : \A b \in D : key[b] <= key[top]
    <3>1. D # {}
      OBVIOUS
    <3> HIDE DEF D
    <3> QED BY <1>1, <3>1, GreatestOf
  <2>2. Upto(s, key, top) = D
    BY <2>1 DEF Upto
  <2> QED BY <1>1, <2>1, <2>2
<1>3. IsFiniteSet(T) /\ \A i \in T : key[i] \in Int
  BY <1>1, FS_Subset
<1>4. PICK i \in T : \A j \in T : key[i] <= key[j]
  <2> HIDE DEF T
  <2> QED BY <1>2, <1>3, LeastOf
<1>5. Cardinality(Under(s, key, i)) < k
  <2> DEFINE U == Under(s, key, i)
  <2>1. U \in SUBSET D /\ IsFiniteSet(U) /\ \A j \in U : key[j] \in Int
    BY <1>1, FS_Subset DEF Under
  <2>2. CASE U = {}
    BY <1>1, <2>2, FS_EmptySet
  <2>3. CASE U # {}
    <3>1. PICK u \in U : \A j \in U : key[j] <= key[u]
      <4> HIDE DEF U
      <4> QED BY <2>1, <2>3, GreatestOf
    <3>2. key[u] < key[i] /\ u \in D
      BY <2>1 DEF Under
    <3>3. U \in SUBSET Upto(s, key, u)
      BY <2>1, <3>1 DEF Upto
    <3>4. u \notin T
      BY <1>1, <1>4, <3>2
    <3>5. IsFiniteSet(Upto(s, key, u))
      BY <1>1, FS_Subset DEF Upto
    <3> DEFINE a == Cardinality(U)
               b == Cardinality(Upto(s, key, u))
    <3>6. a \in Nat /\ b \in Nat /\ a <= b
      BY <2>1, <3>3, <3>5, FS_Subset, FS_CardinalityType
    <3>7. ~(k <= b)
      BY <3>2, <3>4
    <3> HIDE DEF a, b
    <3>8. a < k
      BY <1>1, <3>6, <3>7
    <3> QED BY <3>8 DEF a
  <2> QED BY <2>2, <2>3
<1> QED BY <1>4, <1>5 DEF Places

(* What is at a place of the order.                                        *)
LEMMA PlaceOf ==
    ASSUME NEW s, NEW key, Keyed(s, key)
    PROVE  /\ DOMAIN InOrder(s, key) = DOMAIN s
           /\ \A k \in DOMAIN s : \E i : Places(s, key, i, k) /\ InOrder(s, key)[k] = s[i]
<1>1. DOMAIN InOrder(s, key) = DOMAIN s
  BY DEF InOrder
<1>2. ASSUME NEW k \in DOMAIN s
      PROVE  \E i : Places(s, key, i, k) /\ InOrder(s, key)[k] = s[i]
  <2> DEFINE P(i) == /\ Cardinality({j \in DOMAIN s : key[j] < key[i]}) < k
                     /\ k <= Cardinality({j \in DOMAIN s : key[j] <= key[i]})
             c == CHOOSE i \in DOMAIN s : P(i)
  <2>1. \A i : Places(s, key, i, k) <=> i \in DOMAIN s /\ P(i)
    BY DEF Places, Under, Upto
  <2>2. InOrder(s, key)[k] = s[c]
    BY DEF InOrder
  <2>3. \E i \in DOMAIN s : P(i)
    BY <1>2, <2>1, EveryPlaceIsTaken
  <2> HIDE DEF P
  <2>4. c \in DOMAIN s /\ P(c)
    BY <2>3
  <2> HIDE DEF c
  <2> QED BY <2>1, <2>2, <2>4
<1> QED BY <1>1, <1>2

-------------------------------------------------------------------------------
(***************************************************************************)
(* Rates.  Their extremes, their mean and their median.                    *)
(***************************************************************************)
Between(r, lo, hi) == \A i \in DOMAIN r : lo <= r[i] /\ r[i] <= hi

(* A list of rates is in the order of the rates themselves.                *)
LEMMA RatesAreKeyed ==
    ASSUME NEW r \in Seq(Nat)
    PROVE  /\ Keyed(r, r) /\ DOMAIN r = 1 .. Len(r) /\ Len(r) \in Nat
           /\ \A i \in DOMAIN r : r[i] \in Nat /\ r[i] \in Int
           /\ IsFiniteSet(DOMAIN r) /\ Cardinality(DOMAIN r) = Len(r)
           /\ r # << >> => Len(r) > 0 /\ DOMAIN r # {}
<1>1. DOMAIN r = 1 .. Len(r) /\ Len(r) \in Nat /\ \A i \in DOMAIN r : r[i] \in Nat /\ r[i] \in Int
  OBVIOUS
<1>2. Keyed(r, r)
  BY <1>1 DEF Keyed
<1>3. r # << >> => Len(r) > 0 /\ DOMAIN r # {}
  BY <1>1
<1> QED BY <1>1, <1>2, <1>3, DomainIsFinite

(* The lowest and the highest of a list are its own, and bound it.         *)
LEMMA Extremes ==
    ASSUME NEW r \in Seq(Nat), r # << >>
    PROVE  /\ LowestRate(r) \in Nat /\ HighestRate(r) \in Nat
           /\ \E i \in DOMAIN r : r[i] = LowestRate(r)
           /\ \E i \in DOMAIN r : r[i] = HighestRate(r)
           /\ Between(r, LowestRate(r), HighestRate(r))
<1> DEFINE D == DOMAIN r
           IsLow(v) == \A u \in Range(r) : v <= u
           IsHigh(v) == \A u \in Range(r) : v >= u
           low == CHOOSE v \in Range(r) : IsLow(v)
           high == CHOOSE v \in Range(r) : IsHigh(v)
<1>1. IsFiniteSet(D) /\ D # {} /\ \A i \in D : r[i] \in Int
  BY RatesAreKeyed
<1>2. PICK a \in D : \A b \in D : r[a] <= r[b]
  <2> HIDE DEF D
  <2> QED BY <1>1, LeastOf
<1>3. PICK z \in D : \A b \in D : r[b] <= r[z]
  <2> HIDE DEF D
  <2> QED BY <1>1, GreatestOf
<1>4. Range(r) = {r[i] : i \in D}
  BY DEF Range
<1>5. r[a] \in Range(r) /\ IsLow(r[a]) /\ r[z] \in Range(r) /\ IsHigh(r[z])
  BY <1>1, <1>2, <1>3, <1>4
<1>6. low \in Range(r) /\ IsLow(low) /\ high \in Range(r) /\ IsHigh(high)
  <2> HIDE DEF IsLow, IsHigh
  <2> QED BY <1>5
<1>7. LowestRate(r) = low /\ HighestRate(r) = high
  BY DEF LowestRate, HighestRate
<1> HIDE DEF low, high
<1>8. \A i \in D : low <= r[i] /\ r[i] <= high
  <2>1. low \in Int /\ high \in Int
    BY <1>1, <1>4, <1>6
  <2> QED BY <1>1, <1>4, <1>6, <2>1
<1>9. /\ \E i \in D : r[i] = low
      /\ \E i \in D : r[i] = high
  BY <1>4, <1>6
<1>10. low \in Nat /\ high \in Nat
  BY <1>9, RatesAreKeyed
<1> QED BY <1>7, <1>8, <1>9, <1>10 DEF Between

(* A mean, rounded, lies between what its terms lie between.               *)
LEMMA SumIsBetween ==
    ASSUME NEW S, IsFiniteSet(S), NEW f, NEW lo \in Nat, NEW hi \in Nat,
           \A x \in S : f[x] \in Nat /\ lo <= f[x] /\ f[x] <= hi
    PROVE  /\ SumFunctionOnSet(f, S) \in Nat /\ Cardinality(S) \in Nat
           /\ lo * Cardinality(S) <= SumFunctionOnSet(f, S)
           /\ SumFunctionOnSet(f, S) <= hi * Cardinality(S)
<1> DEFINE low == [x \in S |-> lo]
           high == [x \in S |-> hi]
<1>1. lo \in Int /\ hi \in Int
  OBVIOUS
<1>2. \A x \in S : /\ low[x] = lo /\ high[x] = hi /\ f[x] \in Nat
                   /\ low[x] \in Int /\ high[x] \in Int /\ f[x] \in Int
                   /\ low[x] <= f[x] /\ f[x] <= high[x]
  OBVIOUS
<1> HIDE DEF low, high
<1>3. SumFunctionOnSet(low, S) = lo * Cardinality(S)
  BY <1>1, <1>2, SumConstant
<1>4. SumFunctionOnSet(high, S) = hi * Cardinality(S)
  BY <1>1, <1>2, SumConstant
<1>5. SumFunctionOnSet(low, S) <= SumFunctionOnSet(f, S)
  BY <1>2, SumMonotone
<1>6. SumFunctionOnSet(f, S) <= SumFunctionOnSet(high, S)
  BY <1>2, SumMonotone
<1>7. SumFunctionOnSet(f, S) \in Nat
  BY <1>2, SumNat
<1> QED BY <1>3, <1>4, <1>5, <1>6, <1>7, FS_CardinalityType

(* A mean of rates is between any bounds of theirs.                        *)
LEMMA MeanIsBetween ==
    ASSUME NEW r \in Seq(Nat), r # << >>, NEW lo \in Nat, NEW hi \in Nat, Between(r, lo, hi)
    PROVE  /\ SumFunction(r) \in Nat
           /\ lo * Len(r) <= SumFunction(r) /\ SumFunction(r) <= hi * Len(r)
           /\ MeanRate(r) \in Nat /\ lo <= MeanRate(r) /\ MeanRate(r) <= hi
<1> DEFINE D == DOMAIN r
           n == Len(r)
           sum == SumFunction(r)
<1>1. IsFiniteSet(D) /\ Cardinality(D) = n /\ n \in Nat \ {0}
  BY RatesAreKeyed
<1>2. \A i \in D : r[i] \in Nat /\ lo <= r[i] /\ r[i] <= hi
  BY RatesAreKeyed DEF Between
<1>3. sum = SumFunctionOnSet(r, D)
  BY DEF SumFunction
<1>4. sum \in Nat /\ lo * n <= sum /\ sum <= hi * n
  <2> HIDE DEF D, n, sum
  <2>1. /\ SumFunctionOnSet(r, D) \in Nat /\ lo * Cardinality(D) <= SumFunctionOnSet(r, D)
        /\ SumFunctionOnSet(r, D) <= hi * Cardinality(D)
    BY <1>1, <1>2, SumIsBetween
  <2> QED BY <1>1, <1>3, <2>1
<1>5. MeanRate(r) = Rounded(sum, n)
  BY DEF MeanRate
<1> HIDE DEF sum, n
<1>6. Rounded(sum, n) \in Nat /\ lo <= Rounded(sum, n) /\ Rounded(sum, n) <= hi
  BY <1>1, <1>4, RoundedWithin, RoundedBounds
<1> QED BY <1>4, <1>5, <1>6 DEF sum, n

(* Sorted rates are the rates, in their order; all but the first are above *)
(* one of any but one of them, all but the last below one.                 *)
LEMMA SortedIsRates ==
    ASSUME NEW r \in Seq(Nat)
    PROVE  /\ Sorted(r) \in Seq(Nat) /\ Len(Sorted(r)) = Len(r)
           /\ \A k \in DOMAIN r : \E i : Places(r, r, i, k) /\ Sorted(r)[k] = r[i]
<1>1. /\ DOMAIN Sorted(r) = DOMAIN r
      /\ \A k \in DOMAIN r : \E i : Places(r, r, i, k) /\ Sorted(r)[k] = r[i]
  BY RatesAreKeyed, PlaceOf DEF Sorted
<1>2. \A k \in DOMAIN r : Sorted(r)[k] \in Nat
  BY <1>1, RatesAreKeyed DEF Places
<1>3. Sorted(r) = [k \in 1 .. Len(r) |-> Sorted(r)[k]]
  BY <1>1, RatesAreKeyed DEF Sorted, InOrder
<1> DEFINE s == Sorted(r)
<1> HIDE DEF s
<1>4. s \in [1 .. Len(r) -> Nat]
  BY <1>2, <1>3, RatesAreKeyed DEF s
<1>5. s \in Seq(Nat) /\ Len(s) = Len(r)
  BY <1>4, RatesAreKeyed
<1> QED BY <1>1, <1>5 DEF s

(* What is further in a sorted list is no less.                            *)
LEMMA SortedGrows ==
    ASSUME NEW r \in Seq(Nat), NEW k \in DOMAIN r, NEW m \in DOMAIN r, k <= m
    PROVE  Sorted(r)[k] <= Sorted(r)[m]
<1>1. PICK i : Places(r, r, i, k) /\ Sorted(r)[k] = r[i]
  BY SortedIsRates
<1>2. PICK j : Places(r, r, j, m) /\ Sorted(r)[m] = r[j]
  BY SortedIsRates
<1>3. i \in DOMAIN r /\ j \in DOMAIN r /\ r[i] \in Nat /\ r[j] \in Nat
  BY <1>1, <1>2, RatesAreKeyed DEF Places
<1> SUFFICES ASSUME r[j] < r[i] PROVE FALSE
  BY <1>1, <1>2, <1>3
<1>4. Upto(r, r, j) \in SUBSET Under(r, r, i) /\ Under(r, r, i) \in SUBSET DOMAIN r
  BY <1>3, RatesAreKeyed DEF Upto, Under
<1>5. IsFiniteSet(Under(r, r, i)) /\ IsFiniteSet(Upto(r, r, j))
  BY <1>4, RatesAreKeyed, FS_Subset
<1> DEFINE a == Cardinality(Upto(r, r, j))
           b == Cardinality(Under(r, r, i))
<1>6. a \in Nat /\ b \in Nat /\ a <= b
  BY <1>4, <1>5, FS_Subset, FS_CardinalityType
<1>7. m <= a /\ b < k /\ k \in Nat /\ m \in Nat
  BY <1>1, <1>2, RatesAreKeyed DEF Places
<1> HIDE DEF a, b
<1> QED BY <1>6, <1>7

(* Of two or more, one is not the one left out.                            *)
LEMMA AnotherOne ==
    ASSUME NEW S, IsFiniteSet(S), Cardinality(S) >= 2
    PROVE  \A k : \E j \in S : j # k
<1> SUFFICES ASSUME NEW k, \A j \in S : j = k PROVE FALSE
  OBVIOUS
<1>1. S \in SUBSET {k} /\ IsFiniteSet({k}) /\ Cardinality({k}) = 1
  BY FS_Singleton
<1>2. Cardinality(S) <= Cardinality({k}) /\ Cardinality(S) \in Nat
  BY <1>1, FS_Subset, FS_CardinalityType
<1> QED BY <1>1, <1>2

(* From the second place on, someone else is at most as high.              *)
LEMMA AnotherBelow ==
    ASSUME NEW r \in Seq(Nat), NEW m \in DOMAIN r, m >= 2, NEW k
    PROVE  \E j \in DOMAIN r \ {k} : r[j] <= Sorted(r)[m]
<1>1. PICK i : Places(r, r, i, m) /\ Sorted(r)[m] = r[i]
  BY SortedIsRates
<1> DEFINE S == Upto(r, r, i)
<1>2. S \in SUBSET DOMAIN r /\ IsFiniteSet(S) /\ Cardinality(S) \in Nat
  BY RatesAreKeyed, FS_Subset, FS_CardinalityType DEF Upto
<1>3. Cardinality(S) >= 2
  <2>1. m <= Cardinality(S) /\ m \in Nat
    BY <1>1, RatesAreKeyed DEF Places
  <2> QED BY <1>2, <2>1
<1>4. PICK j \in S : j # k
  <2>1. IsFiniteSet(S)
    BY <1>2
  <2> HIDE DEF S
  <2> QED BY <1>3, <2>1, AnotherOne
<1> QED BY <1>1, <1>2, <1>4 DEF Upto

(* Up to the last place but one, someone else is at least as high.         *)
LEMMA AnotherAbove ==
    ASSUME NEW r \in Seq(Nat), NEW m \in DOMAIN r, m < Len(r), NEW k
    PROVE  \E j \in DOMAIN r \ {k} : Sorted(r)[m] <= r[j]
<1>1. PICK i : Places(r, r, i, m) /\ Sorted(r)[m] = r[i]
  BY SortedIsRates
<1> DEFINE U == Under(r, r, i)
           S == DOMAIN r \ U
<1>2. /\ U \in SUBSET DOMAIN r /\ IsFiniteSet(U) /\ Cardinality(U) \in Nat
      /\ IsFiniteSet(S) /\ Cardinality(S) \in Nat
      /\ U \cap S = {} /\ U \cup S = DOMAIN r
  BY RatesAreKeyed, FS_Subset, FS_CardinalityType DEF Under
<1>3. Cardinality(DOMAIN r) = Cardinality(U) + Cardinality(S)
  <2> HIDE DEF U, S
  <2>1. Cardinality(U \cap S) = 0
    BY <1>2, FS_EmptySet
  <2>2. Cardinality(U \cup S) = Cardinality(U) + Cardinality(S) - 0
    BY <1>2, <2>1, FS_Union
  <2> QED BY <1>2, <2>2
<1>4. Cardinality(S) >= 2
  <2>1. Cardinality(U) < m /\ m \in Nat
    BY <1>1, RatesAreKeyed DEF Places
  <2>2. Cardinality(DOMAIN r) = Len(r) /\ Len(r) \in Nat
    BY RatesAreKeyed
  <2> HIDE DEF U, S
  <2> QED BY <1>2, <1>3, <2>1, <2>2
<1>5. PICK j \in S : j # k
  <2>1. IsFiniteSet(S) /\ Cardinality(S) >= 2
    BY <1>2, <1>4
  <2> HIDE DEF U, S
  <2>2. \A x : \E j \in S : j # x
    BY <2>1, AnotherOne
  <2> QED BY <2>2
<1>6. j \in DOMAIN r /\ i \in DOMAIN r /\ r[j] \in Nat /\ r[i] \in Nat /\ ~(r[j] < r[i])
  BY <1>1, RatesAreKeyed DEF Under, Places
<1> QED BY <1>1, <1>5, <1>6

(* Sorting keeps bounds.                                                   *)
LEMMA SortedIsBetween ==
    ASSUME NEW r \in Seq(Nat), NEW lo \in Nat, NEW hi \in Nat, Between(r, lo, hi)
    PROVE  \A k \in DOMAIN r : lo <= Sorted(r)[k] /\ Sorted(r)[k] <= hi
  BY SortedIsRates DEF Between, Places

(* The middle of a sequence.                                               *)
LEMMA Middle ==
    ASSUME NEW n \in Nat \ {0}
    PROVE  /\ n \div 2 \in Nat
           /\ n % 2 = 1 => n = 2 * (n \div 2) + 1
           /\ n % 2 # 1 => n = 2 * (n \div 2) /\ n \div 2 >= 1
           /\ (n \div 2) + 1 \in 1 .. n
  OBVIOUS

(* A median is between any of the rates and their neighbours: the middle   *)
(* one, or between the two in the middle.                                  *)
LEMMA MedianIsMiddle ==
    ASSUME NEW r \in Seq(Nat), r # << >>
    PROVE  /\ MedianRate(r) \in Nat
           /\ \E a, b \in DOMAIN r :
                /\ Sorted(r)[a] <= MedianRate(r) /\ MedianRate(r) <= Sorted(r)[b]
                /\ Len(r) >= 3 => a >= 2 /\ b < Len(r)
<1> DEFINE n == Len(r)
           mid == n \div 2
           s == Sorted(r)
<1>1. /\ n \in Nat \ {0} /\ DOMAIN r = 1 .. n
      /\ \A k \in DOMAIN r : s[k] \in Nat
  BY RatesAreKeyed, SortedIsRates
<1>2. /\ MedianRate(r) = IF n % 2 = 1 THEN s[mid + 1] ELSE Rounded(s[mid] + s[mid + 1], 2)
  BY DEF MedianRate
<1>3. /\ mid \in Nat /\ mid + 1 \in 1 .. n
      /\ n % 2 = 1 => n = 2 * mid + 1
      /\ n % 2 # 1 => n = 2 * mid /\ mid >= 1
  <2> HIDE DEF n
  <2> QED BY <1>1, Middle
<1>4. CASE n % 2 = 1
  <2>1. MedianRate(r) = s[mid + 1] /\ s[mid + 1] \in Nat
    BY <1>1, <1>2, <1>3, <1>4
  <2>2. n >= 3 => mid + 1 >= 2 /\ mid + 1 < n
    <3> HIDE DEF mid, n
    <3> QED BY <1>1, <1>3, <1>4
  <2> HIDE DEF mid, s
  <2>3. s[mid + 1] <= MedianRate(r) /\ MedianRate(r) <= s[mid + 1]
    BY <2>1
  <2> QED BY <1>1, <1>3, <2>1, <2>2, <2>3 DEF s
<1>5. CASE n % 2 # 1
  <2> DEFINE p == s[mid]
             q == s[mid + 1]
             two == 2
  <2>1. mid \in DOMAIN r /\ mid + 1 \in DOMAIN r
    <3> HIDE DEF mid, n
    <3> QED BY <1>1, <1>3, <1>5
  <2>2. p <= q /\ p \in Nat /\ q \in Nat
    <3>1. mid <= mid + 1
      BY <1>3
    <3> HIDE DEF mid
    <3> QED BY <1>1, <2>1, <3>1, SortedGrows DEF s
  <2>3. MedianRate(r) = Rounded(p + q, two)
    BY <1>2, <1>5
  <2>4. n >= 3 => mid >= 2 /\ mid + 1 < n
    <3> HIDE DEF mid, n
    <3> QED BY <1>1, <1>3, <1>5
  <2>5. two \in Nat \ {0} /\ p + q \in Nat /\ p * two <= p + q /\ p + q <= q * two
    BY <2>2
  <2> HIDE DEF p, q, two, mid, s
  <2>6. Rounded(p + q, two) \in Nat /\ p <= Rounded(p + q, two) /\ Rounded(p + q, two) <= q
    BY <2>2, <2>5, RoundedWithin, RoundedBounds
  <2> QED BY <2>1, <2>3, <2>4, <2>6 DEF p, q, s
<1> QED BY <1>4, <1>5

(* So does the median.                                                     *)
LEMMA MedianIsBetween ==
    ASSUME NEW r \in Seq(Nat), r # << >>, NEW lo \in Nat, NEW hi \in Nat, Between(r, lo, hi)
    PROVE  MedianRate(r) \in Nat /\ lo <= MedianRate(r) /\ MedianRate(r) <= hi
<1>1. PICK a, b \in DOMAIN r :
        Sorted(r)[a] <= MedianRate(r) /\ MedianRate(r) <= Sorted(r)[b]
  BY MedianIsMiddle
<1>2. MedianRate(r) \in Nat
  BY MedianIsMiddle
<1>3. /\ lo <= Sorted(r)[a] /\ Sorted(r)[b] <= hi
      /\ Sorted(r)[a] \in Nat /\ Sorted(r)[b] \in Nat
  BY SortedIsBetween, SortedIsRates, RatesAreKeyed
<1> QED BY <1>1, <1>2, <1>3

(* The trimmed rates lie from the second of the order to the last but one. *)
LEMMA TrimmedIsInner ==
    ASSUME NEW r \in Seq(Nat), Len(r) >= 5
    PROVE  /\ MeanRate(Trimmed(r)) \in Nat
           /\ Sorted(r)[2] <= MeanRate(Trimmed(r))
           /\ MeanRate(Trimmed(r)) <= Sorted(r)[Len(r) - 1]
<1> DEFINE n == Len(r)
           s == Sorted(r)
           tenth == n \div 10
           trim == IF tenth > 1 THEN tenth ELSE 1
           t == SubSeq(s, trim + 1, n - trim)
           lo == s[2]
           hi == s[n - 1]
<1>1. n \in Nat /\ n >= 5 /\ DOMAIN r = 1 .. n
  BY RatesAreKeyed
<1>2. trim \in Nat /\ trim >= 1 /\ trim + 1 <= n - trim /\ n - trim <= n - 1
  <2>1. tenth \in Nat /\ 10 * tenth <= n
    <3> HIDE DEF n
    <3> QED BY <1>1
  <2> HIDE DEF n, tenth
  <2> QED BY <1>1, <2>1
<1>3. Trimmed(r) = t
  <2>1. Trimmed(r) = IF n > 4 THEN t ELSE s
    BY DEF Trimmed
  <2> HIDE DEF t, s, n
  <2> QED BY <1>1, <2>1
<1>4. s \in Seq(Nat) /\ Len(s) = n /\ \A k \in 1 .. n : s[k] \in Nat
  <2>1. s \in Seq(Nat) /\ Len(s) = n
    BY SortedIsRates
  <2> HIDE DEF s, n
  <2> QED BY <2>1
<1>5. lo \in Nat /\ hi \in Nat
  <2> HIDE DEF s, n
  <2> QED BY <1>1, <1>4
<1>6. \A k \in trim + 1 .. n - trim : k \in 1 .. n /\ lo <= s[k] /\ s[k] <= hi
  <2> TAKE k \in trim + 1 .. n - trim
  <2>1. 2 \in DOMAIN r /\ k \in DOMAIN r /\ n - 1 \in DOMAIN r /\ 2 <= k /\ k <= n - 1
    <3> HIDE DEF n, trim
    <3> QED BY <1>1, <1>2
  <2> DEFINE two == 2
             last == n - 1
  <2>2. two \in DOMAIN r /\ k \in DOMAIN r /\ last \in DOMAIN r /\ two <= k /\ k <= last
    BY <2>1
  <2> HIDE DEF n, trim, two, last
  <2>3. Sorted(r)[two] <= Sorted(r)[k] /\ Sorted(r)[k] <= Sorted(r)[last]
    BY <2>2, SortedGrows
  <2> QED BY <1>1, <2>2, <2>3 DEF two, last
<1> HIDE DEF trim, s, n, lo, hi
<1>7. /\ t = [i \in 1 .. (n - trim) - (trim + 1) + 1 |-> s[i + (trim + 1) - 1]]
      /\ Len(t) = (n - trim) - (trim + 1) + 1
  BY <1>1, <1>2, <1>4
<1>8. t \in Seq(Nat) /\ t # << >> /\ Between(t, lo, hi)
  <2> DEFINE m == (n - trim) - (trim + 1) + 1
  <2>1. m \in Nat /\ m >= 1
    BY <1>1, <1>2
  <2>2. \A i \in 1 .. m : i + (trim + 1) - 1 \in trim + 1 .. n - trim
    BY <1>1, <1>2
  <2>3. DOMAIN t = 1 .. m /\ \A i \in 1 .. m : t[i] = s[i + (trim + 1) - 1]
    BY <1>7
  <2> HIDE DEF m, t
  <2>4. \A i \in 1 .. m : t[i] \in Nat /\ lo <= t[i] /\ t[i] <= hi
    BY <1>4, <1>6, <2>2, <2>3
  <2>5. t \in [1 .. m -> Nat]
    BY <1>7, <2>3, <2>4 DEF t, m
  <2>6. t \in Seq(Nat) /\ Len(t) = m
    BY <2>1, <2>5
  <2> QED BY <2>1, <2>3, <2>4, <2>6 DEF Between
<1> HIDE DEF t
<1>9. MeanRate(t) \in Nat /\ lo <= MeanRate(t) /\ MeanRate(t) <= hi
  BY <1>5, <1>8, MeanIsBetween
<1> QED BY <1>3, <1>9 DEF lo, hi, s, n

-------------------------------------------------------------------------------
(***************************************************************************)
(* A comparable adjusted has a rate, however it was adjusted.              *)
(***************************************************************************)
LEMMA CompoundedIsNatural ==
    ASSUME NEW lines \in Seq(Adjustment), \A i \in DOMAIN lines : lines[i].pct \in -50 .. 50
    PROVE  Compounded(lines) \in Nat
<1> DEFINE n == Len(lines)
           one == 1
           Factor(k) == IF k \in 1 .. n THEN 100 + lines[k].pct ELSE 1
           step == [k \in Nat |-> [v \in Nat |-> v * Factor(k)]]
           IsLeft(p) == p = [k \in 0 .. n |-> IF k = 0 THEN 1 ELSE p[k - 1] * (100 + lines[k].pct)]
           left == CHOOSE p : IsLeft(p)
<1>0. \A i \in 1 .. n : 100 + lines[i].pct \in Nat
  <2>1. \A pct \in -50 .. 50 : 100 + pct \in Nat
    OBVIOUS
  <2>2. DOMAIN lines = 1 .. n
    OBVIOUS
  <2> QED BY <2>1, <2>2
<1>1. n \in Nat /\ one \in Nat /\ \A k \in Nat : Factor(k) \in Nat
  BY <1>0
<1>2. step \in [Nat -> [Nat -> Nat]]
  <2> HIDE DEF Factor
  <2> QED BY <1>1
<1>3. PICK p \in [Nat -> Nat] : IsRecursive(p, one, step)
  <2> HIDE DEF step, one
  <2> QED BY <1>1, <1>2, Recursion
<1>4. \A k \in 0 .. n : p[k] = IF k = 0 THEN 1 ELSE p[k - 1] * (100 + lines[k].pct)
  <2> SUFFICES ASSUME NEW k \in 0 .. n
               PROVE  p[k] = IF k = 0 THEN 1 ELSE p[k - 1] * (100 + lines[k].pct)
    OBVIOUS
  <2>1. p[k] = IF k = 0 THEN one ELSE step[k][p[k - 1]]
    <3> HIDE DEF one, step
    <3> QED BY <1>1, <1>3 DEF IsRecursive
  <2>2. k # 0 => k - 1 \in Nat /\ p[k - 1] \in Nat /\ Factor(k) = 100 + lines[k].pct
    BY <1>1
  <2>3. k # 0 => step[k][p[k - 1]] = p[k - 1] * Factor(k)
    <3> HIDE DEF Factor
    <3> QED BY <1>1, <2>2
  <2> HIDE DEF step, Factor
  <2> QED BY <2>1, <2>2, <2>3
<1>5. \E q : IsLeft(q)
  <2> DEFINE q == [k \in 0 .. n |-> p[k]]
  <2>1. \A k \in 0 .. n : q[k] = p[k] /\ (k # 0 => k - 1 \in 0 .. n /\ q[k - 1] = p[k - 1])
    BY <1>1
  <2>2. \A k \in 0 .. n : q[k] = IF k = 0 THEN 1 ELSE q[k - 1] * (100 + lines[k].pct)
    <3> HIDE DEF q
    <3> QED BY <1>4, <2>1
  <2>3. q = [k \in 0 .. n |-> q[k]]
    OBVIOUS
  <2> HIDE DEF q
  <2>4. IsLeft(q)
    BY <2>2, <2>3
  <2> QED BY <2>4
<1>6. IsLeft(left)
  <2> HIDE DEF IsLeft
  <2> QED BY <1>5
<1>7. Compounded(lines) = left[n]
  BY DEF Compounded
<1> HIDE DEF left
<1>8. \A k \in 0 .. n : left[k] = IF k = 0 THEN 1 ELSE left[k - 1] * (100 + lines[k].pct)
  BY <1>6
<1> HIDE DEF IsLeft
<1>9. n \in {k \in Nat : k <= n => left[k] \in Nat}
  <2> DEFINE T == {k \in Nat : k <= n => left[k] \in Nat}
  <2>1. 0 \in T
    BY <1>1, <1>8
  <2>2. \A k \in Nat : k \in T => k + 1 \in T
    <3> SUFFICES ASSUME NEW k \in Nat, k \in T, k + 1 <= n PROVE left[k + 1] \in Nat
      OBVIOUS
    <3>1. k + 1 \in 0 .. n /\ k + 1 \in 1 .. n /\ (k + 1) - 1 = k /\ left[k] \in Nat
      BY <1>1
    <3>2. left[k + 1] = left[k] * (100 + lines[k + 1].pct)
      BY <1>8, <3>1
    <3>3. 100 + lines[k + 1].pct \in Nat
      BY <1>0, <3>1
    <3> QED BY <3>1, <3>2, <3>3, NaturalProduct
  <2> HIDE DEF T
  <2>3. n \in T
    BY <1>1, <2>1, <2>2, Induction
  <2> QED BY <2>3 DEF T
<1> QED BY <1>1, <1>7, <1>9

(* The adjustments in the order they are applied are those given.          *)
LEMMA OrderedIsLines ==
    ASSUME NEW lines \in Seq(Adjustment), \A i \in DOMAIN lines : ~Indefensible(lines[i])
    PROVE  /\ Ordered(lines) \in Seq(Adjustment)
           /\ \A i \in DOMAIN Ordered(lines) : Ordered(lines)[i].pct \in -50 .. 50
<1> DEFINE key == [i \in DOMAIN lines |-> Position(lines[i].factor)]
           s == Ordered(lines)
<1>1. \A i \in DOMAIN lines : lines[i].factor \in AdjustmentFactors /\ lines[i].pct \in -50 .. 50
  BY DEF Indefensible
<1>2. \A f \in AdjustmentFactors : Position(f) \in Int
  <2> TAKE f \in AdjustmentFactors
  <2>1. DOMAIN AdjustmentOrder = 1 .. 10
    BY DEF AdjustmentOrder
  <2>2. \E i \in DOMAIN AdjustmentOrder : AdjustmentOrder[i] = f
    BY DEF AdjustmentFactors
  <2>3. Position(f) \in DOMAIN AdjustmentOrder
    BY <2>2 DEF Position
  <2> QED BY <2>1, <2>3
<1>3. Keyed(lines, key)
  BY <1>1, <1>2 DEF Keyed
<1>4. s = InOrder(lines, key)
  BY DEF Ordered
<1> HIDE DEF key, s
<1>5. DOMAIN s = DOMAIN lines /\ \A k \in DOMAIN lines : \E i \in DOMAIN lines : s[k] = lines[i]
  BY <1>3, <1>4, PlaceOf DEF Places
<1>6. \A k \in DOMAIN lines : s[k] \in Adjustment /\ s[k].pct \in -50 .. 50
  <2>1. \A i \in DOMAIN lines : lines[i] \in Adjustment
    OBVIOUS
  <2> QED BY <1>1, <1>5, <2>1
<1>7. s = [k \in DOMAIN lines |-> s[k]] /\ DOMAIN lines = 1 .. Len(lines) /\ Len(lines) \in Nat
  BY <1>4 DEF InOrder
<1>8. s \in [1 .. Len(lines) -> Adjustment]
  BY <1>6, <1>7
<1>9. s \in Seq(Adjustment)
  BY <1>7, <1>8
<1> QED BY <1>5, <1>6, <1>9 DEF s

(* An entry that is not refused is adjusted to natural figures.            *)
LEMMA AdjustedIsComparable ==
    ASSUME NEW e \in Entry, ~Refused(e)
    PROVE  Adjusted(e) \in AdjustedComparable
<1> DEFINE lines == Ordered(e.adjustments)
           product == Compounded(lines)
           base == Base(lines)
           num == e.price * RateScale
<1>1. /\ e.adjustments \in Seq(Adjustment) /\ e.area \in Nat \ {0} /\ e.price \in Nat
      /\ e.months \in Nat \union {None} /\ e.distance \in Nat \union {None}
      /\ \A i \in DOMAIN e.adjustments : ~Indefensible(e.adjustments[i])
  BY DEF Entry, Refused
<1>2. lines \in Seq(Adjustment) /\ \A i \in DOMAIN lines : lines[i].pct \in -50 .. 50
  BY <1>1, OrderedIsLines
<1> HIDE DEF lines
<1>3. product \in Nat
  BY <1>2, CompoundedIsNatural
<1>4. base \in Nat \ {0}
  <2> DEFINE hundred == 100
             n == Len(lines)
  <2>1. hundred \in Nat /\ hundred # 0 /\ n \in Nat /\ base = Power(hundred, n)
    BY <1>2 DEF Base
  <2> HIDE DEF hundred, n, base
  <2>2. Power(hundred, n) \in Nat /\ Power(hundred, n) # 0
    BY <2>1, PowerIsNatural
  <2> QED BY <2>1, <2>2
<1>5. num \in Nat
  BY <1>1, ScaleAssumption
<1>6. /\ Adjusted(e).raw = Rounded(num, e.area)
      /\ Adjusted(e).adjusted = Rounded(num * product, e.area * base)
      /\ Adjusted(e).lines = lines
      /\ Adjusted(e).months = e.months /\ Adjusted(e).distance = e.distance
      /\ Adjusted(e) = [raw |-> Adjusted(e).raw, adjusted |-> Adjusted(e).adjusted,
                        lines |-> Adjusted(e).lines, months |-> Adjusted(e).months,
                        distance |-> Adjusted(e).distance]
  BY DEF Adjusted, lines
<1> HIDE DEF product, base, num
<1>7. num * product \in Nat /\ e.area * base \in Nat \ {0}
  BY <1>1, <1>3, <1>4, <1>5
<1>8. Rounded(num, e.area) \in Nat /\ Rounded(num * product, e.area * base) \in Nat
  BY <1>1, <1>5, <1>7, RoundedBounds
<1> QED BY <1>1, <1>2, <1>6, <1>8 DEF AdjustedComparable

-------------------------------------------------------------------------------
(***************************************************************************)
(* The inductive invariant: what was judged and what was concluded is of   *)
(* the grid as it stands, which is not added to afterwards.                *)
(***************************************************************************)
GridInv ==
    /\ GridTypeOK
    /\ verdict = "adjusted_spread_too_wide" => TooWide(AdjustedRates)
    /\ conclusion # None =>
         /\ grid # << >>
         /\ \E area \in Areas : area > 0 /\ conclusion = ConclusionFor(area)

(* The rates of a grid, adjusted and raw, one for each comparable.         *)
LEMMA RatesOfTheGrid ==
    ASSUME grid \in Seq(AdjustedComparable)
    PROVE  /\ AdjustedRates \in Seq(Nat) /\ RawRates \in Seq(Nat)
           /\ Len(AdjustedRates) = Len(grid) /\ Len(RawRates) = Len(grid)
           /\ DOMAIN AdjustedRates = DOMAIN grid /\ DOMAIN RawRates = DOMAIN grid
           /\ grid # << >> => AdjustedRates # << >> /\ RawRates # << >>
<1> DEFINE n == Len(grid)
           adjusted == AdjustedRates
           raw == RawRates
<1>1. n \in Nat /\ DOMAIN grid = 1 .. n /\ \A i \in 1 .. n : grid[i] \in AdjustedComparable
  OBVIOUS
<1>2. \A i \in 1 .. n : grid[i].adjusted \in Nat /\ grid[i].raw \in Nat
  BY <1>1 DEF AdjustedComparable
<1>3. adjusted \in [1 .. n -> Nat] /\ raw \in [1 .. n -> Nat]
  BY <1>1, <1>2 DEF AdjustedRates, RawRates
<1> HIDE DEF adjusted, raw
<1> HIDE DEF n
<1>4. /\ adjusted \in Seq(Nat) /\ raw \in Seq(Nat) /\ Len(adjusted) = n /\ Len(raw) = n
      /\ DOMAIN adjusted = 1 .. n /\ DOMAIN raw = 1 .. n
  <2>1. \A f \in [1 .. n -> Nat] : f \in Seq(Nat) /\ Len(f) = n /\ DOMAIN f = 1 .. n
    BY <1>1
  <2> QED BY <1>3, <2>1
<1>5. grid # << >> => n # 0
  BY <1>1
<1>6. n # 0 => adjusted # << >> /\ raw # << >>
  BY <1>4
<1> QED BY <1>1, <1>4, <1>5, <1>6 DEF adjusted, raw, n

(* The rate concluded lies in the span of the rates.                       *)
LEMMA RateIsBetween ==
    ASSUME NEW r \in Seq(Nat), r # << >>
    PROVE  /\ ConcludedRate(r) \in Nat
           /\ LowestRate(r) <= ConcludedRate(r) /\ ConcludedRate(r) <= HighestRate(r)
<1>1. /\ LowestRate(r) \in Nat /\ HighestRate(r) \in Nat
      /\ Between(r, LowestRate(r), HighestRate(r))
  BY Extremes
<1> DEFINE lo == LowestRate(r)
           hi == HighestRate(r)
<1> HIDE DEF lo, hi
<1>2. lo \in Nat /\ hi \in Nat /\ Between(r, lo, hi)
  BY <1>1 DEF lo, hi
<1>3. /\ MeanRate(r) \in Nat /\ lo <= MeanRate(r) /\ MeanRate(r) <= hi
      /\ MedianRate(r) \in Nat /\ lo <= MedianRate(r) /\ MedianRate(r) <= hi
  BY <1>2, MeanIsBetween, MedianIsBetween
<1> QED BY <1>3 DEF ConcludedRate, lo, hi

(* A higher rate makes a value no lower.                                   *)
LEMMA ValueGrows ==
    ASSUME NEW rate \in Nat, NEW other \in Nat, rate <= other, NEW area \in Nat
    PROVE  Value(rate, area) \in Nat /\ Value(rate, area) <= Value(other, area)
<1> DEFINE scale == area * MoneyScale
           a == rate * scale
           b == other * scale
<1>1. scale \in Nat /\ RateScale \in Nat \ {0}
  BY ScaleAssumption
<1>2. rate * area * MoneyScale = a /\ other * area * MoneyScale = b
  BY ScaleAssumption
<1> HIDE DEF scale
<1>3. a \in Nat /\ b \in Nat /\ a <= b
  BY <1>1, ProductMonotone
<1> HIDE DEF a, b
<1>4. Rounded(a, RateScale) \in Nat /\ Rounded(a, RateScale) <= Rounded(b, RateScale)
  BY <1>1, <1>3, RoundedMonotone, RoundedBounds
<1> QED BY <1>2, <1>4 DEF Value

(* What is concluded from a grid is a conclusion.                          *)
LEMMA ConclusionIsTyped ==
    ASSUME grid \in Seq(AdjustedComparable), grid # << >>, NEW area \in Areas, area > 0
    PROVE  ConclusionFor(area) \in Conclusion
<1> DEFINE rates == AdjustedRates
           raw == RawRates
<1>1. rates \in Seq(Nat) /\ raw \in Seq(Nat) /\ rates # << >> /\ raw # << >>
  BY RatesOfTheGrid
<1>2. area \in Nat
  BY EntriesAssumption
<1>3. /\ ConclusionFor(area) =
           [rate |-> ConcludedRate(rates), value |-> Value(ConcludedRate(rates), area),
            low |-> Value(LowestRate(rates), area), high |-> Value(HighestRate(rates), area),
            raw |-> PreAdjustment(raw)]
  BY DEF ConclusionFor
<1> HIDE DEF rates, raw
<1>4. ConcludedRate(rates) \in Nat /\ LowestRate(rates) \in Nat /\ HighestRate(rates) \in Nat
  BY <1>1, RateIsBetween, Extremes
<1>5. \A v \in Nat : Value(v, area) \in Nat
  <2> TAKE v \in Nat
  <2>1. v <= v
    OBVIOUS
  <2> QED BY <1>2, <2>1, ValueGrows
<1>6. /\ PreAdjustment(raw) = [mean |-> MeanRate(raw), trimmed |-> MeanRate(Trimmed(raw)),
                               low |-> LowestRate(raw), high |-> HighestRate(raw)]
  BY DEF PreAdjustment
<1>7. /\ LowestRate(raw) \in Nat /\ HighestRate(raw) \in Nat
      /\ Between(raw, LowestRate(raw), HighestRate(raw))
  BY <1>1, Extremes
<1>8. MeanRate(raw) \in Nat
  BY <1>1, <1>7, MeanIsBetween
<1>9. MeanRate(Trimmed(raw)) \in Nat
  <2>1. CASE Len(raw) >= 5
    BY <1>1, <2>1, TrimmedIsInner
  <2>2. CASE ~(Len(raw) >= 5)
    <3>1. Trimmed(raw) = Sorted(raw)
      <4> DEFINE trim == IF Len(raw) \div 10 > 1 THEN Len(raw) \div 10 ELSE 1
                 inner == SubSeq(Sorted(raw), trim + 1, Len(raw) - trim)
      <4>1. Len(raw) \in Nat
        BY <1>1
      <4>2. Trimmed(raw) = IF Len(raw) > 4 THEN inner ELSE Sorted(raw)
        BY DEF Trimmed
      <4> HIDE DEF inner
      <4> QED BY <2>2, <4>1, <4>2
    <3> DEFINE s == Sorted(raw)
    <3>2. s \in Seq(Nat) /\ Len(s) = Len(raw)
      BY <1>1, SortedIsRates
    <3> HIDE DEF s
    <3>3. s # << >>
      BY <1>1, <3>2, RatesAreKeyed
    <3>4. /\ LowestRate(s) \in Nat /\ HighestRate(s) \in Nat
          /\ Between(s, LowestRate(s), HighestRate(s))
      BY <3>2, <3>3, Extremes
    <3>5. MeanRate(s) \in Nat
      BY <3>2, <3>3, <3>4, MeanIsBetween
    <3> QED BY <3>1, <3>5 DEF s
  <2> QED BY <2>1, <2>2
<1>10. PreAdjustment(raw) \in Statistics
  BY <1>6, <1>7, <1>8, <1>9 DEF Statistics
<1> QED BY <1>3, <1>4, <1>5, <1>10 DEF Conclusion

(* The invariant holds at first, is kept, and so always holds.             *)
LEMMA GridInvAtFirst == GridInit => GridInv
<1> SUFFICES ASSUME GridInit PROVE GridInv
  OBVIOUS
<1>1. grid = << >> /\ refused = FALSE /\ verdict = None /\ conclusion = None
  BY DEF GridInit
<1>2. grid \in Seq(AdjustedComparable)
  BY <1>1
<1>3. verdict # "adjusted_spread_too_wide"
  BY <1>1, NoVerdictAssumption DEF Verdicts
<1> QED BY <1>1, <1>2, <1>3 DEF GridInv, GridTypeOK

LEMMA GridInvIsKept == GridInv /\ [GridNext]_gridVars => GridInv'
<1> SUFFICES ASSUME GridInv, [GridNext]_gridVars PROVE GridInv'
  OBVIOUS
<1>1. /\ grid \in Seq(AdjustedComparable) /\ refused \in BOOLEAN
      /\ verdict \in Verdicts \union {None} /\ conclusion \in Conclusion \union {None}
  BY DEF GridInv, GridTypeOK
<1>2. None \notin Verdicts
  BY NoVerdictAssumption
<1>3. ASSUME NEW e \in Entries, AddComparable(e) PROVE GridInv'
  <2>1. /\ verdict = None /\ conclusion = None /\ verdict' = verdict /\ conclusion' = conclusion
        /\ \/ refused' = TRUE /\ grid' = << >>
           \/ ~Refused(e) /\ grid' = Append(grid, Adjusted(e)) /\ refused' = refused
    BY <1>3 DEF AddComparable
  <2>2. e \in Entry
    BY EntriesAssumption
  <2>3. grid' \in Seq(AdjustedComparable)
    <3>1. CASE grid' = << >>
      BY <3>1
    <3>2. CASE ~Refused(e) /\ grid' = Append(grid, Adjusted(e))
      <4>1. Adjusted(e) \in AdjustedComparable
        BY <2>2, <3>2, AdjustedIsComparable
      <4> QED BY <1>1, <3>2, <4>1
    <3> QED BY <2>1, <3>1, <3>2
  <2>4. verdict' # "adjusted_spread_too_wide"
    BY <1>2, <2>1 DEF Verdicts
  <2> QED BY <1>1, <2>1, <2>3, <2>4 DEF GridInv, GridTypeOK
<1>4. CASE ValidateGrid
  <2>1. /\ conclusion = None /\ grid' = grid /\ refused' = refused /\ conclusion' = conclusion
    BY <1>4 DEF ValidateGrid
  <2>2. PICK given \in BOOLEAN : verdict' = Verdict(given)
    BY <1>4 DEF ValidateGrid
  <2>3. /\ Verdict(given) \in Verdicts
        /\ Verdict(given) = "adjusted_spread_too_wide" => TooWide(AdjustedRates)
    BY DEF Verdict, Verdicts
  <2>4. TooWide(AdjustedRates)' = TooWide(AdjustedRates)
    BY <2>1 DEF TooWide, AdjustedRates, Spread, LowestRate, HighestRate
  <2> QED BY <1>1, <2>1, <2>2, <2>3, <2>4 DEF GridInv, GridTypeOK
<1>5. ASSUME NEW area \in Areas, Conclude(area) PROVE GridInv'
  <2>1. /\ grid # << >> /\ area > 0 /\ grid' = grid /\ refused' = refused /\ verdict' = verdict
        /\ conclusion' = ConclusionFor(area)
    BY <1>5 DEF Conclude
  <2>2. ConclusionFor(area)' = ConclusionFor(area)
    BY <2>1 DEF ConclusionFor, AdjustedRates, RawRates
  <2>3. TooWide(AdjustedRates)' = TooWide(AdjustedRates)
    BY <2>1 DEF TooWide, AdjustedRates, Spread, LowestRate, HighestRate
  <2>4. ConclusionFor(area) \in Conclusion
    BY <1>1, <2>1, ConclusionIsTyped
  <2>5. GridTypeOK'
    BY <1>1, <2>1, <2>4 DEF GridTypeOK
  <2> QED BY <2>1, <2>2, <2>3, <2>5 DEF GridInv
<1>6. CASE UNCHANGED gridVars
  <2>1. grid' = grid /\ refused' = refused /\ verdict' = verdict /\ conclusion' = conclusion
    BY <1>6 DEF gridVars
  <2>2. \A area : ConclusionFor(area)' = ConclusionFor(area)
    BY <2>1 DEF ConclusionFor, AdjustedRates, RawRates
  <2>3. TooWide(AdjustedRates)' = TooWide(AdjustedRates)
    BY <2>1 DEF TooWide, AdjustedRates, Spread, LowestRate, HighestRate
  <2> QED BY <2>1, <2>2, <2>3 DEF GridInv, GridTypeOK
<1> QED BY <1>3, <1>4, <1>5, <1>6 DEF GridNext

LEMMA GridInvHolds == GridSpec => []GridInv
  BY GridInvAtFirst, GridInvIsKept, PTL DEF GridSpec

(* Every variable of a grid stays in its type: every comparable that is    *)
(* not refused gets a rate, every conclusion a value.                      *)
THEOREM GridTypeCorrect == GridSpec => []GridTypeOK
<1>1. GridInv => GridTypeOK
  BY DEF GridInv
<1> QED BY <1>1, GridInvHolds, PTL

-------------------------------------------------------------------------------
(* A value concluded lies in the range shown beside it.                    *)
THEOREM ConcludedWithinEvidence == GridSpec => []ConclusionIsWithinEvidence
<1>1. GridInv => ConclusionIsWithinEvidence
  <2> SUFFICES ASSUME GridInv, conclusion # None
               PROVE  conclusion.low <= conclusion.value /\ conclusion.value <= conclusion.high
    BY DEF ConclusionIsWithinEvidence
  <2> DEFINE r == AdjustedRates
  <2>1. PICK area \in Areas : area > 0 /\ conclusion = ConclusionFor(area)
    BY DEF GridInv
  <2>2. r \in Seq(Nat) /\ r # << >>
    BY RatesOfTheGrid DEF GridInv, GridTypeOK
  <2>3. /\ conclusion.value = Value(ConcludedRate(r), area)
        /\ conclusion.low = Value(LowestRate(r), area)
        /\ conclusion.high = Value(HighestRate(r), area)
    BY <2>1 DEF ConclusionFor
  <2>4. area \in Nat
    BY <2>1, EntriesAssumption
  <2> HIDE DEF r
  <2>5. /\ LowestRate(r) \in Nat /\ HighestRate(r) \in Nat /\ ConcludedRate(r) \in Nat
        /\ LowestRate(r) <= ConcludedRate(r) /\ ConcludedRate(r) <= HighestRate(r)
    BY <2>2, RateIsBetween, Extremes
  <2> QED BY <2>3, <2>4, <2>5, ValueGrows
<1> QED BY <1>1, GridInvHolds, PTL

(* What two inner places bound is in the span of all but any one.          *)
LEMMA InSpanOfOthers ==
    ASSUME NEW r \in Seq(Nat), NEW v \in Nat,
           NEW a \in DOMAIN r, NEW b \in DOMAIN r, a >= 2, b < Len(r),
           Sorted(r)[a] <= v, v <= Sorted(r)[b]
    PROVE  \A k : InSpanOf(v, Without(r, k))
<1> TAKE k
<1>1. PICK i \in DOMAIN r \ {k} : r[i] <= Sorted(r)[a]
  BY AnotherBelow
<1>2. PICK j \in DOMAIN r \ {k} : Sorted(r)[b] <= r[j]
  BY AnotherAbove
<1>3. /\ Sorted(r)[a] \in Nat /\ Sorted(r)[b] \in Nat /\ r[i] \in Nat /\ r[j] \in Nat
  BY SortedIsRates, RatesAreKeyed
<1>4. r[i] <= v /\ v <= r[j]
  BY <1>1, <1>2, <1>3
<1> QED BY <1>4 DEF InSpanOf, Without

(* With three to five comparables no single one moves the concluded rate   *)
(* out of the span of the others.                                          *)
THEOREM NoOneDrags == GridSpec => []OneComparableCannotDrag
<1>1. GridInv => OneComparableCannotDrag
  <2> SUFFICES ASSUME GridInv, conclusion # None, Len(grid) \in 3 .. 5, NEW k \in DOMAIN grid
               PROVE  InSpanOf(conclusion.rate, Without(AdjustedRates, k))
    BY DEF OneComparableCannotDrag
  <2> DEFINE r == AdjustedRates
  <2>1. PICK area \in Areas : area > 0 /\ conclusion = ConclusionFor(area)
    BY DEF GridInv
  <2>2. r \in Seq(Nat) /\ r # << >> /\ Len(r) = Len(grid)
    BY RatesOfTheGrid DEF GridInv, GridTypeOK
  <2>3. conclusion.rate = ConcludedRate(r)
    BY <2>1 DEF ConclusionFor
  <2> HIDE DEF r
  <2>4. ConcludedRate(r) = MedianRate(r) /\ Len(r) >= 3
    <3>1. Len(r) \in 3 .. 5
      BY <2>2
    <3>2. Len(r) < 6 /\ Len(r) >= 3
      <4>1. \A n \in 3 .. 5 : n < 6 /\ n >= 3
        OBVIOUS
      <4> QED BY <3>1, <4>1
    <3> QED BY <3>2 DEF ConcludedRate, UsesMedian
  <2>5. MedianRate(r) \in Nat
    BY <2>2, MedianIsMiddle
  <2>6. PICK a, b \in DOMAIN r :
          /\ Sorted(r)[a] <= MedianRate(r) /\ MedianRate(r) <= Sorted(r)[b]
          /\ a >= 2 /\ b < Len(r)
    BY <2>2, <2>4, MedianIsMiddle
  <2>7. \A x : InSpanOf(MedianRate(r), Without(r, x))
    BY <2>2, <2>5, <2>6, InSpanOfOthers
  <2> QED BY <2>3, <2>4, <2>7 DEF r
<1> QED BY <1>1, GridInvHolds, PTL

(* From five comparables on, the trimmed mean of the raw rates stays in    *)
(* the span of any all but one of them.                                    *)
THEOREM TrimmingIgnoresOne == GridSpec => []TrimmedIgnoresOne
<1>1. GridInv => TrimmedIgnoresOne
  <2> SUFFICES ASSUME GridInv, conclusion # None, Len(grid) >= 5, NEW k \in DOMAIN grid
               PROVE  InSpanOf(conclusion.raw.trimmed, Without(RawRates, k))
    BY DEF TrimmedIgnoresOne
  <2> DEFINE r == RawRates
             v == MeanRate(Trimmed(r))
             second == 2
             last == Len(r) - 1
  <2>1. PICK area \in Areas : area > 0 /\ conclusion = ConclusionFor(area)
    BY DEF GridInv
  <2>2. r \in Seq(Nat) /\ r # << >> /\ Len(r) >= 5
    BY RatesOfTheGrid DEF GridInv, GridTypeOK
  <2>3. conclusion.raw.trimmed = v
    BY <2>1 DEF ConclusionFor, PreAdjustment
  <2> HIDE DEF r
  <2>4. v \in Nat /\ Sorted(r)[second] <= v /\ v <= Sorted(r)[last]
    BY <2>2, TrimmedIsInner
  <2>5. second \in DOMAIN r /\ second >= 2 /\ last \in DOMAIN r /\ last < Len(r)
    BY <2>2
  <2> HIDE DEF v, second, last
  <2>6. \A x : InSpanOf(v, Without(r, x))
    BY <2>2, <2>4, <2>5, InSpanOfOthers
  <2> QED BY <2>3, <2>6 DEF r
<1> QED BY <1>1, GridInvHolds, PTL

(***************************************************************************)
(* Someone is responsible for a spread that is too wide: were neither end  *)
(* beyond half the threshold, both together would not be beyond it.        *)
(***************************************************************************)
LEMMA SpreadIsSomeones ==
    ASSUME NEW r \in Seq(Nat), r # << >>, TooWide(r)
    PROVE  Outliers(r) # {}
<1> DEFINE n == Len(r)
           sum == SumFunction(r)
           low == LowestRate(r)
           high == HighestRate(r)
           limit == MaxSpread * PercentScale
           span == (high - low) * n * 100
<1>1. /\ low \in Nat /\ high \in Nat /\ Between(r, low, high)
      /\ n \in Nat \ {0} /\ MaxSpread \in Nat /\ PercentScale \in Nat \ {0}
  BY Extremes, RatesAreKeyed, PolicyAssumption, ScaleAssumption
<1>2. PICK i \in DOMAIN r : r[i] = low
  BY Extremes
<1>3. PICK j \in DOMAIN r : r[j] = high
  BY Extremes
<1>4. low <= high
  BY <1>1, <1>2 DEF Between
<1>5. sum \in Nat /\ low * n <= sum /\ sum <= high * n
  <2> HIDE DEF low, high
  <2> QED BY <1>1, MeanIsBetween
<1>6. sum # 0 /\ Spread(r) = Rounded(span * PercentScale, sum)
  <2>1. Spread(r) # None
    BY DEF TooWide
  <2> QED BY <2>1 DEF Spread
<1>7. Spread(r) > limit
  BY DEF TooWide
<1> SUFFICES ASSUME Outliers(r) = {} PROVE FALSE
  OBVIOUS
<1>8. \A m \in DOMAIN r : ~(Distance(r[m] * n, sum) * 200 > MaxSpread * sum)
  BY DEF Outliers
<1>9. /\ ~(Distance(low * n, sum) * 200 > MaxSpread * sum)
      /\ ~(Distance(high * n, sum) * 200 > MaxSpread * sum)
  BY <1>2, <1>3, <1>8
<1> HIDE DEF n, sum, low, high, limit, span
<1>10. (sum - low * n) * 200 <= MaxSpread * sum /\ (high * n - sum) * 200 <= MaxSpread * sum
  <2>1. low * n \in Nat /\ high * n \in Nat /\ MaxSpread * sum \in Nat
    BY <1>1, <1>5
  <2>2. Distance(low * n, sum) = sum - low * n /\ Distance(high * n, sum) = high * n - sum
    BY <1>5, <2>1 DEF Distance
  <2> QED BY <1>5, <1>9, <2>1, <2>2
<1>11. span \in Nat /\ span <= MaxSpread * sum
  <2>1. span = (high * n - low * n) * 100 /\ low * n \in Nat /\ high * n \in Nat
        /\ MaxSpread * sum \in Nat
    BY <1>1, <1>5 DEF span
  <2>2. low * n <= high * n
    BY <1>1, <1>4, ProductMonotone
  <2> QED BY <1>5, <1>10, <2>1, <2>2
<1>12. span * PercentScale <= limit * sum
  <2>1. span * PercentScale <= (MaxSpread * sum) * PercentScale
    <3>1. MaxSpread * sum \in Nat /\ PercentScale \in Nat
      BY <1>1, <1>5
    <3> QED BY <1>11, <3>1, ProductMonotone
  <2>2. (MaxSpread * sum) * PercentScale = limit * sum
    BY <1>1, <1>5 DEF limit
  <2> QED BY <2>1, <2>2
<1>13. span * PercentScale \in Nat /\ limit \in Nat /\ sum \in Nat \ {0}
  BY <1>1, <1>5, <1>6, <1>11 DEF limit
<1>14. Rounded(span * PercentScale, sum) <= limit
  <2> DEFINE zero == 0
             num == span * PercentScale
  <2>1. zero \in Nat /\ zero * sum <= num /\ num \in Nat /\ num <= limit * sum
    BY <1>12, <1>13
  <2> HIDE DEF zero, num
  <2>2. Rounded(num, sum) <= limit
    BY <1>13, <2>1, RoundedWithin
  <2> QED BY <2>2 DEF num
<1>15. Rounded(span * PercentScale, sum) \in Nat
  BY <1>13, RoundedBounds
<1> QED BY <1>6, <1>7, <1>13, <1>14, <1>15

(* validate_spread never refuses a grid without naming a comparable.       *)
THEOREM SpreadAlwaysNames == GridSpec => []SpreadNamesSomeone
<1>1. GridInv => SpreadNamesSomeone
  <2> SUFFICES ASSUME GridInv, verdict = "adjusted_spread_too_wide"
               PROVE  Outliers(AdjustedRates) # {}
    BY DEF SpreadNamesSomeone
  <2> DEFINE r == AdjustedRates
  <2>1. TooWide(r)
    BY DEF GridInv
  <2>2. r \in Seq(Nat)
    BY RatesOfTheGrid DEF GridInv, GridTypeOK
  <2> HIDE DEF r
  <2>3. r # << >>
    <3> SUFFICES ASSUME r = << >> PROVE FALSE
      OBVIOUS
    <3>1. Len(r) < 2
      OBVIOUS
    <3> QED BY <2>1, <3>1 DEF TooWide, Spread
  <2> QED BY <2>1, <2>2, <2>3, SpreadIsSomeones DEF r
<1> QED BY <1>1, GridInvHolds, PTL
================================================================================
