----------------------------- MODULE EngineProofs -----------------------------
(***************************************************************************)
(* What the entry points of the engine that answer in one step promise:    *)
(* the income and the cost approach, the rent roll, and the compliance     *)
(* desk, for any request, any leases and any filing.                       *)
(***************************************************************************)
EXTENDS Approaches, RentRoll, Compliance, ArithmeticProofs

(* An indication is what was computed of the request, which never changes. *)
IndicationIsComputed ==
    /\ request \in DirectRequest \union DcfRequest \union CostRequest
    /\ indication # None =>
         /\ request.by = "direct" => indication = DirectCapitalisation(request)
         /\ request.by = "dcf" => indication = DiscountedCashFlow(request)
         /\ request.by = "cost" => indication = CostApproach(request)

LEMMA IndicationIsComputedInit == ApproachesInit => IndicationIsComputed
  BY RequestsAssumption DEF ApproachesInit, IndicationIsComputed

LEMMA IndicationIsComputedNext == IndicationIsComputed /\ [Indicate]_approachVars => IndicationIsComputed'
<1> SUFFICES ASSUME IndicationIsComputed, [Indicate]_approachVars PROVE IndicationIsComputed'
  OBVIOUS
<1>1. CASE Indicate
  BY <1>1 DEF Indicate, IndicationIsComputed
<1>2. CASE UNCHANGED approachVars
  BY <1>2 DEF approachVars, IndicationIsComputed
<1> QED BY <1>1, <1>2

LEMMA IndicationIsComputedAlways == ApproachesSpec => []IndicationIsComputed
  BY IndicationIsComputedInit, IndicationIsComputedNext, PTL DEF ApproachesSpec

-------------------------------------------------------------------------------
(* Three parts of a whole, none above it: what is left when each takes its *)
(* share of what the others leave is no less than when all take their      *)
(* shares of the whole, and no more than any one of them leaves.           *)
LEMMA Remainders ==
    ASSUME NEW w \in Nat \ {0}, NEW a \in 0 .. w, NEW b \in 0 .. w, NEW c \in 0 .. w
    PROVE  LET rest == (w - a) * (w - b) * (w - c)
           IN  /\ rest \in Nat
               /\ rest <= w * w * w
               /\ rest <= (w - a) * (w * w)
               /\ rest <= (w - b) * (w * w)
               /\ rest <= (w - c) * (w * w)
               /\ w * w * w - rest <= (a + b + c) * (w * w)
<1> DEFINE p == w - a
           q == w - b
           r == w - c
<1>1. w \in Nat /\ p \in 0 .. w /\ q \in 0 .. w /\ r \in 0 .. w
  OBVIOUS
<1>2. a = w - p /\ b = w - q /\ c = w - r
  OBVIOUS
<1> HIDE DEF p, q, r
<1>3. p * q \in Nat /\ p * q <= p * w /\ p * q <= w * q /\ p * w <= w * w /\ w * q <= w * w
  BY <1>1, ProductMonotone
<1>4. p * q <= w * w
  BY <1>1, <1>3
<1>5. p * q * r \in Nat /\ p * q * r <= p * q * w
  BY <1>1, <1>3, ProductMonotone
<1>6. /\ p * q * w <= (p * w) * w /\ p * q * w <= (w * q) * w
      /\ p * q * r <= (w * w) * r
      /\ (p * w) * w <= (w * w) * w
  BY <1>1, <1>3, <1>4, ProductMonotone
<1>7. (p * w) * w = p * (w * w) /\ (w * q) * w = q * (w * w) /\ (w * w) * r = r * (w * w)
  BY <1>1
<1>8. /\ p * q * r <= p * (w * w)
      /\ p * q * r <= q * (w * w)
      /\ p * q * r <= r * (w * w)
      /\ p * q * r <= w * w * w
  BY <1>1, <1>5, <1>6, <1>7
<1>9. (w - p) * (w - q) \in Nat /\ (w * w - p * q) * (w - r) \in Nat
  BY <1>1, <1>3, <1>4
<1>10. w * w <= p * q + (w - p) * w + (w - q) * w
  BY <1>1, <1>9
<1>11. w * w * w <= (p * q) * w + ((w - p) + (w - q)) * (w * w)
  <2>1. (w * w) * w <= (p * q + (w - p) * w + (w - q) * w) * w
    BY <1>1, <1>3, <1>10, ProductMonotone
  <2> QED BY <1>1, <1>3, <2>1
<1>12. (p * q) * w <= p * q * r + (w - r) * (w * w)
  <2>1. (p * q) * (w - r) <= (w * w) * (w - r)
    BY <1>1, <1>3, <1>4, ProductMonotone
  <2> QED BY <1>1, <1>3, <2>1
<1>13. w * w * w - p * q * r <= ((w - p) + (w - q) + (w - r)) * (w * w)
  <2>1. /\ w * w * w \in Nat /\ (p * q) * w \in Nat /\ p * q * r \in Nat
        /\ ((w - p) + (w - q)) * (w * w) \in Nat /\ (w - r) * (w * w) \in Nat
    BY <1>1, <1>3, <1>5
  <2>2. ((w - p) + (w - q) + (w - r)) * (w * w) =
          ((w - p) + (w - q)) * (w * w) + (w - r) * (w * w)
    BY <1>1
  <2> QED BY <1>11, <1>12, <2>1, <2>2
<1> QED BY <1>2, <1>5, <1>8, <1>13 DEF p, q, r

(***************************************************************************)
(* The depreciation shown is between the greatest cause and their sum.     *)
(***************************************************************************)
LEMMA DepreciationBounds ==
    ASSUME NEW r \in CostRequest, CausesAreDefensible(r)
    PROVE  /\ TotalDepreciation(r) \in 0 .. Whole
           /\ \A cause \in Causes(r) : cause <= TotalDepreciation(r)
           /\ TotalDepreciation(r) <= Physical(r) + r.functional + r.external
<1> DEFINE a == Physical(r)
           b == r.functional
           c == r.external
           square == Whole * Whole
           lost == Whole * Whole * Whole - Standing(r)
<1>1. a \in 0 .. Whole /\ b \in 0 .. Whole /\ c \in 0 .. Whole
  BY DEF CausesAreDefensible, Causes
<1>2. Standing(r) = (Whole - a) * (Whole - b) * (Whole - c)
  BY DEF Standing
<1>3. /\ Standing(r) \in Nat
      /\ Standing(r) <= Whole * Whole * Whole
      /\ Standing(r) <= (Whole - a) * square
      /\ Standing(r) <= (Whole - b) * square
      /\ Standing(r) <= (Whole - c) * square
      /\ lost <= (a + b + c) * square
  <2> HIDE DEF a, b, c
  <2> QED BY <1>1, <1>2, Remainders, WholeAssumption
<1>4. TotalDepreciation(r) = Rounded(lost, square) /\ Causes(r) = {a, b, c}
  BY DEF TotalDepreciation, Causes
<1>5. square \in Nat \ {0} /\ Whole * Whole * Whole = Whole * square
  BY WholeAssumption
<1> HIDE DEF a, b, c, square
<1>6. /\ lost \in Nat /\ lost <= Whole * square
      /\ a * square <= lost /\ b * square <= lost /\ c * square <= lost
  <2>1. /\ (Whole - a) * square = Whole * square - a * square
        /\ (Whole - b) * square = Whole * square - b * square
        /\ (Whole - c) * square = Whole * square - c * square
    BY <1>1, <1>5, WholeAssumption
  <2>2. /\ Whole * square \in Nat /\ a * square \in Nat
        /\ b * square \in Nat /\ c * square \in Nat
    BY <1>1, <1>5, WholeAssumption
  <2> QED BY <1>3, <1>5, <2>1, <2>2
<1> HIDE DEF lost
<1>7. a \in Nat /\ b \in Nat /\ c \in Nat /\ a + b + c \in Nat /\ Whole \in Nat
  BY <1>1, WholeAssumption
<1>8. /\ a <= Rounded(lost, square) /\ b <= Rounded(lost, square)
      /\ c <= Rounded(lost, square)
      /\ Rounded(lost, square) <= Whole
      /\ Rounded(lost, square) <= a + b + c
  <2>1. a <= Rounded(lost, square) /\ Rounded(lost, square) <= Whole
    BY <1>5, <1>6, <1>7, RoundedWithin
  <2>2. b <= Rounded(lost, square)
    BY <1>5, <1>6, <1>7, RoundedWithin
  <2>3. c <= Rounded(lost, square) /\ Rounded(lost, square) <= a + b + c
    BY <1>3, <1>5, <1>6, <1>7, RoundedWithin
  <2> QED BY <2>1, <2>2, <2>3
<1>9. Rounded(lost, square) \in Nat
  BY <1>5, <1>6, RoundedBounds
<1>10. TotalDepreciation(r) \in 0 .. Whole
  BY <1>4, <1>7, <1>8, <1>9
<1>11. \A cause \in Causes(r) : cause <= TotalDepreciation(r)
  BY <1>4, <1>8
<1>12. TotalDepreciation(r) <= a + b + c
  BY <1>4, <1>8
<1> QED BY <1>10, <1>11, <1>12 DEF a, b, c

(***************************************************************************)
(* The cost approach brackets its value and adds up, whatever is claimed.  *)
(***************************************************************************)
THEOREM CostBracketed == ApproachesSpec => []CostIsBracketed
<1>1. IndicationIsComputed => CostIsBracketed
  <2> SUFFICES ASSUME IndicationIsComputed, IsIndicated("cost")
               PROVE  /\ indication.value = request.land + indication.building
                      /\ 0 <= indication.building /\ indication.building <= indication.new
                      /\ \A cause \in Causes(request) : cause <= indication.depreciation
                      /\ indication.depreciation <= Whole
                      /\ indication.depreciation <=
                           Physical(request) + request.functional + request.external
                      /\ indication.depreciation = Whole => indication.value = request.land
    BY DEF CostIsBracketed
  <2> DEFINE r == request
             new == r.area * r.rate
             total == TotalDepreciation(r)
             standing == new * (Whole - total)
  <2>1. r \in CostRequest /\ indication = CostApproach(r) /\ indication.code = "indicated"
    BY DEF IndicationIsComputed, IsIndicated, DirectRequest, DcfRequest
  <2>2. ~(\/ ~AgeIsUsable(r) \/ ~CausesAreDefensible(r)
          \/ r.land < 0 \/ r.area <= 0 \/ r.rate <= 0 \/ ~r.reasoned)
    BY <2>1 DEF CostApproach, Declined
  <2>3. indication = [code |-> "indicated",
                      value |-> Rounded(r.land * Whole + standing, Whole),
                      depreciation |-> total, building |-> Rounded(standing, Whole),
                      new |-> new]
    BY <2>1, <2>2 DEF CostApproach
  <2>4. /\ total \in 0 .. Whole
        /\ \A cause \in Causes(r) : cause <= total
        /\ total <= Physical(r) + r.functional + r.external
    BY <2>1, <2>2, DepreciationBounds
  <2>5. r.land \in Nat /\ r.area \in Nat /\ r.rate \in Nat
    BY <2>1, <2>2 DEF CostRequest
  <2>6. new \in Nat
    BY <2>5
  <2> HIDE DEF new, total
  <2>7. standing \in Nat /\ standing <= new * Whole /\ (total = Whole => standing = 0)
    <3>1. Whole \in Nat /\ Whole - total \in Nat /\ Whole - total <= Whole
      BY <2>4, WholeAssumption
    <3>2. (Whole - total) * new \in Nat /\ (Whole - total) * new <= Whole * new
      BY <2>6, <3>1, ProductMonotone
    <3>3. standing = (Whole - total) * new /\ Whole * new = new * Whole
      BY <2>6, <3>1
    <3> QED BY <2>6, <3>1, <3>2, <3>3
  <2> HIDE DEF standing
  <2>8. /\ Rounded(r.land * Whole + standing, Whole) = r.land + Rounded(standing, Whole)
        /\ Rounded(standing, Whole) \in Nat
    BY <2>5, <2>7, RoundedShift, RoundedBounds, WholeAssumption
  <2>9. Rounded(standing, Whole) <= new
    <3>1. 0 * Whole <= standing
      BY <2>7, WholeAssumption
    <3> QED BY <2>6, <2>7, <3>1, RoundedWithin, WholeAssumption
  <2>10. total = Whole => Rounded(standing, Whole) = 0
    <3> SUFFICES ASSUME total = Whole PROVE Rounded(standing, Whole) = 0
      OBVIOUS
    <3>1. 0 * Whole <= standing /\ standing <= 0 * Whole /\ standing \in Nat
      BY <2>7, WholeAssumption
    <3>2. 0 <= Rounded(standing, Whole) /\ Rounded(standing, Whole) <= 0
      BY <3>1, RoundedWithin, WholeAssumption
    <3> QED BY <2>8, <3>2
  <2> QED BY <2>3, <2>4, <2>5, <2>8, <2>9, <2>10
<1> QED BY <1>1, IndicationIsComputedAlways, PTL

-------------------------------------------------------------------------------
(* What such a sum is, for any function that is one.                       *)
Accumulates(sum, d, g) ==
    \A n \in Nat : sum[n] = IF n = 0 THEN 0 ELSE sum[n - 1] * d + Power(g, n - 1)

LEMMA Telescope ==
    ASSUME NEW d \in Nat, NEW g \in Nat, NEW sum, Accumulates(sum, d, g)
    PROVE  \A n \in Nat : sum[n] \in Nat /\ (d - g) * sum[n] + Power(g, n) = Power(d, n)
<1> DEFINE T == {n \in Nat : sum[n] \in Nat /\ (d - g) * sum[n] + Power(g, n) = Power(d, n)}
<1>1. d \in Int /\ g \in Int
  OBVIOUS
<1>2. 0 \in T
  <2>1. Power(g, 0) = 1 /\ Power(d, 0) = 1
    BY <1>1, PowerSteps
  <2>2. sum[0] = 0
    BY DEF Accumulates
  <2> QED BY <2>1, <2>2
<1>3. ASSUME NEW n \in Nat, n \in T PROVE n + 1 \in T
  <2> DEFINE x == sum[n]
             p == Power(g, n)
             q == Power(d, n)
  <2>1. x \in Nat /\ (d - g) * x + p = q
    BY <1>3
  <2>2. p \in Nat /\ q \in Nat
    BY PowerIsNatural
  <2>3. Power(g, n + 1) = g * p /\ Power(d, n + 1) = d * q
    BY <1>1, PowerSteps
  <2>4. sum[n + 1] = x * d + p
    <3>1. n + 1 \in Nat /\ n + 1 # 0 /\ (n + 1) - 1 = n
      OBVIOUS
    <3> QED BY <3>1 DEF Accumulates
  <2> HIDE DEF x, p, q
  <2>5. x * d + p \in Nat
    BY <2>1, <2>2
  <2>6. (d - g) * (x * d + p) + g * p = d * ((d - g) * x + p)
    BY <2>1, <2>2
  <2> QED BY <2>1, <2>3, <2>4, <2>5, <2>6
<1> SUFFICES ASSUME NEW n \in Nat PROVE n \in T
  OBVIOUS
<1> HIDE DEF T
<1> QED BY <1>2, <1>3, Induction

(***************************************************************************)
(* Discounted over the years, and grown to the year after: the income of   *)
(* for ever, at the rate of discount less growth.                          *)
(***************************************************************************)
LEMMA YearsTelescope ==
    ASSUME NEW r, r.discount \in Nat, r.growth \in Int, r.growth >= -Whole, r.years \in Nat
    PROVE  /\ DiscountedYears(r) \in Nat
           /\ (r.discount - r.growth) * DiscountedYears(r) + Grown(r, r.years) =
                Power(Whole + r.discount, r.years)
<1> DEFINE d == Whole + r.discount
           g == Whole + r.growth
           steps == [y \in Nat |-> [v \in Nat |->
                       IF y = 0 THEN 0 ELSE v * d + Power(g, y - 1)]]
           IsSum(s) == s = [y \in Nat |-> IF y = 0 THEN 0
                                          ELSE s[y - 1] * d + Grown(r, y - 1)]
           sum == CHOOSE s : IsSum(s)
           zero == 0
<1>1. d \in Nat /\ g \in Nat /\ d - g = r.discount - r.growth
  BY WholeAssumption
<1>2. DiscountedYears(r) = sum[r.years]
  BY DEF DiscountedYears
<1>3. \A n \in Nat : Grown(r, n) = Power(g, n) /\ Power(g, n) \in Nat
  <2>1. \A n \in Nat : Grown(r, n) = Power(g, n)
    BY DEF Grown
  <2> HIDE DEF g
  <2> QED BY <1>1, <2>1, PowerIsNatural
<1> HIDE DEF d, g
<1>4. PICK s \in [Nat -> Nat] : IsRecursive(s, zero, steps)
  <2>1. zero \in Nat /\ steps \in [Nat -> [Nat -> Nat]]
    <3> SUFFICES ASSUME NEW y \in Nat, NEW v \in Nat
                 PROVE  (IF y = 0 THEN 0 ELSE v * d + Power(g, y - 1)) \in Nat
      OBVIOUS
    <3>1. CASE y = 0
      BY <3>1
    <3>2. CASE y # 0
      <4>1. y - 1 \in Nat
        BY <3>2
      <4>2. Power(g, y - 1) \in Nat
        BY <1>3, <4>1
      <4> QED BY <1>1, <3>2, <4>2
    <3> QED BY <3>1, <3>2
  <2> HIDE DEF steps, zero
  <2> QED BY <2>1, Recursion
<1>5. \A y \in Nat : s[y] = IF y = 0 THEN 0 ELSE s[y - 1] * d + Grown(r, y - 1)
  <2> SUFFICES ASSUME NEW y \in Nat
               PROVE  s[y] = IF y = 0 THEN 0 ELSE s[y - 1] * d + Grown(r, y - 1)
    OBVIOUS
  <2>1. s[y] = IF y = 0 THEN zero ELSE steps[y][s[y - 1]]
    BY <1>4 DEF IsRecursive
  <2> QED BY <1>3, <2>1
<1>6. IsSum(sum)
  <2>1. IsSum(s)
    BY <1>5
  <2> HIDE DEF IsSum
  <2> QED BY <2>1
<1> HIDE DEF sum
<1>7. Accumulates(sum, d, g)
  BY <1>3, <1>6 DEF Accumulates
<1> HIDE DEF IsSum
<1>8. sum[r.years] \in Nat /\ (d - g) * sum[r.years] + Power(g, r.years) = Power(d, r.years)
  BY <1>1, <1>7, Telescope
<1> QED BY <1>1, <1>2, <1>3, <1>8 DEF d

(* The yield reported, and the value, lie where the two yields put them.   *)
LEMMA CashFlowBetweenYields ==
    ASSUME NEW r \in DcfRequest, NEW noi \in Nat,
           r.discount > 0, r.exit > 0, r.years >= 1,
           r.growth >= -Whole, r.discount > r.growth,
           NEW low \in Nat \ {0}, NEW high \in Nat,
           low <= r.exit, low <= r.discount - r.growth,
           r.exit <= high, r.discount - r.growth <= high
    PROVE  /\ Worth(r) \in Nat \ {0}
           /\ low <= RoundedSigned(Discount(r), Worth(r))
           /\ RoundedSigned(Discount(r), Worth(r)) <= high
           /\ Capitalised(noi, high) <= RoundedSigned(noi * Worth(r), Discount(r) * Whole)
           /\ RoundedSigned(noi * Worth(r), Discount(r) * Whole) <= Capitalised(noi, low)
<1> DEFINE e == r.exit
           p == r.discount - r.growth
           x == DiscountedYears(r)
           z == Grown(r, r.years)
           t == Power(Whole + r.discount, r.years)
           worth == e * x + z
           disc == e * t
<1>1. /\ r.discount \in Nat /\ r.growth \in Int /\ r.years \in Nat
      /\ e \in Nat /\ e > 0 /\ p \in Nat /\ p > 0
  BY DEF DcfRequest
<1>2. Worth(r) = worth /\ Discount(r) = disc
  BY DEF Worth, Discount
<1>3. x \in Nat /\ p * x + z = t
  BY <1>1, YearsTelescope
<1>4. t \in Nat /\ t # 0
  <2>1. Whole + r.discount \in Nat /\ Whole + r.discount # 0
    BY <1>1, WholeAssumption
  <2> QED BY <1>1, <2>1, PowerIsNatural
<1>5. z \in Nat
  <2>1. Whole + r.growth \in Nat
    BY <1>1, WholeAssumption
  <2> QED BY <1>1, <2>1, PowerIsNatural DEF Grown
<1>6. /\ low <= e /\ low <= p /\ e <= high /\ p <= high
  OBVIOUS
<1> HIDE DEF e, p, x, z, t, worth, disc
<1>7. worth \in Nat /\ disc \in Nat /\ disc # 0
  BY <1>1, <1>3, <1>4, <1>5 DEF worth, disc
<1>8. disc = p * (e * x) + e * z
  <2>1. e * t = e * (p * x + z)
    BY <1>3
  <2>2. e * (p * x + z) = p * (e * x) + e * z
    BY <1>1, <1>3, <1>5
  <2> QED BY <2>1, <2>2 DEF disc
<1>9. low * worth <= disc /\ disc <= high * worth
  <2>1. e * x \in Nat
    BY <1>1, <1>3
  <2>2. low * (e * x) <= p * (e * x) /\ p * (e * x) <= high * (e * x)
    BY <1>1, <1>6, <2>1, ProductMonotone
  <2>3. low * z <= e * z /\ e * z <= high * z
    BY <1>1, <1>5, <1>6, ProductMonotone
  <2>4. low * worth = low * (e * x) + low * z /\ high * worth = high * (e * x) + high * z
    BY <1>5, <2>1 DEF worth
  <2>5. /\ low * (e * x) \in Nat /\ p * (e * x) \in Nat /\ high * (e * x) \in Nat
        /\ low * z \in Nat /\ e * z \in Nat /\ high * z \in Nat
    BY <1>1, <1>5, <2>1
  <2> QED BY <1>8, <2>2, <2>3, <2>4, <2>5
<1>10. worth # 0
  BY <1>7, <1>9
<1>11. low <= Rounded(disc, worth) /\ Rounded(disc, worth) <= high
  BY <1>7, <1>9, <1>10, RoundedWithin
<1>12. RoundedSigned(disc, worth) = Rounded(disc, worth)
  BY <1>7, <1>10 DEF RoundedSigned
<1> DEFINE num == noi * worth
           den == disc * Whole
<1>13. num \in Nat /\ den \in Nat \ {0}
  BY <1>7, WholeAssumption
<1>14. RoundedSigned(num, den) = Rounded(num, den)
  <2> HIDE DEF num, den
  <2> QED BY <1>13 DEF RoundedSigned
<1>15. /\ low * Whole \in Nat \ {0} /\ high * Whole \in Nat \ {0}
       /\ Capitalised(noi, low) = Rounded(noi, low * Whole)
       /\ Capitalised(noi, high) = Rounded(noi, high * Whole)
  BY <1>1, <1>6, WholeAssumption DEF Capitalised
<1>16. noi * den <= num * (high * Whole) /\ num * (low * Whole) <= noi * den
  <2>1. /\ (low * worth) * (noi * Whole) <= disc * (noi * Whole)
        /\ disc * (noi * Whole) <= (high * worth) * (noi * Whole)
    <3>1. low * worth \in Nat /\ high * worth \in Nat /\ noi * Whole \in Nat
      BY <1>7, WholeAssumption
    <3> QED BY <1>7, <1>9, <3>1, ProductMonotone
  <2>2. /\ noi * den = disc * (noi * Whole)
        /\ num * (high * Whole) = (high * worth) * (noi * Whole)
        /\ num * (low * Whole) = (low * worth) * (noi * Whole)
    BY <1>7, WholeAssumption
  <2> QED BY <2>1, <2>2
<1> HIDE DEF num, den
<1>17. Rounded(noi, high * Whole) <= Rounded(num, den)
  BY <1>13, <1>15, <1>16, RoundedInOrder
<1>18. Rounded(num, den) <= Rounded(noi, low * Whole)
  BY <1>13, <1>15, <1>16, RoundedInOrder
<1> QED BY <1>2, <1>7, <1>10, <1>11, <1>12, <1>14, <1>15, <1>17, <1>18 DEF num, den

(***************************************************************************)
(* Whatever the income, the rates and the years: what a discounted cash    *)
(* flow indicates, and the yield it reports, lie between those of direct   *)
(* capitalisation of the same income at the exit yield and at the discount *)
(* rate less the growth.                                                   *)
(***************************************************************************)
THEOREM CashFlowBetween == ApproachesSpec => []CapitalisationsAgree
<1>1. IndicationIsComputed => CapitalisationsAgree
  <2> DEFINE r == request
             p == r.discount - r.growth
             low == IF p < r.exit THEN p ELSE r.exit
             high == IF p < r.exit THEN r.exit ELSE p
             noi == NetIncome(r.statement)
  <2> SUFFICES ASSUME IndicationIsComputed, IsIndicated("dcf"), r.growth >= -Whole, r.discount > r.growth
               PROVE  /\ low <= indication.cap /\ indication.cap <= high
                      /\ Capitalised(noi, high) <= indication.value
                      /\ indication.value <= Capitalised(noi, low)
    BY DEF CapitalisationsAgree
  <2>1. r \in DcfRequest /\ indication = DiscountedCashFlow(r) /\ indication.code = "indicated"
    BY DEF IndicationIsComputed, IsIndicated, DirectRequest, CostRequest
  <2>2. noi \in Int /\ r.discount \in Int /\ r.exit \in Int /\ r.years \in Int
    BY <2>1, WholeAssumption DEF NetIncome, EffectiveGrossIncome, DcfRequest, Statement
  <2>3. /\ r.discount > 0 /\ r.exit > 0 /\ r.years >= 1 /\ noi \in Nat
        /\ indication.value = RoundedSigned(noi * Worth(r), Discount(r) * Whole)
        /\ indication.cap = RoundedSigned(Discount(r), Worth(r))
    <3>1. ~(r.discount <= 0 \/ r.exit <= 0 \/ r.years < 1 \/ ~r.reasoned \/ noi <= 0)
          /\ Worth(r) # 0
      BY <2>1 DEF DiscountedCashFlow, Declined, Failed
    <3>2. indication = [code |-> "indicated",
                        value |-> RoundedSigned(noi * Worth(r), Discount(r) * Whole),
                        cap |-> RoundedSigned(Discount(r), Worth(r))]
      BY <2>1, <3>1 DEF DiscountedCashFlow
    <3> HIDE DEF r, noi
    <3> QED BY <2>2, <3>1, <3>2
  <2>4. /\ low \in Nat \ {0} /\ high \in Nat
        /\ low <= r.exit /\ low <= r.discount - r.growth
        /\ r.exit <= high /\ r.discount - r.growth <= high
    BY <2>1, <2>3 DEF DcfRequest
  <2> HIDE DEF r, low, high, noi
  <2> QED BY <2>1, <2>3, <2>4, CashFlowBetweenYields
<1> QED BY <1>1, IndicationIsComputedAlways, PTL

(* Income may shrink by more than all of itself: then a sum of discounted  *)
(* years is still a whole number, but of either sign.                      *)
LEMMA DiscountedYearsIsInteger ==
    ASSUME NEW r \in DcfRequest, r.years >= 1
    PROVE  DiscountedYears(r) \in Int
<1> DEFINE steps == [y \in Nat |-> [v \in Int |->
                       IF y = 0 THEN 0 ELSE v * (Whole + r.discount) + Grown(r, y - 1)]]
           IsSum(s) == s = [y \in Nat |-> IF y = 0 THEN 0
                              ELSE s[y - 1] * (Whole + r.discount) + Grown(r, y - 1)]
           sum == CHOOSE s : IsSum(s)
           zero == 0
<1>1. r.years \in Nat /\ Whole + r.discount \in Int /\ Whole + r.growth \in Int
  BY WholeAssumption DEF DcfRequest
<1>2. \A n \in Nat : Grown(r, n) \in Int
  <2> DEFINE g == Whole + r.growth
  <2>1. \A n \in Nat : Grown(r, n) = Power(g, n)
    BY DEF Grown
  <2>2. g \in Int
    BY <1>1
  <2> HIDE DEF g
  <2> QED BY <2>1, <2>2, PowerSteps
<1>3. zero \in Int /\ steps \in [Nat -> [Int -> Int]]
  <2> SUFFICES ASSUME NEW y \in Nat, NEW v \in Int, y # 0
               PROVE  v * (Whole + r.discount) + Grown(r, y - 1) \in Int
    OBVIOUS
  <2>1. Grown(r, y - 1) \in Int
    BY <1>2
  <2> QED BY <1>1, <2>1
<1>4. PICK s \in [Nat -> Int] : IsRecursive(s, zero, steps)
  <2> HIDE DEF steps, zero
  <2> QED BY <1>3, Recursion
<1>5. \A y \in Nat : s[y] = IF y = 0 THEN 0
                            ELSE s[y - 1] * (Whole + r.discount) + Grown(r, y - 1)
  <2> SUFFICES ASSUME NEW y \in Nat
               PROVE  s[y] = IF y = 0 THEN 0
                             ELSE s[y - 1] * (Whole + r.discount) + Grown(r, y - 1)
    OBVIOUS
  <2>1. s[y] = IF y = 0 THEN zero ELSE steps[y][s[y - 1]]
    BY <1>4 DEF IsRecursive
  <2> QED BY <2>1
<1>6. IsSum(sum)
  <2>1. IsSum(s)
    BY <1>5
  <2> HIDE DEF IsSum
  <2> QED BY <2>1
<1>7. DiscountedYears(r) = sum[r.years]
  BY DEF DiscountedYears
<1> HIDE DEF sum
<1>8. \A y \in Nat : sum[y] = IF y = 0 THEN 0
                              ELSE sum[y - 1] * (Whole + r.discount) + Grown(r, y - 1)
  BY <1>6
<1> HIDE DEF IsSum
<1>9. \A y \in Nat : sum[y] \in Int
  <2> DEFINE T == {y \in Nat : sum[y] \in Int}
  <2>1. 0 \in T
    BY <1>8
  <2>2. ASSUME NEW y \in Nat, y \in T PROVE y + 1 \in T
    <3>1. sum[y + 1] = sum[y] * (Whole + r.discount) + Grown(r, y)
      <4>1. y + 1 \in Nat /\ y + 1 # 0 /\ (y + 1) - 1 = y
        OBVIOUS
      <4> QED BY <1>8, <4>1
    <3> QED BY <1>1, <1>2, <2>2, <3>1
  <2> SUFFICES ASSUME NEW y \in Nat PROVE y \in T
    OBVIOUS
  <2> HIDE DEF T
  <2> QED BY <2>1, <2>2, Induction
<1> QED BY <1>1, <1>7, <1>9

(* A rounded quotient is a whole number, of either sign.                   *)
LEMMA RoundedSignedIsInteger ==
    ASSUME NEW n \in Int, NEW d \in Int \ {0}
    PROVE  RoundedSigned(n, d) \in Int
<1> DEFINE sign == IF d < 0 THEN -1 ELSE 1
           num == sign * n
           den == sign * d
<1>1. num \in Int /\ den \in Nat \ {0}
  OBVIOUS
<1>2. RoundedSigned(n, d) = IF num >= 0 THEN Rounded(num, den) ELSE -Rounded(-num, den)
  BY DEF RoundedSigned
<1> HIDE DEF num, den
<1>3. CASE num >= 0
  <2>1. Rounded(num, den) \in Nat
    BY <1>1, <1>3, RoundedBounds
  <2> QED BY <1>2, <1>3, <2>1
<1>4. CASE ~(num >= 0)
  <2>1. -num \in Nat
    BY <1>1, <1>4
  <2>2. Rounded(-num, den) \in Nat
    BY <1>1, <2>1, RoundedBounds
  <2> QED BY <1>2, <1>4, <2>2
<1> QED BY <1>3, <1>4

(***************************************************************************)
(* Type correctness of the approaches, for statements and rates nothing    *)
(* bounds: an indicated cost, its building and its depreciation are never  *)
(* negative; a discounted cash flow may be.                                *)
(***************************************************************************)
THEOREM ApproachesTypeCorrect == ApproachesSpec => []ApproachesTypeOK
<1>1. IndicationIsComputed => ApproachesTypeOK
  <2> SUFFICES ASSUME IndicationIsComputed, indication # None
               PROVE  indication \in Indication
    BY DEF IndicationIsComputed, ApproachesTypeOK
  <2> DEFINE r == request
             noi == NetIncome(r.statement)
  <2>1. CASE r \in DirectRequest
    <3>1. indication = DirectCapitalisation(r) /\ r.rate \in Int
      BY <2>1 DEF IndicationIsComputed, DirectRequest
    <3>2. noi \in Int
      BY <2>1, WholeAssumption DEF NetIncome, EffectiveGrossIncome, DirectRequest, Statement
    <3>3. CASE r.rate <= 0 \/ ~r.reasoned \/ noi <= 0
      BY <3>1, <3>3 DEF DirectCapitalisation, Indication
    <3>4. CASE ~(r.rate <= 0 \/ ~r.reasoned \/ noi <= 0)
      <4>1. noi \in Nat /\ r.rate * Whole \in Nat \ {0}
        BY <3>1, <3>2, <3>4, WholeAssumption
      <4>2. Capitalised(noi, r.rate) \in Int
        <5> HIDE DEF noi
        <5>1. Rounded(noi, r.rate * Whole) \in Nat
          BY <4>1, RoundedBounds
        <5> QED BY <5>1 DEF Capitalised
      <4>3. indication = [code |-> "indicated", value |-> Capitalised(noi, r.rate), cap |-> r.rate]
        BY <3>1, <3>4 DEF DirectCapitalisation
      <4> QED BY <3>1, <4>2, <4>3 DEF Indication
    <3> QED BY <3>3, <3>4
  <2>2. CASE r \in DcfRequest
    <3>1. /\ indication = DiscountedCashFlow(r)
          /\ r.discount \in Int /\ r.exit \in Int /\ r.years \in Int /\ r.growth \in Int
      BY <2>2 DEF IndicationIsComputed, DcfRequest
    <3>2. noi \in Int
      BY <2>2, WholeAssumption DEF NetIncome, EffectiveGrossIncome, DcfRequest, Statement
    <3>3. CASE r.discount <= 0 \/ r.exit <= 0 \/ r.years < 1 \/ ~r.reasoned \/ noi <= 0
      BY <3>1, <3>3 DEF DiscountedCashFlow, Indication
    <3>4. CASE ~(r.discount <= 0 \/ r.exit <= 0 \/ r.years < 1 \/ ~r.reasoned \/ noi <= 0)
      <4>1. Worth(r) \in Int
        <5>1. DiscountedYears(r) \in Int
          BY <2>2, <3>1, <3>4, DiscountedYearsIsInteger
        <5>2. Grown(r, r.years) \in Int
          <6>1. Whole + r.growth \in Int /\ r.years \in Nat
            BY <3>1, <3>4, WholeAssumption
          <6> QED BY <6>1, PowerSteps DEF Grown
        <5> QED BY <3>1, <5>1, <5>2 DEF Worth
      <4>2. Discount(r) \in Int /\ Discount(r) * Whole \in Int \ {0}
        <5> DEFINE q == Power(Whole + r.discount, r.years)
        <5>1. q \in Nat \ {0}
          <6>1. Whole + r.discount \in Nat \ {0} /\ r.years \in Nat
            BY <3>1, <3>4, WholeAssumption
          <6> QED BY <6>1, PowerIsNatural
        <5>2. Discount(r) = r.exit * q
          BY DEF Discount
        <5> HIDE DEF q
        <5>3. Discount(r) \in Nat \ {0}
          BY <3>1, <3>4, <5>1, <5>2
        <5> QED BY <5>3, WholeAssumption
      <4>3. CASE Worth(r) = 0
        BY <3>1, <3>4, <4>3 DEF DiscountedCashFlow, Indication
      <4>4. CASE Worth(r) # 0
        <5>1. indication = [code |-> "indicated",
                            value |-> RoundedSigned(noi * Worth(r), Discount(r) * Whole),
                            cap |-> RoundedSigned(Discount(r), Worth(r))]
          BY <3>1, <3>4, <4>4 DEF DiscountedCashFlow
        <5> HIDE DEF noi
        <5>2. noi * Worth(r) \in Int
          BY <3>2, <4>1
        <5>3. RoundedSigned(noi * Worth(r), Discount(r) * Whole) \in Int
          BY <4>2, <5>2, RoundedSignedIsInteger
        <5>4. RoundedSigned(Discount(r), Worth(r)) \in Int
          BY <4>1, <4>2, <4>4, RoundedSignedIsInteger
        <5> QED BY <5>1, <5>3, <5>4 DEF Indication
      <4> QED BY <4>3, <4>4
    <3> QED BY <3>3, <3>4
  <2>3. CASE r \in CostRequest
    <3>1. indication = CostApproach(r)
      BY <2>3 DEF IndicationIsComputed, CostRequest
    <3>2. CASE indication = Declined
      BY <3>2 DEF Indication
    <3>3. CASE indication # Declined
      <4> DEFINE new == r.area * r.rate
                 total == TotalDepreciation(r)
                 standing == new * (Whole - total)
      <4>1. /\ CausesAreDefensible(r) /\ r.land \in Nat /\ r.area \in Nat /\ r.rate \in Nat
            /\ indication = [code |-> "indicated",
                             value |-> Rounded(r.land * Whole + standing, Whole),
                             depreciation |-> total, building |-> Rounded(standing, Whole),
                             new |-> new]
        <5>1. ~(\/ ~AgeIsUsable(r) \/ ~CausesAreDefensible(r)
                \/ r.land < 0 \/ r.area <= 0 \/ r.rate <= 0 \/ ~r.reasoned)
          BY <3>1, <3>3 DEF CostApproach
        <5>2. r.land \in Int /\ r.area \in Int /\ r.rate \in Int
          BY <2>3 DEF CostRequest
        <5>3. indication = [code |-> "indicated",
                            value |-> Rounded(r.land * Whole + standing, Whole),
                            depreciation |-> total, building |-> Rounded(standing, Whole),
                            new |-> new]
          BY <3>1, <5>1 DEF CostApproach
        <5> HIDE DEF r, total, standing, new
        <5> QED BY <5>1, <5>2, <5>3
      <4>2. total \in 0 .. Whole
        BY <2>3, <4>1, DepreciationBounds
      <4>3. new \in Nat
        BY <4>1
      <4> HIDE DEF new, total
      <4>4. standing \in Nat
        <5>1. Whole - total \in Nat
          BY <4>2, WholeAssumption
        <5> QED BY <4>3, <5>1
      <4> HIDE DEF standing
      <4>5. r.land * Whole + standing \in Nat
        BY <4>1, <4>4, WholeAssumption
      <4>6. Rounded(standing, Whole) \in Nat
        BY <4>4, RoundedBounds, WholeAssumption
      <4>7. Rounded(r.land * Whole + standing, Whole) \in Nat
        BY <4>5, RoundedBounds, WholeAssumption
      <4> QED BY <4>1, <4>2, <4>3, <4>6, <4>7 DEF Indication
    <3> QED BY <3>2, <3>3
  <2> QED BY <2>1, <2>2, <2>3 DEF IndicationIsComputed
<1> QED BY <1>1, IndicationIsComputedAlways, PTL

-------------------------------------------------------------------------------
LEMMA HalfEvenIsWhole ==
    ASSUME NEW n \in Int, NEW d \in Nat \ {0}
    PROVE  HalfEven(n, d) \in Int /\ (n >= 0 => HalfEven(n, d) \in Nat)
<1>1. n \div d \in Int /\ (n >= 0 => n \div d \in Nat)
  BY QuotientBounds
<1> DEFINE half == 2 * (n % d)
           odd == (n \div d) % 2
<1>2. HalfEven(n, d) = n \div d + IF half > d \/ (half = d /\ odd = 1) THEN 1 ELSE 0
  BY DEF HalfEven
<1> HIDE DEF half, odd
<1> QED BY <1>1, <1>2

(* What a lease brings in a year, and the years it has left.               *)
LEMMA LeaseAmounts ==
    ASSUME NEW l \in Lease
    PROVE  /\ MonthlyRent(l) \in Int
           /\ AnnualRent(l) \in Int
           /\ l.rent >= 0 => AnnualRent(l) \in Nat
           /\ AnnualRent(l) = 12 * MonthlyRent(l)
           /\ UnexpiredYears(l) \in Nat
<1>1. l.rent \in Int
  BY DEF Lease
<1>2. MonthlyRent(l) \in Int /\ (l.rent >= 0 => MonthlyRent(l) \in Nat)
  BY <1>1, HalfEvenIsWhole, RentPartsAssumption DEF MonthlyRent
<1>3. /\ AnnualRent(l) \in Int /\ AnnualRent(l) = 12 * MonthlyRent(l)
      /\ l.rent >= 0 => AnnualRent(l) \in Nat
  BY <1>2 DEF AnnualRent
<1>4. DaysRemaining(l) \in Nat
  BY DEF DaysRemaining, Lease
<1>5. 4 * DaysRemaining(l) * 10000 \in Nat
  BY <1>4
<1>6. UnexpiredYears(l) = Rounded(4 * DaysRemaining(l) * 10000, 1461)
  <2> DEFINE n == 4 * DaysRemaining(l) * 10000
  <2>1. n \in Nat /\ UnexpiredYears(l) = RoundedSigned(n, 1461)
    BY <1>5 DEF UnexpiredYears
  <2> HIDE DEF n
  <2>2. RoundedSigned(n, 1461) = Rounded(n, 1461)
    BY <2>1 DEF RoundedSigned
  <2> QED BY <2>1, <2>2 DEF n
<1> QED BY <1>2, <1>3, <1>5, <1>6, RoundedBounds

(* What a lease's band says of its term.                                   *)
LEMMA BandOfTerm ==
    ASSUME NEW l \in Lease
    PROVE  /\ Band(l) \in Bands
           /\ Band(l) = "less_than_1_yr" => UnexpiredYears(l) <= 10000
           /\ Band(l) = "1_to_3_yrs" => 10000 <= UnexpiredYears(l) /\ UnexpiredYears(l) <= 30000
           /\ Band(l) = "3_to_5_yrs" => 30000 <= UnexpiredYears(l) /\ UnexpiredYears(l) <= 50000
           /\ Band(l) = "more_than_5_yrs" => 50000 <= UnexpiredYears(l)
  BY LeaseAmounts DEF Band, Bands

-------------------------------------------------------------------------------
Rents == [i \in DOMAIN roll |-> AnnualRent(roll[i])]
Terms == [i \in DOMAIN roll |-> UnexpiredYears(roll[i]) * AnnualRent(roll[i])]

(* The parts of a sum over leases, by the year they run out in.            *)
LEMMA ByBand ==
    ASSUME roll \in Seq(Lease), NEW f, \A i \in DOMAIN roll : f[i] \in Int
    PROVE  /\ \A band \in Bands : SumFunctionOnSet(f, Leases(band)) \in Int
           /\ SumFunctionOnSet(f, DOMAIN roll) =
                SumFunctionOnSet(f, Leases("less_than_1_yr")) + SumFunctionOnSet(f, Leases("1_to_3_yrs"))
                + SumFunctionOnSet(f, Leases("3_to_5_yrs")) + SumFunctionOnSet(f, Leases("more_than_5_yrs"))
<1> DEFINE All == DOMAIN roll
           A == Leases("less_than_1_yr")
           B == Leases("1_to_3_yrs")
           C == Leases("3_to_5_yrs")
           D == Leases("more_than_5_yrs")
<1>1. IsFiniteSet(All)
  BY FS_Interval
<1>2. \A band \in Bands : Leases(band) \in SUBSET All
  BY DEF Leases
<1>3. \A i \in All : Band(roll[i]) \in Bands
  BY BandOfTerm
<1>4. /\ A \in SUBSET All /\ B \in SUBSET (All \ A) /\ C \in SUBSET ((All \ A) \ B)
      /\ D = ((All \ A) \ B) \ C
  BY <1>3 DEF Leases, Bands
<1>5. \A T \in SUBSET All : IsFiniteSet(T) /\ (\A i \in T : f[i] \in Int)
                              /\ SumFunctionOnSet(f, T) \in Int
  BY <1>1, FS_Subset, SumInt
<1> HIDE DEF All, A, B, C, D
<1>6. SumFunctionOnSet(f, All) = SumFunctionOnSet(f, A) + SumFunctionOnSet(f, All \ A)
  BY <1>1, <1>4, <1>5, SumUnion
<1>7. SumFunctionOnSet(f, All \ A) = SumFunctionOnSet(f, B) + SumFunctionOnSet(f, (All \ A) \ B)
  BY <1>4, <1>5, SumUnion
<1>8. SumFunctionOnSet(f, (All \ A) \ B) = SumFunctionOnSet(f, C) + SumFunctionOnSet(f, D)
  BY <1>4, <1>5, SumUnion
<1>9. D \in SUBSET All /\ (All \ A) \ B \in SUBSET All /\ All \ A \in SUBSET All
      /\ C \in SUBSET All /\ B \in SUBSET All
  BY <1>4
<1>10. SumFunctionOnSet(f, All) = SumFunctionOnSet(f, A) + SumFunctionOnSet(f, B) + SumFunctionOnSet(f, C) + SumFunctionOnSet(f, D)
  BY <1>4, <1>5, <1>6, <1>7, <1>8, <1>9
<1> QED BY <1>2, <1>5, <1>10 DEF All, A, B, C, D

(* What is summed, whatever the rents, ...                                 *)
LEMMA AmountsOfAnyRent ==
    ASSUME roll \in Seq(Lease)
    PROVE  /\ IsFiniteSet(DOMAIN roll)
           /\ \A i \in DOMAIN roll : Rents[i] = AnnualRent(roll[i]) /\ Rents[i] \in Int
           /\ \A T \in SUBSET DOMAIN roll : RentOf(T) = SumFunctionOnSet(Rents, T) /\ RentOf(T) \in Int
<1>1. IsFiniteSet(DOMAIN roll)
  BY FS_Interval
<1>2. \A i \in DOMAIN roll : Rents[i] = AnnualRent(roll[i]) /\ Rents[i] \in Int
  BY LeaseAmounts DEF Rents
<1>3. ASSUME NEW T \in SUBSET DOMAIN roll
      PROVE  RentOf(T) = SumFunctionOnSet(Rents, T) /\ RentOf(T) \in Int
  <2> DEFINE here == [i \in T |-> AnnualRent(roll[i])]
  <2>1. RentOf(T) = SumFunctionOnSet(here, T)
    BY DEF RentOf, SumFunction
  <2>2. IsFiniteSet(T)
    BY <1>1, FS_Subset
  <2>3. \A i \in T : here[i] = Rents[i] /\ Rents[i] \in Int
    BY <1>2
  <2> HIDE DEF here
  <2>4. SumFunctionOnSet(here, T) = SumFunctionOnSet(Rents, T)
    BY <2>2, <2>3, SumSame
  <2>5. SumFunctionOnSet(Rents, T) \in Int
    BY <2>2, <2>3, SumInt
  <2> QED BY <2>1, <2>4, <2>5
<1> QED BY <1>1, <1>2, <1>3

(* ... and where none is below zero.                                       *)
LEMMA Amounts ==
    ASSUME roll \in Seq(Lease), NoRentIsNegative
    PROVE  /\ IsFiniteSet(DOMAIN roll)
           /\ \A i \in DOMAIN roll : Rents[i] \in Nat /\ Terms[i] \in Nat
           /\ \A i \in DOMAIN roll : Rents[i] = AnnualRent(roll[i])
           /\ \A T \in SUBSET DOMAIN roll : RentOf(T) = SumFunctionOnSet(Rents, T) /\ RentOf(T) \in Nat
           /\ TermsByRent = SumFunctionOnSet(Terms, DOMAIN roll)
           /\ TermsByRent \in Nat
<1>1. IsFiniteSet(DOMAIN roll)
  BY FS_Interval
<1>2. \A i \in DOMAIN roll : Rents[i] = AnnualRent(roll[i]) /\ Rents[i] \in Nat
  BY LeaseAmounts DEF Rents, NoRentIsNegative
<1>3. \A i \in DOMAIN roll : Terms[i] \in Nat
  <2> SUFFICES ASSUME NEW i \in DOMAIN roll PROVE Terms[i] \in Nat
    OBVIOUS
  <2> DEFINE years == UnexpiredYears(roll[i])
             rent == AnnualRent(roll[i])
  <2>1. years \in Nat /\ rent \in Nat /\ Terms[i] = years * rent
    BY LeaseAmounts DEF Terms, NoRentIsNegative
  <2> HIDE DEF years, rent
  <2> QED BY <2>1
<1>4. ASSUME NEW T \in SUBSET DOMAIN roll
      PROVE  RentOf(T) = SumFunctionOnSet(Rents, T) /\ RentOf(T) \in Nat
  <2>1. IsFiniteSet(T) /\ \A i \in T : Rents[i] \in Nat
    BY <1>1, <1>2, FS_Subset
  <2>2. SumFunctionOnSet(Rents, T) \in Nat
    BY <2>1, SumNat
  <2> QED BY <2>2, AmountsOfAnyRent
<1>5. TermsByRent = SumFunctionOnSet(Terms, DOMAIN roll)
  BY DEF TermsByRent, SumFunction, Terms
<1>6. SumFunctionOnSet(Terms, DOMAIN roll) \in Nat
  BY <1>1, <1>3, SumNat
<1> QED BY <1>1, <1>2, <1>3, <1>4, <1>5, <1>6

(* The average, to its rounding.                                           *)
LEMMA AverageTerm ==
    ASSUME roll \in Seq(Lease), NoRentIsNegative
    PROVE  /\ Wault \in Nat
           /\ 200 * (RentOf(DOMAIN roll) * Wault) <= 2 * TermsByRent + 100 * RentOf(DOMAIN roll)
           /\ 2 * TermsByRent <= 200 * (RentOf(DOMAIN roll) * Wault) + 100 * RentOf(DOMAIN roll)
           /\ RentOf(DOMAIN roll) > 0 =>
                2 * TermsByRent < 200 * (RentOf(DOMAIN roll) * Wault) + 100 * RentOf(DOMAIN roll)
<1> DEFINE rent == RentOf(DOMAIN roll)
           terms == TermsByRent
<1>1. rent \in Nat /\ terms \in Nat
  BY Amounts
<1>2. CASE rent > 0
  <2> DEFINE w == Rounded(terms, 100 * rent)
  <2>1. Wault = w
    <3>1. Wault = RoundedSigned(terms, 100 * rent)
      BY <1>2 DEF Wault
    <3> HIDE DEF rent, terms
    <3>2. RoundedSigned(terms, 100 * rent) = Rounded(terms, 100 * rent)
      BY <1>1, <1>2 DEF RoundedSigned
    <3> QED BY <3>1, <3>2
  <2> HIDE DEF rent, terms
  <2>2. 100 * rent \in Nat \ {0}
    BY <1>1, <1>2
  <2>3. /\ w \in Nat
        /\ 2 * (100 * rent) * w <= 2 * terms + 100 * rent
        /\ 2 * terms < 2 * (100 * rent) * w + 100 * rent
    BY <1>1, <2>2, RoundedBounds
  <2> HIDE DEF w
  <2>4. 2 * (100 * rent) * w = 200 * (rent * w)
    BY <1>1, <2>3
  <2> QED BY <1>1, <2>1, <2>3, <2>4 DEF rent, terms
<1>3. CASE rent = 0
  <2>1. Wault = 0
    BY <1>3 DEF Wault
  <2>2. terms = 0
    <3>1. \A i \in DOMAIN roll : Rents[i] <= 0
      <4> SUFFICES ASSUME NEW i \in DOMAIN roll PROVE Rents[i] <= 0
        OBVIOUS
      <4>1. SumFunctionOnSet(Rents, DOMAIN roll) = Rents[i] + SumFunctionOnSet(Rents, DOMAIN roll \ {i})
        <5>1. IsFiniteSet(DOMAIN roll) /\ \A j \in DOMAIN roll : Rents[j] \in Int
          BY Amounts
        <5> QED BY <5>1, SumRemove
      <4>2. RentOf(DOMAIN roll) = SumFunctionOnSet(Rents, DOMAIN roll)
            /\ SumFunctionOnSet(Rents, DOMAIN roll \ {i}) \in Nat /\ Rents[i] \in Nat
        BY Amounts
      <4> QED BY <1>3, <4>1, <4>2
    <3>2. \A i \in DOMAIN roll : Terms[i] = 0
      <4> SUFFICES ASSUME NEW i \in DOMAIN roll PROVE Terms[i] = 0
        OBVIOUS
      <4>1. AnnualRent(roll[i]) = 0 /\ UnexpiredYears(roll[i]) \in Nat
        <5>1. Rents[i] = AnnualRent(roll[i]) /\ Rents[i] <= 0
          BY <3>1, Amounts
        <5>2. AnnualRent(roll[i]) \in Nat /\ UnexpiredYears(roll[i]) \in Nat
          BY LeaseAmounts DEF NoRentIsNegative
        <5> QED BY <5>1, <5>2
      <4> QED BY <4>1 DEF Terms
    <3>3. SumFunctionOnSet(Terms, DOMAIN roll) = 0 * Cardinality(DOMAIN roll)
      BY <3>2, Amounts, SumConstant
    <3>4. Cardinality(DOMAIN roll) \in Nat
      BY Amounts, FS_CardinalityType
    <3> QED BY <3>3, <3>4, Amounts
  <2> QED BY <1>3, <2>1, <2>2
<1> QED BY <1>1, <1>2, <1>3

(* Leases whose terms are all so long, where they bring in anything.       *)
LEMMA TermsAtLeast ==
    ASSUME roll \in Seq(Lease), NoRentIsNegative, NEW T \in SUBSET DOMAIN roll, NEW c \in Nat,
           \A i \in T : AnnualRent(roll[i]) > 0 => c <= UnexpiredYears(roll[i])
    PROVE  c * RentOf(T) <= SumFunctionOnSet(Terms, T)
<1> DEFINE least == [i \in T |-> c * Rents[i]]
<1>1. IsFiniteSet(T) /\ \A i \in T : Rents[i] \in Nat /\ Terms[i] \in Nat
  BY Amounts, FS_Subset
<1>2. \A i \in T : least[i] \in Int /\ least[i] <= Terms[i]
  <2> SUFFICES ASSUME NEW i \in T PROVE least[i] \in Int /\ least[i] <= Terms[i]
    OBVIOUS
  <2> DEFINE years == UnexpiredYears(roll[i])
             rent == AnnualRent(roll[i])
  <2>1. years \in Nat /\ rent \in Nat
    BY LeaseAmounts DEF NoRentIsNegative
  <2>2. least[i] = c * rent /\ Terms[i] = years * rent
    BY Amounts DEF Terms
  <2>3. rent = 0 \/ c <= years
    BY <2>1
  <2> HIDE DEF years, rent, least
  <2>4. c * rent <= years * rent
    BY <2>1, <2>3, ProductMonotone
  <2> QED BY <2>1, <2>2, <2>4
<1>3. SumFunctionOnSet(least, T) <= SumFunctionOnSet(Terms, T)
  <2> HIDE DEF least
  <2> QED BY <1>1, <1>2, SumMonotone
<1>4. SumFunctionOnSet(least, T) = c * SumFunctionOnSet(Rents, T)
  <2>1. \A i \in T : Rents[i] \in Int /\ least[i] = c * Rents[i]
    BY <1>1
  <2> HIDE DEF least
  <2> QED BY <1>1, <2>1, SumTimes
<1> QED BY <1>3, <1>4, Amounts

LEMMA TermsAtMost ==
    ASSUME roll \in Seq(Lease), NoRentIsNegative, NEW T \in SUBSET DOMAIN roll, NEW c \in Nat,
           \A i \in T : AnnualRent(roll[i]) > 0 => UnexpiredYears(roll[i]) <= c
    PROVE  SumFunctionOnSet(Terms, T) <= c * RentOf(T)
<1> DEFINE most == [i \in T |-> c * Rents[i]]
<1>1. IsFiniteSet(T) /\ \A i \in T : Rents[i] \in Nat /\ Terms[i] \in Nat
  BY Amounts, FS_Subset
<1>2. \A i \in T : most[i] \in Int /\ Terms[i] <= most[i]
  <2> SUFFICES ASSUME NEW i \in T PROVE most[i] \in Int /\ Terms[i] <= most[i]
    OBVIOUS
  <2> DEFINE years == UnexpiredYears(roll[i])
             rent == AnnualRent(roll[i])
  <2>1. years \in Nat /\ rent \in Nat
    BY LeaseAmounts DEF NoRentIsNegative
  <2>2. most[i] = c * rent /\ Terms[i] = years * rent
    BY Amounts DEF Terms
  <2>3. rent = 0 \/ years <= c
    BY <2>1
  <2> HIDE DEF years, rent, most
  <2>4. years * rent <= c * rent
    BY <2>1, <2>3, ProductMonotone
  <2> QED BY <2>1, <2>2, <2>4
<1>3. SumFunctionOnSet(Terms, T) <= SumFunctionOnSet(most, T)
  <2> HIDE DEF most
  <2> QED BY <1>1, <1>2, SumMonotone
<1>4. SumFunctionOnSet(most, T) = c * SumFunctionOnSet(Rents, T)
  <2>1. \A i \in T : Rents[i] \in Int /\ most[i] = c * Rents[i]
    BY <1>1
  <2> HIDE DEF most
  <2> QED BY <1>1, <2>1, SumTimes
<1> QED BY <1>3, <1>4, Amounts

(* Every lease in one band, every rupee too.                               *)
LEMMA ProfileIsWhole ==
    ASSUME roll \in Seq(Lease)
    PROVE  /\ \A band \in Bands : Cardinality(Leases(band)) \in Nat
           /\ Cardinality(Leases("less_than_1_yr")) + Cardinality(Leases("1_to_3_yrs"))
                + Cardinality(Leases("3_to_5_yrs")) + Cardinality(Leases("more_than_5_yrs"))
                = Len(roll)
           /\ RentOf(DOMAIN roll) =
                12 * SumFunction([i \in DOMAIN roll |-> MonthlyRent(roll[i])])
<1> DEFINE ones == [i \in DOMAIN roll |-> 1]
           months == [i \in DOMAIN roll |-> MonthlyRent(roll[i])]
<1>1. \A T \in SUBSET DOMAIN roll : SumFunctionOnSet(ones, T) = Cardinality(T) /\ Cardinality(T) \in Nat
  <2> SUFFICES ASSUME NEW T \in SUBSET DOMAIN roll
               PROVE  SumFunctionOnSet(ones, T) = Cardinality(T) /\ Cardinality(T) \in Nat
    OBVIOUS
  <2>1. IsFiniteSet(T) /\ Cardinality(T) \in Nat
    BY AmountsOfAnyRent, FS_Subset, FS_CardinalityType
  <2> DEFINE one == 1
  <2>2. one \in Int /\ \A i \in T : ones[i] = one
    OBVIOUS
  <2> HIDE DEF ones, one
  <2>3. SumFunctionOnSet(ones, T) = one * Cardinality(T)
    BY <2>1, <2>2, SumConstant
  <2> QED BY <2>1, <2>3 DEF one
<1>2. /\ \A band \in Bands : SumFunctionOnSet(ones, Leases(band)) \in Int
      /\ SumFunctionOnSet(ones, DOMAIN roll) =
           SumFunctionOnSet(ones, Leases("less_than_1_yr")) + SumFunctionOnSet(ones, Leases("1_to_3_yrs"))
           + SumFunctionOnSet(ones, Leases("3_to_5_yrs")) + SumFunctionOnSet(ones, Leases("more_than_5_yrs"))
  <2>1. \A i \in DOMAIN roll : ones[i] \in Int
    OBVIOUS
  <2> HIDE DEF ones
  <2> QED BY <2>1, ByBand
<1>3. \A band \in Bands : Leases(band) \in SUBSET DOMAIN roll
  BY DEF Leases
<1>4. Cardinality(DOMAIN roll) = Len(roll)
  <2> DEFINE n == Len(roll)
  <2>1. DOMAIN roll = 1 .. n /\ n \in Nat
    OBVIOUS
  <2> HIDE DEF n
  <2>2. Cardinality(1 .. n) = IF 1 > n THEN 0 ELSE n - 1 + 1
    BY <2>1, FS_Interval
  <2>3. Cardinality(DOMAIN roll) = n
    BY <2>1, <2>2
  <2> QED BY <2>3 DEF n
<1>5. RentOf(DOMAIN roll) =
        12 * SumFunction([i \in DOMAIN roll |-> MonthlyRent(roll[i])])
  <2>1. SumFunction([i \in DOMAIN roll |-> MonthlyRent(roll[i])]) = SumFunctionOnSet(months, DOMAIN roll)
    BY DEF SumFunction
  <2>2. \A i \in DOMAIN roll : months[i] \in Int /\ Rents[i] = 12 * months[i]
    BY LeaseAmounts DEF Rents
  <2> HIDE DEF months
  <2>3. SumFunctionOnSet(Rents, DOMAIN roll) = 12 * SumFunctionOnSet(months, DOMAIN roll)
    BY <2>2, AmountsOfAnyRent, SumTimes
  <2> QED BY <2>1, <2>3, AmountsOfAnyRent
<1> HIDE DEF ones
<1>6. \A band \in Bands : Cardinality(Leases(band)) \in Nat
  BY <1>1, <1>3
<1>7. {"less_than_1_yr", "1_to_3_yrs", "3_to_5_yrs", "more_than_5_yrs"} \subseteq Bands
  BY DEF Bands
<1>8. \A band \in Bands : SumFunctionOnSet(ones, Leases(band)) = Cardinality(Leases(band))
  BY <1>1, <1>3
<1>9. SumFunctionOnSet(ones, DOMAIN roll) = Len(roll)
  BY <1>1, <1>4
<1> QED BY <1>2, <1>5, <1>6, <1>7, <1>8, <1>9

(* What is answered is what was computed of the leases.                    *)
RollIsComputed ==
    /\ roll \in Seq(Lease)
    /\ rentRoll # None =>
         rentRoll =
           [leases |-> Len(roll),
            monthly |-> SumFunction([i \in DOMAIN roll |-> MonthlyRent(roll[i])]),
            annual |-> RentOf(DOMAIN roll),
            wault |-> Wault,
            profile |-> [band \in Bands |->
                           [count |-> Cardinality(Leases(band)),
                            annual |-> RentOf(Leases(band))]]]

LEMMA RollIsComputedAlways == RentRollSpec => []RollIsComputed
<1>1. RentRollInit => RollIsComputed
  BY RollsAssumption DEF RentRollInit, RollIsComputed
<1>2. RollIsComputed /\ [ComputeRentRoll]_rentRollVars => RollIsComputed'
  <2> SUFFICES ASSUME RollIsComputed, [ComputeRentRoll]_rentRollVars
               PROVE  RollIsComputed'
    OBVIOUS
  <2>1. roll' = roll
    BY DEF ComputeRentRoll, rentRollVars
  <2>2. CASE ComputeRentRoll
    BY <2>1, <2>2 DEF ComputeRentRoll, RollIsComputed, RentOf, Wault, TermsByRent, Leases
  <2>3. CASE UNCHANGED rentRollVars
    BY <2>3 DEF rentRollVars, RollIsComputed, RentOf, Wault, TermsByRent, Leases
  <2> QED BY <2>2, <2>3
<1> QED BY <1>1, <1>2, PTL DEF RentRollSpec

(* A term whose hundredths are above the average is above it itself.       *)
LEMMA AboveAverage ==
    ASSUME NEW years \in Nat, NEW w \in Nat
    PROVE  /\ Rounded(years, 100) \in Nat
           /\ w < Rounded(years, 100) => 100 * w + 50 <= years
           /\ Rounded(years, 100) < w => years + 51 <= 100 * w
<1> DEFINE q == Rounded(years, 100)
<1>1. q \in Nat /\ 200 * q <= 2 * years + 100 /\ 2 * years < 200 * q + 100
  BY RoundedBounds
<1> HIDE DEF q
<1>2. /\ w < q => 100 * w + 50 <= years
      /\ q < w => years + 51 <= 100 * w
  BY <1>1
<1> QED BY <1>1, <1>2 DEF q

(* The rent of all leases is the rent of the four bands.                   *)
LEMMA RentByBand ==
    ASSUME roll \in Seq(Lease)
    PROVE  RentOf(DOMAIN roll) =
             RentOf(Leases("less_than_1_yr")) + RentOf(Leases("1_to_3_yrs"))
             + RentOf(Leases("3_to_5_yrs")) + RentOf(Leases("more_than_5_yrs"))
<1>1. \A i \in DOMAIN roll : Rents[i] \in Int
  BY AmountsOfAnyRent
<1>2. SumFunctionOnSet(Rents, DOMAIN roll) =
        SumFunctionOnSet(Rents, Leases("less_than_1_yr")) + SumFunctionOnSet(Rents, Leases("1_to_3_yrs"))
        + SumFunctionOnSet(Rents, Leases("3_to_5_yrs")) + SumFunctionOnSet(Rents, Leases("more_than_5_yrs"))
  BY <1>1, ByBand
<1>3. \A band \in Bands : Leases(band) \in SUBSET DOMAIN roll
  BY DEF Leases
<1>4. {"less_than_1_yr", "1_to_3_yrs", "3_to_5_yrs", "more_than_5_yrs"} \subseteq Bands
  BY DEF Bands
<1> QED BY <1>2, <1>3, <1>4, AmountsOfAnyRent

(* Where no rent is below zero, the average term fits the bands, and lies  *)
(* between the terms of leases that pay.                                   *)
LEMMA AverageFits ==
    ASSUME roll \in Seq(Lease), NoRentIsNegative
    PROVE  LET a == RentOf(Leases("less_than_1_yr"))
               b == RentOf(Leases("1_to_3_yrs"))
               c == RentOf(Leases("3_to_5_yrs"))
               d == RentOf(Leases("more_than_5_yrs"))
               all == RentOf(DOMAIN roll)
               paying == {i \in DOMAIN roll : AnnualRent(roll[i]) > 0}
           IN  /\ paying # {} =>
                    /\ \E i \in paying : Rounded(UnexpiredYears(roll[i]), 100) <= Wault
                    /\ \E i \in paying : Rounded(UnexpiredYears(roll[i]), 100) >= Wault
               /\ 200 * (b + 3 * c + 5 * d) <= 2 * Wault * all + all
               /\ d = 0 => 2 * Wault * all - all <= 200 * (a + 3 * b + 5 * c)
<1> DEFINE a == RentOf(Leases("less_than_1_yr"))
           b == RentOf(Leases("1_to_3_yrs"))
           c == RentOf(Leases("3_to_5_yrs"))
           d == RentOf(Leases("more_than_5_yrs"))
           all == RentOf(DOMAIN roll)
           w == Wault
           terms == TermsByRent
           paying == {i \in DOMAIN roll : AnnualRent(roll[i]) > 0}
<1>1. roll \in Seq(Lease) /\ NoRentIsNegative
  OBVIOUS
<1>2. {"less_than_1_yr", "1_to_3_yrs", "3_to_5_yrs", "more_than_5_yrs"} \subseteq Bands
  BY DEF Bands
<1>3. \A band \in Bands : Leases(band) \in SUBSET DOMAIN roll
  BY DEF Leases
<1>4. /\ a \in Nat /\ b \in Nat /\ c \in Nat /\ d \in Nat /\ all \in Nat
      /\ terms \in Nat
  BY <1>1, <1>2, <1>3, Amounts
<1>5. /\ w \in Nat
      /\ 200 * (all * w) <= 2 * terms + 100 * all
      /\ 2 * terms <= 200 * (all * w) + 100 * all
      /\ all > 0 => 2 * terms < 200 * (all * w) + 100 * all
  BY <1>1, AverageTerm
<1>6. /\ 10000 * (b + 3 * c + 5 * d) <= terms
      /\ d = 0 => terms <= 10000 * (a + 3 * b + 5 * c)
  <2> DEFINE ta == SumFunctionOnSet(Terms, Leases("less_than_1_yr"))
             tb == SumFunctionOnSet(Terms, Leases("1_to_3_yrs"))
             tc == SumFunctionOnSet(Terms, Leases("3_to_5_yrs"))
             td == SumFunctionOnSet(Terms, Leases("more_than_5_yrs"))
  <2>1. /\ ta \in Int /\ tb \in Int /\ tc \in Int /\ td \in Int
        /\ terms = ta + tb + tc + td
    <3>1. \A i \in DOMAIN roll : Terms[i] \in Int
      BY <1>1, Amounts
    <3>2. terms = SumFunctionOnSet(Terms, DOMAIN roll)
      BY <1>1, Amounts
    <3> HIDE DEF terms
    <3> QED BY <1>1, <1>2, <3>1, <3>2, ByBand
  <2>2. \A band \in Bands : \A i \in Leases(band) : roll[i] \in Lease /\ Band(roll[i]) = band
    BY <1>1 DEF Leases
  <2>3. 0 <= ta /\ ta <= 10000 * a
    <3>1. \A i \in Leases("less_than_1_yr") : UnexpiredYears(roll[i]) <= 10000
      BY <1>2, <2>2, BandOfTerm
    <3>2. ta <= 10000 * a
      BY <1>1, <1>2, <1>3, <3>1, TermsAtMost
    <3>3. \A i \in Leases("less_than_1_yr") : 0 <= UnexpiredYears(roll[i])
      BY <1>2, <2>2, LeaseAmounts
    <3>4. 0 * a <= ta
      BY <1>1, <1>2, <1>3, <3>3, TermsAtLeast
    <3> QED BY <1>4, <3>2, <3>4
  <2>4. 10000 * b <= tb /\ tb <= 30000 * b
    <3>1. \A i \in Leases("1_to_3_yrs") :
            10000 <= UnexpiredYears(roll[i]) /\ UnexpiredYears(roll[i]) <= 30000
      BY <1>2, <2>2, BandOfTerm
    <3>2. tb <= 30000 * b
      BY <1>1, <1>2, <1>3, <3>1, TermsAtMost
    <3>3. 10000 * b <= tb
      BY <1>1, <1>2, <1>3, <3>1, TermsAtLeast
    <3> QED BY <3>2, <3>3
  <2>5. 30000 * c <= tc /\ tc <= 50000 * c
    <3>1. \A i \in Leases("3_to_5_yrs") :
            30000 <= UnexpiredYears(roll[i]) /\ UnexpiredYears(roll[i]) <= 50000
      BY <1>2, <2>2, BandOfTerm
    <3>2. tc <= 50000 * c
      BY <1>1, <1>2, <1>3, <3>1, TermsAtMost
    <3>3. 30000 * c <= tc
      BY <1>1, <1>2, <1>3, <3>1, TermsAtLeast
    <3> QED BY <3>2, <3>3
  <2>6. 50000 * d <= td
    <3>1. \A i \in Leases("more_than_5_yrs") : 50000 <= UnexpiredYears(roll[i])
      BY <1>2, <2>2, BandOfTerm
    <3> QED BY <1>1, <1>2, <1>3, <3>1, TermsAtLeast
  <2>7. d = 0 => td = 0
    <3> SUFFICES ASSUME d = 0 PROVE td = 0
      OBVIOUS
    <3> DEFINE D == Leases("more_than_5_yrs")
    <3>1. D \in SUBSET DOMAIN roll /\ IsFiniteSet(D)
      BY <1>1, <1>2, <1>3, Amounts, FS_Subset
    <3>2. \A i \in D : AnnualRent(roll[i]) = 0
      <4> SUFFICES ASSUME NEW i \in D PROVE AnnualRent(roll[i]) = 0
        OBVIOUS
      <4> HIDE DEF D
      <4>1. \A j \in D : Rents[j] \in Int
        BY <1>1, <3>1, Amounts
      <4>2. RentOf(D) = Rents[i] + RentOf(D \ {i})
        <5>1. SumFunctionOnSet(Rents, D) = Rents[i] + SumFunctionOnSet(Rents, D \ {i})
          BY <3>1, <4>1, SumRemove
        <5>2. D \ {i} \in SUBSET DOMAIN roll
          BY <3>1
        <5> QED BY <1>1, <3>1, <5>1, <5>2, Amounts
      <4>3. RentOf(D) = 0 /\ RentOf(D \ {i}) \in Nat /\ Rents[i] \in Nat
            /\ Rents[i] = AnnualRent(roll[i])
        <5>1. RentOf(D) = 0
          BY DEF D
        <5> QED BY <1>1, <3>1, <5>1, Amounts
      <4> QED BY <4>2, <4>3
    <3>3. td <= 0 * d
      BY <1>1, <3>1, <3>2, TermsAtMost
    <3> QED BY <1>4, <2>1, <2>6, <3>3
  <2> HIDE DEF a, b, c, d, ta, tb, tc, td, terms
  <2> QED BY <1>4, <2>1, <2>3, <2>4, <2>5, <2>6, <2>7
<1>7. paying # {} =>
        /\ \E i \in paying : Rounded(UnexpiredYears(roll[i]), 100) <= w
        /\ \E i \in paying : Rounded(UnexpiredYears(roll[i]), 100) >= w
  <2> SUFFICES ASSUME paying # {}
               PROVE  /\ \E i \in paying : Rounded(UnexpiredYears(roll[i]), 100) <= w
                      /\ \E i \in paying : Rounded(UnexpiredYears(roll[i]), 100) >= w
    OBVIOUS
  <2>1. terms = SumFunctionOnSet(Terms, DOMAIN roll) /\ DOMAIN roll \in SUBSET DOMAIN roll
    BY <1>1, Amounts
  <2>2. all > 0
    <3>1. PICK i \in DOMAIN roll : AnnualRent(roll[i]) > 0
      OBVIOUS
    <3>2. \A j \in DOMAIN roll : Rents[j] \in Int
      BY <1>1, Amounts
    <3>3. all = Rents[i] + RentOf(DOMAIN roll \ {i})
      BY <1>1, <3>2, Amounts, SumRemove
    <3>4. RentOf(DOMAIN roll \ {i}) \in Nat /\ Rents[i] \in Nat
          /\ Rents[i] = AnnualRent(roll[i])
      BY <1>1, Amounts
    <3> QED BY <3>1, <3>3, <3>4
  <2>3. \A i \in DOMAIN roll :
          /\ UnexpiredYears(roll[i]) \in Nat
          /\ Rounded(UnexpiredYears(roll[i]), 100) \in Nat
          /\ w < Rounded(UnexpiredYears(roll[i]), 100) =>
               100 * w + 50 <= UnexpiredYears(roll[i])
          /\ Rounded(UnexpiredYears(roll[i]), 100) < w =>
               UnexpiredYears(roll[i]) + 51 <= 100 * w
    <3> SUFFICES ASSUME NEW i \in DOMAIN roll
                 PROVE  LET years == UnexpiredYears(roll[i])
                            hundredths == Rounded(years, 100)
                        IN  /\ years \in Nat /\ hundredths \in Nat
                            /\ w < hundredths => 100 * w + 50 <= years
                            /\ hundredths < w => years + 51 <= 100 * w
      OBVIOUS
    <3>1. UnexpiredYears(roll[i]) \in Nat /\ w \in Nat
      BY <1>1, <1>5, LeaseAmounts
    <3> HIDE DEF w
    <3> QED BY <3>1, AboveAverage
  <2>4. all * w \in Nat
    BY <1>4, <1>5
  <2>5. \E i \in paying : Rounded(UnexpiredYears(roll[i]), 100) <= w
    <3> SUFFICES ASSUME \A i \in paying : w < Rounded(UnexpiredYears(roll[i]), 100)
                 PROVE  FALSE
      BY <1>5, <2>3
    <3> DEFINE least == 100 * w + 50
    <3>1. least \in Nat
      BY <1>5
    <3>2. \A i \in DOMAIN roll : AnnualRent(roll[i]) > 0 => least <= UnexpiredYears(roll[i])
      BY <2>3
    <3> HIDE DEF least
    <3>3. least * all <= terms
      BY <1>1, <2>1, <3>1, <3>2, TermsAtLeast
    <3>4. least * all = 100 * (all * w) + 50 * all
      BY <1>4, <1>5 DEF least
    <3> HIDE DEF all, w, terms
    <3> QED BY <1>4, <1>5, <2>2, <2>4, <3>3, <3>4
  <2>6. \E i \in paying : Rounded(UnexpiredYears(roll[i]), 100) >= w
    <3> SUFFICES ASSUME \A i \in paying : Rounded(UnexpiredYears(roll[i]), 100) < w
                 PROVE  FALSE
      BY <1>5, <2>3
    <3> DEFINE most == 100 * w - 51
    <3>1. most \in Nat
      BY <1>5, <2>3
    <3>2. \A i \in DOMAIN roll : AnnualRent(roll[i]) > 0 => UnexpiredYears(roll[i]) <= most
      BY <1>5, <2>3
    <3> HIDE DEF most
    <3>3. terms <= most * all
      BY <1>1, <2>1, <3>1, <3>2, TermsAtMost
    <3>4. most * all = 100 * (all * w) - 51 * all
      BY <1>4, <1>5 DEF most
    <3> HIDE DEF all, w, terms
    <3> QED BY <1>4, <1>5, <2>2, <2>4, <3>3, <3>4
  <2> QED BY <2>5, <2>6
<1>8. /\ 200 * (b + 3 * c + 5 * d) <= 2 * w * all + all
      /\ d = 0 => 2 * w * all - all <= 200 * (a + 3 * b + 5 * c)
  <2> HIDE DEF a, b, c, d, all, w, terms
  <2> DEFINE p == all * w
  <2>1. p \in Nat /\ 2 * w * all = 2 * p
    BY <1>4, <1>5
  <2>2. 200 * p <= 2 * terms + 100 * all /\ 2 * terms <= 200 * p + 100 * all
    BY <1>5
  <2> HIDE DEF p
  <2>3. 200 * (b + 3 * c + 5 * d) <= 2 * p + all
    <3> DEFINE x == b + 3 * c + 5 * d
    <3>1. x \in Nat /\ 10000 * x <= terms
      BY <1>4, <1>6
    <3> HIDE DEF x
    <3>2. 200 * x <= 2 * p + all
      BY <1>4, <2>1, <2>2, <3>1
    <3> QED BY <3>2 DEF x
  <2>4. d = 0 => 2 * p - all <= 200 * (a + 3 * b + 5 * c)
    BY <1>4, <1>6, <2>1, <2>2
  <2> QED BY <2>1, <2>3, <2>4
<1> QED BY <1>7, <1>8

(***************************************************************************)
(* The two answers of the rent roll agree, whatever the leases; of the     *)
(* average this is said where no rent is below zero.                       *)
(***************************************************************************)
THEOREM WaultFits == RentRollSpec => []WaultFitsTheProfile
<1>1. RollIsComputed => WaultFitsTheProfile
  <2> SUFFICES ASSUME RollIsComputed, rentRoll # None PROVE WaultFitsTheProfile
    BY DEF WaultFitsTheProfile
  <2> DEFINE w == Wault
  <2>1. roll \in Seq(Lease)
    BY DEF RollIsComputed
  <2>2. /\ rentRoll.leases = Len(roll) /\ rentRoll.annual = RentOf(DOMAIN roll)
        /\ rentRoll.wault = w
        /\ rentRoll.monthly =
             SumFunction([i \in DOMAIN roll |-> MonthlyRent(roll[i])])
        /\ \A band \in Bands :
             /\ rentRoll.profile[band].count = Cardinality(Leases(band))
             /\ rentRoll.profile[band].annual = RentOf(Leases(band))
    BY DEF RollIsComputed
  <2>3. {"less_than_1_yr", "1_to_3_yrs", "3_to_5_yrs", "more_than_5_yrs"} \subseteq Bands
    BY DEF Bands
  <2>4. /\ Cardinality(Leases("less_than_1_yr")) + Cardinality(Leases("1_to_3_yrs"))
             + Cardinality(Leases("3_to_5_yrs")) + Cardinality(Leases("more_than_5_yrs"))
             = rentRoll.leases
        /\ RentOf(Leases("less_than_1_yr")) + RentOf(Leases("1_to_3_yrs"))
             + RentOf(Leases("3_to_5_yrs")) + RentOf(Leases("more_than_5_yrs"))
             = 12 * rentRoll.monthly
    BY <2>1, <2>2, RentByBand, ProfileIsWhole
  <2> HIDE DEF w
  <2>5. CASE NoRentIsNegative
    <3>1. LET a == RentOf(Leases("less_than_1_yr"))
              b == RentOf(Leases("1_to_3_yrs"))
              c == RentOf(Leases("3_to_5_yrs"))
              d == RentOf(Leases("more_than_5_yrs"))
              all == RentOf(DOMAIN roll)
              paying == {i \in DOMAIN roll : AnnualRent(roll[i]) > 0}
          IN  /\ paying # {} =>
                   /\ \E i \in paying : Rounded(UnexpiredYears(roll[i]), 100) <= w
                   /\ \E i \in paying : Rounded(UnexpiredYears(roll[i]), 100) >= w
              /\ 200 * (b + 3 * c + 5 * d) <= 2 * w * all + all
              /\ d = 0 => 2 * w * all - all <= 200 * (a + 3 * b + 5 * c)
      BY <2>1, <2>5, AverageFits DEF w
    <3> QED BY <2>2, <2>3, <2>4, <3>1 DEF WaultFitsTheProfile
  <2>6. CASE ~NoRentIsNegative
    BY <2>2, <2>3, <2>4, <2>6 DEF WaultFitsTheProfile
  <2> QED BY <2>5, <2>6
<1> QED BY <1>1, RollIsComputedAlways, PTL

-------------------------------------------------------------------------------
(* A reply is what was computed of the filing, which never changes.        *)
ReplyIsComputed ==
    /\ filing \in Deed \union Project
    /\ reply # None =>
         /\ filing.by = "deed" =>
              reply = [circle |-> CircleValuation(filing), taxable |-> TaxableValue(filing),
                       dues |-> StatutoryDues(filing)]
         /\ filing.by = "project" => reply = Obligations(filing)

LEMMA ReplyIsComputedInit == ComplianceInit => ReplyIsComputed
  BY FilingsAssumption DEF ComplianceInit, ReplyIsComputed

LEMMA ReplyIsComputedNext == ReplyIsComputed /\ [Comply]_complianceVars => ReplyIsComputed'
<1> SUFFICES ASSUME ReplyIsComputed, [Comply]_complianceVars PROVE ReplyIsComputed'
  OBVIOUS
<1>1. CASE Comply /\ filing.by = "deed"
  BY <1>1 DEF Comply, ReplyIsComputed
<1>2. CASE Comply /\ filing.by = "project"
  BY <1>2 DEF Comply, ReplyIsComputed
<1>3. CASE UNCHANGED complianceVars
  BY <1>3 DEF complianceVars, ReplyIsComputed
<1> QED BY <1>1, <1>2, <1>3 DEF Comply

LEMMA ReplyIsComputedAlways == ComplianceSpec => []ReplyIsComputed
  BY ReplyIsComputedInit, ReplyIsComputedNext, PTL DEF ComplianceSpec

-------------------------------------------------------------------------------
(***************************************************************************)
(* Stamp duty.                                                             *)
(***************************************************************************)
LEMMA RateIsNatural == ASSUME NEW d \in Deed PROVE StampRate(d) \in Nat
<1>1. \A state \in DOMAIN StampRates :
        /\ "default" \in DOMAIN StampRates[state]
        /\ \A gender \in DOMAIN StampRates[state] : StampRates[state][gender] \in Nat
  BY DEF StampRates
<1>2. "maharashtra" \in DOMAIN StampRates
  BY DEF StampRates
<1> QED BY <1>1, <1>2 DEF StampRate

LEMMA AmountsAreNatural ==
    ASSUME NEW d \in Deed
    PROVE  /\ Hundredths(d.consideration) \in Nat
           /\ CircleValuation(d) \in Nat
           /\ TaxableValue(d) \in Nat
<1>1. \A amount \in Nat : Hundredths(amount) \in Nat
  BY RoundedBounds, DeedPartsAssumption DEF Hundredths
<1>2. d.consideration \in Nat /\ d.circleRate \in Nat /\ d.area \in Nat
  BY DEF Deed
<1>3. Hundredths(d.circleRate) * Hundredths(d.area) \in Nat
  BY <1>1, <1>2
<1>4. CircleValuation(d) \in Nat
  BY <1>3, RoundedBounds DEF CircleValuation
<1> QED BY <1>1, <1>2, <1>4 DEF TaxableValue

(* What is owed on a value taxed at a rate, and that more is owed on more. *)
Dues(value, rate) == Rounded(value * rate, 100) + Rounded(value, 100)

LEMMA DuesAreMonotone ==
    ASSUME NEW v \in Nat, NEW w \in Nat, NEW rate \in Nat, v <= w
    PROVE  /\ Dues(v, rate) \in Nat
           /\ Dues(w, rate) \in Nat
           /\ Dues(v, rate) <= Dues(w, rate)
<1>1. v * rate \in Nat /\ w * rate \in Nat /\ v * rate <= w * rate
  BY ProductMonotone
<1>2. \A n \in Nat : Rounded(n, 100) \in Nat
  BY RoundedBounds
<1>3. Rounded(v * rate, 100) <= Rounded(w * rate, 100)
  BY <1>1, RoundedMonotone
<1>4. Rounded(v, 100) <= Rounded(w, 100)
  BY RoundedMonotone
<1>5. /\ Rounded(v * rate, 100) \in Nat /\ Rounded(w * rate, 100) \in Nat
      /\ Rounded(v, 100) \in Nat /\ Rounded(w, 100) \in Nat
  BY <1>1, <1>2
<1> QED BY <1>3, <1>4, <1>5 DEF Dues

LEMMA DuesOf ==
    ASSUME NEW d \in Deed
    PROVE  StatutoryDues(d) = Dues(TaxableValue(d), StampRate(d))
  BY DEF StatutoryDues, StampDutyAmount, RegistrationFee, Dues

(***************************************************************************)
(* The floor rule: under the floor, understating a price saves nothing,    *)
(* and raising it never does.                                              *)
(***************************************************************************)
THEOREM NothingSavedUnderTheFloor == ComplianceSpec => []UnderstatingSavesNothing
<1>1. ReplyIsComputed => UnderstatingSavesNothing
  <2> SUFFICES ASSUME ReplyIsComputed, IsReplied("deed"), NEW other \in Considerations
               PROVE  LET agreed == [filing EXCEPT !.consideration = other]
                          dues == StatutoryDues(agreed)
                      IN  /\ dues < reply.dues =>
                               /\ other < filing.consideration
                               /\ Hundredths(filing.consideration) > reply.circle
                          /\ Hundredths(other) = reply.circle =>
                               /\ dues <= reply.dues
                               /\ Hundredths(filing.consideration) <= reply.circle =>
                                    dues = reply.dues
    BY DEF UnderstatingSavesNothing
  <2> DEFINE agreed == [filing EXCEPT !.consideration = other]
             rate == StampRate(filing)
             floor == CircleValuation(filing)
             mine == Hundredths(filing.consideration)
             theirs == Hundredths(other)
  <2>1. filing \in Deed
    BY DEF ReplyIsComputed, IsReplied, Project
  <2>2. other \in Nat
    BY FilingsAssumption DEF Considerations, Deed, Project
  <2>3. /\ agreed \in Deed /\ agreed.consideration = other
        /\ agreed.circleRate = filing.circleRate /\ agreed.area = filing.area
        /\ agreed.state = filing.state /\ agreed.gender = filing.gender
    BY <2>1, <2>2 DEF Deed
  <2>4. StampRate(agreed) = rate /\ CircleValuation(agreed) = floor
    BY <2>3 DEF StampRate, CircleValuation
  <2>5. /\ mine \in Nat /\ theirs \in Nat /\ floor \in Nat
        /\ TaxableValue(filing) \in Nat /\ TaxableValue(agreed) \in Nat
        /\ rate \in Nat
    BY <2>1, <2>3, AmountsAreNatural, RateIsNatural
  <2>6. /\ TaxableValue(filing) = IF mine >= floor THEN mine ELSE floor
        /\ TaxableValue(agreed) = IF theirs >= floor THEN theirs ELSE floor
    BY <2>3, <2>4 DEF TaxableValue
  <2>7. /\ reply.circle = floor
        /\ reply.dues = Dues(TaxableValue(filing), rate)
        /\ StatutoryDues(agreed) = Dues(TaxableValue(agreed), rate)
    BY <2>1, <2>3, <2>4, DuesOf DEF ReplyIsComputed, IsReplied
  <2>8. filing.consideration \in Nat
    BY <2>1 DEF Deed
  <2>9. filing.consideration <= other => mine <= theirs
    BY <2>2, <2>8, RoundedMonotone, DeedPartsAssumption DEF Hundredths
  <2>10. TaxableValue(filing) <= TaxableValue(agreed) => reply.dues <= StatutoryDues(agreed)
    BY <2>5, <2>7, DuesAreMonotone
  <2>11. TaxableValue(agreed) <= TaxableValue(filing) => StatutoryDues(agreed) <= reply.dues
    BY <2>5, <2>7, DuesAreMonotone
  <2>12. reply.dues \in Nat /\ StatutoryDues(agreed) \in Nat
    BY <2>5, <2>7, DuesAreMonotone
  <2> HIDE DEF agreed, rate, floor, mine, theirs
  <2>13. StatutoryDues(agreed) < reply.dues => other < filing.consideration /\ mine > floor
    BY <2>2, <2>5, <2>6, <2>8, <2>9, <2>10, <2>12
  <2>14. theirs = floor => StatutoryDues(agreed) <= reply.dues
    BY <2>5, <2>6, <2>11
  <2>15. theirs = floor /\ mine <= floor => StatutoryDues(agreed) = reply.dues
    BY <2>5, <2>6, <2>10, <2>11, <2>12
  <2> QED BY <2>7, <2>13, <2>14, <2>15 DEF agreed, floor, mine, theirs
<1> QED BY <1>1, ReplyIsComputedAlways, PTL

-------------------------------------------------------------------------------
(***************************************************************************)
(* The regulator's calendar.                                               *)
(***************************************************************************)
LEMMA DateParts ==
    ASSUME NEW d \in Nat
    PROVE  /\ Year(d) \in Nat
           /\ d % 10000 \in Nat
           /\ d = 10000 * Year(d) + (d % 10000)
  BY DEF Year

(* The days of a return and the day it is due, as numbers.                 *)
LEMMA ObligationDays ==
    ASSUME NEW year \in Nat, NEW q \in DOMAIN QuarterDefs, NEW today \in Nat
    PROVE  LET o == Obligation(year, q, today)
           IN  \/ /\ q = 1 /\ o.start = 10000 * year + 101
                  /\ o.end = 10000 * year + 331 /\ o.due = 10000 * year + 415
               \/ /\ q = 2 /\ o.start = 10000 * year + 401
                  /\ o.end = 10000 * year + 630 /\ o.due = 10000 * year + 715
               \/ /\ q = 3 /\ o.start = 10000 * year + 701
                  /\ o.end = 10000 * year + 930 /\ o.due = 10000 * year + 1015
               \/ /\ q = 4 /\ o.start = 10000 * year + 1001
                  /\ o.end = 10000 * year + 1231 /\ o.due = 10000 * (year + 1) + 115
<1>1. q \in 1 .. 4
  BY DEF QuarterDefs
<1>2. CASE q = 1
  BY <1>2 DEF Obligation, QuarterDefs, In, DueYear
<1>3. CASE q = 2
  BY <1>3 DEF Obligation, QuarterDefs, In, DueYear
<1>4. CASE q = 3
  BY <1>4 DEF Obligation, QuarterDefs, In, DueYear
<1>5. CASE q = 4
  BY <1>5 DEF Obligation, QuarterDefs, In, DueYear
<1> QED BY <1>1, <1>2, <1>3, <1>4, <1>5

LEMMA ObligationTyped ==
    ASSUME NEW year \in Nat, NEW q \in DOMAIN QuarterDefs, NEW today \in Nat
    PROVE  LET o == Obligation(year, q, today)
           IN  o.start \in Nat /\ o.end \in Nat /\ o.due \in Nat
<1>1. QuarterDefs[q][1] \in Nat /\ QuarterDefs[q][2] \in Nat /\ QuarterDefs[q][3] \in Nat
  BY DEF QuarterDefs
<1>2. DueYear(year, q) \in Nat
  BY <1>1 DEF DueYear
<1> QED BY <1>1, <1>2 DEF Obligation, In

LEMMA ObligationStatus ==
    ASSUME NEW year \in Nat, NEW q \in DOMAIN QuarterDefs, NEW today \in Nat,
           Obligation(year, q, today).status = "completed"
    PROVE  Obligation(year, q, today).due < today
  BY DEF Obligation

(* The return of a date is that of its year and of the quarter it lies in. *)
LEMMA DateHasAnObligation ==
    ASSUME NEW day \in Date, NEW today \in Nat
    PROVE  \E q \in DOMAIN QuarterDefs :
               LET o == Obligation(Year(day), q, today)
               IN  o.start <= day /\ day <= o.end
<1>1. PICK q \in DOMAIN QuarterDefs :
          QuarterDefs[q][1] <= day % 10000 /\ day % 10000 <= QuarterDefs[q][2]
  BY DEF Date
<1>2. day \in Nat
  BY DEF Date
<1>3. /\ Year(day) \in Nat /\ day % 10000 \in Nat
      /\ day = 10000 * Year(day) + (day % 10000)
  BY <1>2, DateParts
<1>4. QuarterDefs[q][1] \in Nat /\ QuarterDefs[q][2] \in Nat
  BY DEF QuarterDefs
<1> DEFINE o == Obligation(Year(day), q, today)
<1>5. /\ o.start = 10000 * Year(day) + QuarterDefs[q][1]
      /\ o.end = 10000 * Year(day) + QuarterDefs[q][2]
  BY DEF Obligation, In
<1>6. o.start <= day /\ day <= o.end
  BY <1>1, <1>3, <1>4, <1>5
<1> QED BY <1>6

(* The returns of two quarters share no day, and are due in their order.   *)
LEMMA ObligationsApart ==
    ASSUME NEW y \in Nat, NEW z \in Nat, NEW today \in Nat,
           NEW q \in DOMAIN QuarterDefs, NEW r \in DOMAIN QuarterDefs
    PROVE  LET o == Obligation(y, q, today)
               p == Obligation(z, r, today)
           IN  /\ \A day \in Nat :
                    o.start <= day /\ day <= o.end /\ p.start <= day /\ day <= p.end => o = p
               /\ o.end < o.due
               /\ o.end < p.start => o.due < p.end /\ o.due < p.due
<1> DEFINE o == Obligation(y, q, today)
           p == Obligation(z, r, today)
<1>1. \/ /\ q = 1 /\ o.start = 10000 * y + 101
         /\ o.end = 10000 * y + 331 /\ o.due = 10000 * y + 415
      \/ /\ q = 2 /\ o.start = 10000 * y + 401
         /\ o.end = 10000 * y + 630 /\ o.due = 10000 * y + 715
      \/ /\ q = 3 /\ o.start = 10000 * y + 701
         /\ o.end = 10000 * y + 930 /\ o.due = 10000 * y + 1015
      \/ /\ q = 4 /\ o.start = 10000 * y + 1001
         /\ o.end = 10000 * y + 1231 /\ o.due = 10000 * (y + 1) + 115
  BY ObligationDays
<1>2. \/ /\ r = 1 /\ p.start = 10000 * z + 101
         /\ p.end = 10000 * z + 331 /\ p.due = 10000 * z + 415
      \/ /\ r = 2 /\ p.start = 10000 * z + 401
         /\ p.end = 10000 * z + 630 /\ p.due = 10000 * z + 715
      \/ /\ r = 3 /\ p.start = 10000 * z + 701
         /\ p.end = 10000 * z + 930 /\ p.due = 10000 * z + 1015
      \/ /\ r = 4 /\ p.start = 10000 * z + 1001
         /\ p.end = 10000 * z + 1231 /\ p.due = 10000 * (z + 1) + 115
  BY ObligationDays
<1>3. y = z /\ q = r => o = p
  OBVIOUS
<1> HIDE DEF o, p
<1>4. ASSUME NEW day \in Nat, o.start <= day, day <= o.end, p.start <= day, day <= p.end
      PROVE  y = z /\ q = r
  BY <1>1, <1>2, <1>4
<1>5. o.end < o.due
  BY <1>1
<1>6. o.end < p.start => o.due < p.end /\ o.due < p.due
  BY <1>1, <1>2
<1> QED BY <1>3, <1>4, <1>5, <1>6 DEF o, p

(***************************************************************************)
(* Every day of a project is reported once, in returns that are due in     *)
(* their order, none of them filed before its quarter is over.             *)
(***************************************************************************)
THEOREM NoDayUnreported == ComplianceSpec => []EveryDayIsReported
<1>1. ReplyIsComputed => EveryDayIsReported
  <2> SUFFICES ASSUME ReplyIsComputed, IsReplied("project")
               PROVE  /\ \A day \in Calendar :
                            filing.registered <= day /\ day <= filing.ends =>
                                \E o \in reply : \A p \in reply :
                                    p.start <= day /\ day <= p.end <=> p = o
                      /\ \A o \in reply :
                            /\ o.end < o.due
                            /\ o.status = "completed" =>
                                 o.end < filing.today /\ o.due # filing.today
                      /\ \A o, p \in reply :
                            o.end < p.start => o.due < p.end /\ o.due < p.due
    BY DEF EveryDayIsReported
  <2>1. filing \in Project /\ reply = Obligations(filing)
    BY DEF ReplyIsComputed, IsReplied, Deed
  <2>2. /\ filing.registered \in Nat /\ filing.ends \in Nat /\ filing.today \in Nat
    BY <2>1 DEF Project, Date
  <2>3. ASSUME NEW o \in reply
        PROVE  \E y \in Nat, q \in DOMAIN QuarterDefs :
                   o = Obligation(y, q, filing.today)
    <3>1. Years(filing) \subseteq Nat
      <4>1. Year(filing.registered) \in Nat /\ Year(filing.ends) \in Nat
        BY <2>2 DEF Year
      <4> QED BY <4>1 DEF Years
    <3> QED BY <2>1, <2>3, <3>1 DEF Obligations
  <2>4. ASSUME NEW day \in Calendar, filing.registered <= day, day <= filing.ends
        PROVE  \E o \in reply : \A p \in reply :
                   p.start <= day /\ day <= p.end <=> p = o
    <3>1. day \in Date
      BY FilingsAssumption DEF Calendar, Deed, Project
    <3>2. day \in Nat
      BY <3>1 DEF Date
    <3>3. PICK q \in DOMAIN QuarterDefs :
              /\ Obligation(Year(day), q, filing.today).start <= day
              /\ day <= Obligation(Year(day), q, filing.today).end
      BY <2>2, <3>1, DateHasAnObligation
    <3> DEFINE o == Obligation(Year(day), q, filing.today)
    <3>4. Year(day) \in Years(filing)
      BY <2>2, <2>4, <3>2 DEF Years, Year
    <3>5. Year(day) \in Nat
      BY <3>2, DateParts
    <3>6. o.start \in Nat /\ o.end \in Nat
      BY <3>5, <2>2, ObligationTyped
    <3>7. ~(o.end < filing.registered \/ o.start > filing.ends)
      BY <2>2, <2>4, <3>2, <3>3, <3>6
    <3>8. o \in reply
      BY <2>1, <3>4, <3>7 DEF Obligations
    <3>9. ASSUME NEW p \in reply, p.start <= day, day <= p.end
          PROVE  p = o
      <4>1. PICK z \in Nat, r \in DOMAIN QuarterDefs : p = Obligation(z, r, filing.today)
        BY <2>3, <3>9
      <4> QED BY <4>1, <2>2, <3>2, <3>3, <3>5, <3>9, ObligationsApart
    <3> QED BY <3>3, <3>8, <3>9
  <2>5. ASSUME NEW o \in reply
        PROVE  /\ o.end < o.due
               /\ o.status = "completed" => o.end < filing.today /\ o.due # filing.today
    <3>1. PICK y \in Nat, q \in DOMAIN QuarterDefs : o = Obligation(y, q, filing.today)
      BY <2>3, <2>5
    <3>2. o.end < o.due
      BY <2>2, <3>1, ObligationsApart
    <3>3. o.end \in Nat /\ o.due \in Nat
      BY <2>2, <3>1, ObligationTyped
    <3>4. o.status = "completed" => o.due < filing.today
      BY <2>2, <3>1, ObligationStatus
    <3> QED BY <2>2, <3>2, <3>3, <3>4
  <2>6. ASSUME NEW o \in reply, NEW p \in reply, o.end < p.start
        PROVE  o.due < p.end /\ o.due < p.due
    <3>1. PICK y \in Nat, q \in DOMAIN QuarterDefs : o = Obligation(y, q, filing.today)
      BY <2>3, <2>6
    <3>2. PICK z \in Nat, r \in DOMAIN QuarterDefs : p = Obligation(z, r, filing.today)
      BY <2>3, <2>6
    <3> QED BY <2>2, <2>6, <3>1, <3>2, ObligationsApart
  <2> QED BY <2>4, <2>5, <2>6
<1> QED BY <1>1, ReplyIsComputedAlways, PTL
===============================================================================
