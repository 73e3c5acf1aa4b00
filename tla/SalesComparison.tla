--------------------------- MODULE SalesComparison ----------------------------
(***************************************************************************)
(* The sales comparison approach: build_grid adjusts the comparables one   *)
(* by one or refuses the whole grid, validate_grid judges whether they     *)
(* support a conclusion, conclude reduces them to one value and its range. *)
(* Judging and concluding are separate calls: nothing in conclude asks     *)
(* whether validate_grid was called.                                       *)
(*                                                                         *)
(* Numbers are whole: a rate counts RateScale to the rupee, a value        *)
(* MoneyScale, a percentage PercentScale to the percent; an adjustment is  *)
(* a whole percent.  Quotients are rounded half up where the code          *)
(* quantizes and nowhere else.  Prices are not negative.                   *)
(*                                                                         *)
(* A definition placed before another whose name it extends (TrimmedLow    *)
(* before Trimmed) is that definition with a plausible slip in it; the     *)
(* checks use it to show that the properties notice, no step does.         *)
(***************************************************************************)
EXTENDS Money, Sequences, FiniteSets, Functions

CONSTANTS
    Entries,        \* the comparables a caller may list
    Areas,          \* the subject's area, as given
    MaxComparables, \* bound: comparables in a grid
    MinSample,      \* settings.COMPARABLE_MIN_SAMPLE
    MaxAge,         \* settings.COMPARABLE_MAX_AGE_MONTHS
    MaxRadius,      \* settings.COMPARABLE_RADIUS_M
    MaxSpread,      \* DEFAULT_MAX_SPREAD_PCT
    RateScale, MoneyScale

AdjustmentOrder == <<"time", "location", "tenure", "size", "age",
                     "floor", "frontage", "view", "condition", "distress">>
AdjustmentFactors == {AdjustmentOrder[i] : i \in DOMAIN AdjustmentOrder}

(* Reasoned says whether the rationale has any text.                       *)
Adjustment == [factor : AdjustmentFactors \union {"other"}, pct : Int,
               reasoned : BOOLEAN]

(* Months is the age of the sale at the valuation date.                    *)
Entry == [price : Nat, area : Int, adjustments : Seq(Adjustment),
          months : Nat \union {None}, distance : Nat \union {None}]

AdjustedComparable ==
    [raw : Nat, adjusted : Nat, lines : Seq(Adjustment),
     months : Nat \union {None}, distance : Nat \union {None}]

Statistics == [mean : Nat, trimmed : Nat, low : Nat, high : Nat]
Conclusion == [rate : Nat, value : Nat, low : Nat, high : Nat, raw : Statistics]
Verdicts == {"adequate", "insufficient_comparables", "stale_comparables",
             "distant_comparables", "adjusted_spread_too_wide"}

ASSUME EntriesAssumption == Entries \subseteq Entry /\ Areas \subseteq Int
ASSUME PolicyAssumption ==
    /\ {MinSample, MaxAge, MaxRadius, MaxSpread} \subseteq Nat
    /\ MaxComparables \in Nat
ASSUME ScaleAssumption == {RateScale, MoneyScale, PercentScale} \subseteq Nat \ {0}
ASSUME NoVerdictAssumption == None \notin Nat \union Verdicts

VARIABLES
    grid,       \* the comparables adjusted so far
    refused,    \* whether an entry was
    verdict,    \* what validate_grid said
    conclusion  \* what conclude returned

gridVars == <<grid, refused, verdict, conclusion>>

GridTypeOK ==
    /\ grid \in Seq(AdjustedComparable)
    /\ refused \in BOOLEAN
    /\ verdict \in Verdicts \union {None}
    /\ conclusion \in Conclusion \union {None}

GridInit ==
    /\ grid = << >>
    /\ refused = FALSE
    /\ verdict = None
    /\ conclusion = None

-------------------------------------------------------------------------------
(***************************************************************************)
(* What the constructor of a line, and of a comparable, refuses.           *)
(***************************************************************************)
IndefensibleUpward(a) ==
    a.factor \notin AdjustmentFactors \/ ~a.reasoned \/ a.pct > 50

Indefensible(a) ==
    \/ a.factor \notin AdjustmentFactors
    \/ ~a.reasoned
    \/ a.pct \notin -50 .. 50

Refused(e) ==
    \/ \E i \in DOMAIN e.adjustments : Indefensible(e.adjustments[i])
    \/ e.area <= 0
    \/ \E i, j \in DOMAIN e.adjustments :
         i # j /\ e.adjustments[i].factor = e.adjustments[j].factor

Position(factor) == CHOOSE i \in DOMAIN AdjustmentOrder : AdjustmentOrder[i] = factor

(* sorted(): the k-th is preceded by fewer than k, and is among the first. *)
InOrder(s, key) ==
    [k \in DOMAIN s |->
        s[CHOOSE i \in DOMAIN s :
            /\ Cardinality({j \in DOMAIN s : key[j] < key[i]}) < k
            /\ k <= Cardinality({j \in DOMAIN s : key[j] <= key[i]})]]

Ordered(lines) == InOrder(lines, [i \in DOMAIN lines |-> Position(lines[i].factor)])

(* The lines compound: each restates what the ones before it left.         *)
Compounded(lines) ==
    LET left[n \in 0 .. Len(lines)] ==
            IF n = 0 THEN 1 ELSE left[n - 1] * (100 + lines[n].pct)
    IN  left[Len(lines)]
Base(lines) == Power(100, Len(lines))

Adjusted(e) ==
    LET lines == Ordered(e.adjustments) IN
    [raw |-> Rounded(e.price * RateScale, e.area),
     adjusted |-> Rounded(e.price * RateScale * Compounded(lines), e.area * Base(lines)),
     lines |-> lines, months |-> e.months, distance |-> e.distance]

(***************************************************************************)
(* One turn of build_grid's loop; a refusal anywhere refuses the grid.     *)
(***************************************************************************)
AddComparable(e) ==
    /\ ~refused /\ verdict = None /\ conclusion = None
    /\ Len(grid) < MaxComparables
    /\ \/ Refused(e) /\ refused' = TRUE /\ grid' = << >>
       \/ ~Refused(e) /\ grid' = Append(grid, Adjusted(e)) /\ UNCHANGED refused
    /\ UNCHANGED <<verdict, conclusion>>

-------------------------------------------------------------------------------
AdjustedRates == [i \in DOMAIN grid |-> grid[i].adjusted]
RawRates == [i \in DOMAIN grid |-> grid[i].raw]

LowestRate(rates) == CHOOSE v \in Range(rates) : \A u \in Range(rates) : v <= u
HighestRate(rates) == CHOOSE v \in Range(rates) : \A u \in Range(rates) : v >= u
Sorted(rates) == InOrder(rates, rates)

MeanRateLessOne(rates) ==
    IF Len(rates) = 1 THEN rates[1] ELSE Rounded(SumFunction(rates), Len(rates) - 1)
MeanRate(rates) == Rounded(SumFunction(rates), Len(rates))

(* The middle one, or the middle two.                                      *)
MedianRate(rates) ==
    LET mid == Len(rates) \div 2
        s == Sorted(rates)
    IN  IF Len(rates) % 2 = 1 THEN s[mid + 1] ELSE Rounded(s[mid] + s[mid + 1], 2)

(***************************************************************************)
(* The span of the adjusted rates in percent of their mean, None where     *)
(* there is no such percentage, and who is responsible for it.             *)
(***************************************************************************)
Spread(rates) ==
    LET sum == SumFunction(rates) IN
    IF Len(rates) < 2 \/ sum = 0 THEN None
    ELSE Rounded((HighestRate(rates) - LowestRate(rates)) * Len(rates) * 100 * PercentScale, sum)

Distance(u, v) == IF u < v THEN v - u ELSE u - v

OutliersAtWhole(rates) ==
    LET sum == SumFunction(rates) IN
    {i \in DOMAIN rates : Distance(rates[i] * Len(rates), sum) * 100 > MaxSpread * sum}
(* Beyond half the threshold, exactly.                                     *)
Outliers(rates) ==
    LET sum == SumFunction(rates) IN
    {i \in DOMAIN rates : Distance(rates[i] * Len(rates), sum) * 200 > MaxSpread * sum}

Stale == \E i \in DOMAIN grid : grid[i].months # None /\ grid[i].months > MaxAge
Distant == \E i \in DOMAIN grid : grid[i].distance # None /\ grid[i].distance > MaxRadius
TooWide(rates) == Spread(rates) # None /\ Spread(rates) > MaxSpread * PercentScale

(***************************************************************************)
(* validate_grid, first check that fails.  A grid built from lines always  *)
(* has rationales; the distances are the caller's to give.                 *)
(***************************************************************************)
Verdict(distancesGiven) ==
    CASE Len(grid) < MinSample -> "insufficient_comparables"
      [] Len(grid) >= MinSample /\ Stale -> "stale_comparables"
      [] Len(grid) >= MinSample /\ ~Stale /\ distancesGiven /\ Distant
           -> "distant_comparables"
      [] Len(grid) >= MinSample /\ ~Stale /\ ~(distancesGiven /\ Distant)
           /\ TooWide(AdjustedRates) -> "adjusted_spread_too_wide"
      [] OTHER -> "adequate"

ValidateGrid ==
    /\ ~refused /\ verdict = None /\ conclusion = None
    /\ \E distancesGiven \in BOOLEAN : verdict' = Verdict(distancesGiven)
    /\ UNCHANGED <<grid, refused, conclusion>>

-------------------------------------------------------------------------------
(***************************************************************************)
(* pre_adjustment_stats: from five rates on, the extremes are trimmed.     *)
(***************************************************************************)
TrimmedLow(rates) ==
    IF Len(rates) > 4 THEN SubSeq(Sorted(rates), 2, Len(rates)) ELSE Sorted(rates)
Trimmed(rates) ==
    LET n == Len(rates)
        trim == IF n \div 10 > 1 THEN n \div 10 ELSE 1
    IN  IF n > 4 THEN SubSeq(Sorted(rates), trim + 1, n - trim) ELSE Sorted(rates)

PreAdjustment(rates) ==
    [mean |-> MeanRate(rates), trimmed |-> MeanRate(Trimmed(rates)),
     low |-> LowestRate(rates), high |-> HighestRate(rates)]

(* Fewer than SMALL_SAMPLE.                                                *)
UsesMedianBelowFive(rates) == Len(rates) < 5
UsesMedian(rates) == Len(rates) < 6
ConcludedRate(rates) == IF UsesMedian(rates) THEN MedianRate(rates) ELSE MeanRate(rates)

Value(rate, area) == Rounded(rate * area * MoneyScale, RateScale)

ConclusionFor(area) ==
    LET rates == AdjustedRates
        rate == ConcludedRate(rates)
    IN  [rate |-> rate, value |-> Value(rate, area),
         low |-> Value(LowestRate(rates), area), high |-> Value(HighestRate(rates), area),
         raw |-> PreAdjustment(RawRates)]

Conclude(area) ==
    /\ ~refused /\ conclusion = None
    /\ grid # << >> /\ area > 0
    /\ conclusion' = ConclusionFor(area)
    /\ UNCHANGED <<grid, refused, verdict>>

GridNext ==
    \/ \E e \in Entries : AddComparable(e)
    \/ ValidateGrid
    \/ \E area \in Areas : Conclude(area)

GridSpec == GridInit /\ [][GridNext]_gridVars

-------------------------------------------------------------------------------
Without(rates, k) == {rates[i] : i \in DOMAIN rates \ {k}}
InSpanOf(v, S) == (\E u \in S : u <= v) /\ (\E u \in S : v <= u)

(***************************************************************************)
(* The value concluded lies in the range shown beside it, whichever of the *)
(* two averages conclude took and although value and range are rounded     *)
(* separately.                                                             *)
(***************************************************************************)
ConclusionIsWithinEvidence ==
    conclusion # None =>
        conclusion.low <= conclusion.value /\ conclusion.value <= conclusion.high

(***************************************************************************)
(* The reason conclude has for the median: with three to five comparables  *)
(* no single one, however wild, moves the concluded rate out of the span   *)
(* of the others.                                                          *)
(***************************************************************************)
OneComparableCannotDrag ==
    conclusion # None /\ Len(grid) \in 3 .. 5 =>
        \A k \in DOMAIN grid : InSpanOf(conclusion.rate, Without(AdjustedRates, k))

(***************************************************************************)
(* What pre_adjustment_stats is kept for: from five comparables on, the    *)
(* trimmed mean of the raw rates stays in the span of any all but one of   *)
(* them, so a wild price shows as its distance from the plain mean.        *)
(***************************************************************************)
TrimmedIgnoresOne ==
    conclusion # None /\ Len(grid) >= 5 =>
        \A k \in DOMAIN grid : InSpanOf(conclusion.raw.trimmed, Without(RawRates, k))

(***************************************************************************)
(* validate_spread never refuses a set without naming a comparable: the    *)
(* span is judged after rounding against the whole threshold, a comparable *)
(* exactly against half of it, and one of the two ends is always beyond.   *)
(***************************************************************************)
SpreadNamesSomeone ==
    verdict = "adjusted_spread_too_wide" => Outliers(AdjustedRates) # {}

===============================================================================
