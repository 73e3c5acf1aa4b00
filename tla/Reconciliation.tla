---------------------------- MODULE Reconciliation ----------------------------
(***************************************************************************)
(* The reconciliation of a valuation: reconcile weighs what the sales,     *)
(* income and cost approaches indicate into one concluded value, or        *)
(* refuses.  A call is one run of the function, on the lines its caller    *)
(* wrote and the terms of the mandate.                                     *)
(*                                                                         *)
(* Money is counted in paise and weights in units of which One make 1; a   *)
(* quotient is rounded half up, as quantize does under the default policy. *)
(* The approaches round what they indicate to the paisa; a negative value, *)
(* which build would pass on, is outside the model.                        *)
(*                                                                         *)
(* A definition placed before another whose name it extends (OffOneAbove   *)
(* before OffOne) is that definition with a plausible slip in it; the      *)
(* checks use it to show that the properties notice, no step does.         *)
(***************************************************************************)
EXTENDS Money, Sequences, FiniteSets

CONSTANTS
    Calls,          \* the calls considered
    One,            \* the weight 1
    Tolerance,      \* WEIGHT_TOLERANCE, in the same units
    DefaultLimit    \* DEFAULT_MAX_DIVERGENCE_PCT

Methods == {"sales", "income", "cost"}
Bases == {"market", "fair", "liquidation", "distress", "insurable"}
Purposes == {"loan", "ibc", "dispute", "financial_reporting", "internal"}
PurposesRequiringIncome == {"loan", "financial_reporting"}

(***************************************************************************)
(* A line is what an ApproachInput is built from; reasoned, whether its    *)
(* rationale says anything.                                                *)
(***************************************************************************)
Line == [method : Methods \union {"other"}, value : Nat, weight : Int,
         reasoned : BOOLEAN]

Call == [lines : Seq(Line), basis : Bases, income : BOOLEAN,
         specialised : BOOLEAN, purpose : Purposes \union {None},
         limit : Nat \union {None}]

Codes == {"accepted", "malformed_approach", "no_approaches",
          "duplicate_method", "weights_do_not_sum",
          "required_approach_missing", "forbidden_approach_used",
          "approaches_diverge"}

ASSUME UnitsAssumption ==
    /\ One \in Nat \ {0}
    /\ PercentScale \in Nat \ {0}
    /\ Tolerance \in 0 .. One - 1
ASSUME LimitAssumption == DefaultLimit \in Nat \ {0}
ASSUME NoneAssumption == None \notin Purposes /\ None \notin Nat
ASSUME CallsAssumption == Calls \subseteq Call

VARIABLES
    call,       \* the call under way
    answer      \* what it returned, or None

vars == <<call, answer>>

(***************************************************************************)
(* The lines, by method.  A list that reaches the sums names no method     *)
(* twice, so a method has one line or none.                                *)
(***************************************************************************)
Written(lines, m) == \E i \in DOMAIN lines : lines[i].method = m
LineOf(lines, m) == lines[CHOOSE i \in DOMAIN lines : lines[i].method = m]
Weight(lines, m) == IF Written(lines, m) THEN LineOf(lines, m).weight ELSE 0
Indicated(lines, m) == IF Written(lines, m) THEN LineOf(lines, m).value ELSE 0

TotalWeight(lines) ==
    Weight(lines, "sales") + Weight(lines, "income") + Weight(lines, "cost")

Share(lines, m) == Indicated(lines, m) * Weight(lines, m)

WeightedSum(lines) ==
    Share(lines, "sales") + Share(lines, "income") + Share(lines, "cost")

ReliedAnyWritten(lines) == {m \in Methods : Written(lines, m)}
(* A method is relied on when its weight is positive, not when it is shown.*)
Relied(lines) == {m \in Methods : Weight(lines, m) > 0}

Lowest(lines) ==
    CHOOSE v \in {Indicated(lines, m) : m \in Relied(lines)} :
        \A m \in Relied(lines) : v <= Indicated(lines, m)
Highest(lines) ==
    CHOOSE v \in {Indicated(lines, m) : m \in Relied(lines)} :
        \A m \in Relied(lines) : v >= Indicated(lines, m)

(***************************************************************************)
(* What a mandate requires and excludes: policy_for, and what a purpose    *)
(* adds to it.                                                             *)
(***************************************************************************)
ForcedSale(c) == c.basis \in {"liquidation", "distress"}

BasisRequires(c) ==
    IF c.basis = "insurable" THEN {"cost"}
    ELSE IF ForcedSale(c) THEN {"sales"}
    ELSE IF c.specialised THEN {"cost"}
    ELSE IF c.income THEN {"sales", "income"}
    ELSE {"sales"}

PurposeRequiresOnMarket(c) ==
    IF c.income /\ c.purpose \in PurposesRequiringIncome /\ ~c.specialised
    THEN {"income"} ELSE {}
PurposeRequires(c) ==
    IF c.income /\ c.purpose \in PurposesRequiringIncome
    THEN {"income"} ELSE {}

Required(c) == BasisRequires(c) \union PurposeRequires(c)

Forbidden(c) ==
    CASE c.basis = "insurable" -> {"sales", "income"}
      [] ForcedSale(c) -> {"income"}
      [] OTHER -> {}

-------------------------------------------------------------------------------
(***************************************************************************)
(* The checks, in the order they are made.                                 *)
(***************************************************************************)
Malformed(lines) ==
    \E i \in DOMAIN lines :
        \/ lines[i].method \notin Methods
        \/ ~lines[i].reasoned
        \/ lines[i].weight \notin 0 .. One

Duplicated(lines) ==
    \E i, j \in DOMAIN lines : i # j /\ lines[i].method = lines[j].method

OffOneAbove(lines) == TotalWeight(lines) > One + Tolerance
OffOne(lines) ==
    \/ TotalWeight(lines) > One + Tolerance
    \/ TotalWeight(lines) < One - Tolerance

Divergence(lines) ==
    Rounded(100 * PercentScale * (Highest(lines) - Lowest(lines)),
            Lowest(lines))

(* "max_divergence_pct or DEFAULT": no limit and a limit of zero are one.  *)
Limit(c) == IF c.limit \in {None, 0} THEN DefaultLimit ELSE c.limit

ComparableThree(lines) == Cardinality(Relied(lines)) > 2 /\ Lowest(lines) > 0
Comparable(lines) == Cardinality(Relied(lines)) > 1 /\ Lowest(lines) > 0

Diverges(c) ==
    /\ Comparable(c.lines)
    /\ Divergence(c.lines) > Limit(c) * PercentScale

Code(c) ==
    IF Malformed(c.lines) THEN "malformed_approach"
    ELSE IF c.lines = << >> THEN "no_approaches"
    ELSE IF Duplicated(c.lines) THEN "duplicate_method"
    ELSE IF OffOne(c.lines) THEN "weights_do_not_sum"
    ELSE IF ~(Required(c) \subseteq Relied(c.lines))
         THEN "required_approach_missing"
    ELSE IF Forbidden(c) \intersect Relied(c.lines) # {}
         THEN "forbidden_approach_used"
    ELSE IF Diverges(c) THEN "approaches_diverge"
    ELSE "accepted"

ConcludedRoundedDown(lines) == (2 * WeightedSum(lines) - One) \div (2 * One)
Concluded(lines) == Rounded(WeightedSum(lines), One)

(***************************************************************************)
(* A refusal concludes nothing: every check precedes the computation.      *)
(***************************************************************************)
Refusal(code) == [code |-> code, value |-> 0, low |-> 0, high |-> 0,
                  divergence |-> None]

Reconciled(c) ==
    [code |-> "accepted", value |-> Concluded(c.lines),
     low |-> Lowest(c.lines), high |-> Highest(c.lines),
     divergence |-> IF Comparable(c.lines) THEN Divergence(c.lines)
                    ELSE None]

Outcome(c) ==
    IF Code(c) = "accepted" THEN Reconciled(c) ELSE Refusal(Code(c))

Init == call \in Calls /\ answer = None

Reconcile == answer = None /\ answer' = Outcome(call) /\ UNCHANGED call

Spec == Init /\ [][Reconcile]_vars

-------------------------------------------------------------------------------
Answer == [code : Codes, value : Nat, low : Nat, high : Nat,
           divergence : Nat \union {None}]

(* The type invariant.                                                     *)
TypeOK == call \in Call /\ answer \in Answer \union {None}

Accepted == answer # None /\ answer.code = "accepted"

(***************************************************************************)
(* "Weights that do not sum are not weights": the concluded value of an    *)
(* accepted call lies in the span of the approaches it relies on, exactly  *)
(* when the weights make 1 and to the tolerance when they nearly do.       *)
(***************************************************************************)
ConclusionIsSupported ==
    Accepted =>
        /\ TotalWeight(call.lines) = One =>
              answer.low <= answer.value /\ answer.value <= answer.high
        /\ 2 * One * answer.value + One >= 2 * (One - Tolerance) * answer.low
        /\ 2 * One * answer.value <= 2 * (One + Tolerance) * answer.high + One

(***************************************************************************)
(* No figure "neither supports": when the relied-on approaches all say     *)
(* something, none is further from the concluded value than the divergence *)
(* limit, in percent of that value (to the rounding of the percentage).    *)
(***************************************************************************)
ApproachesAgree ==
    Accepted /\ TotalWeight(call.lines) = One /\ answer.low > 0 =>
        \A m \in Relied(call.lines) :
            LET v == Indicated(call.lines, m)
                bound == (2 * Limit(call) * PercentScale + 1) * answer.value
            IN  /\ 200 * PercentScale * (v - answer.value) <= bound
                /\ 200 * PercentScale * (answer.value - v) <= bound

(***************************************************************************)
(* An approach shown with weight zero is not relied upon: leaving such a   *)
(* line out of an accepted call changes nothing of its answer, and the     *)
(* same holds of the call that is left.                                    *)
(***************************************************************************)
LeavingOut(lines, i) ==
    [k \in 1 .. Len(lines) - 1 |-> IF k < i THEN lines[k] ELSE lines[k + 1]]

ShownIsNotRelied ==
    Accepted =>
        \A i \in DOMAIN call.lines :
            call.lines[i].weight = 0 =>
                answer = Outcome([call EXCEPT !.lines = LeavingOut(@, i)])

(***************************************************************************)
(* What each kind of mandate is promised, whatever else it says: a lender  *)
(* on an income-producing property gets an income approach relied on, a    *)
(* forced sale never capitalises income, insurable value is cost alone,    *)
(* and every other basis of an ordinary property rests on sales.           *)
(***************************************************************************)
MandateIsAnswered ==
    Accepted =>
        /\ call.income /\ call.purpose \in PurposesRequiringIncome
             => "income" \in Relied(call.lines)
        /\ ForcedSale(call) => "income" \notin Relied(call.lines)
        /\ call.basis = "insurable" => Relied(call.lines) = {"cost"}
        /\ call.basis # "insurable" /\ ~call.specialised
             => "sales" \in Relied(call.lines)
===============================================================================
