------------------------------ MODULE Approaches ------------------------------
(***************************************************************************)
(* The income and the cost approach: each turns what a valuer states about *)
(* a property into one indicated value, or refuses.  A behaviour is one    *)
(* call of direct_capitalisation, discounted_cash_flow or value.           *)
(*                                                                         *)
(* Money is in paise.  A percentage counts parts of PERCENT_EXPONENT, of   *)
(* which Whole make a hundred percent, so NOI is counted in units of which *)
(* Whole * Whole make a paisa, and every quotient is exact until the code  *)
(* quantizes it (the code's quotients carry 28 digits).  Land and the cost *)
(* of the improvements are whole paise.                                    *)
(*                                                                         *)
(* A definition placed before another whose name it extends is that        *)
(* definition with a plausible slip in it; no step uses it.                *)
(***************************************************************************)
EXTENDS Money

CONSTANTS
    Requests,       \* the calls considered
    Whole           \* a hundred percent

Statement == [gross : Int, vacancy : Int, opex : Int, other : Int,
              nonRecoverable : Int]

DirectRequest == [by : {"direct"}, statement : Statement, rate : Int,
                  reasoned : BOOLEAN]
DcfRequest == [by : {"dcf"}, statement : Statement, discount : Int,
               growth : Int, exit : Int, years : Int, reasoned : BOOLEAN]
(* Wear is the physical depreciation, None when it follows from age.       *)
CostRequest == [by : {"cost"}, land : Int, area : Int, rate : Int,
                wear : Int \union {None}, age : Int, life : Int,
                functional : Int, external : Int, functionalReasoned : BOOLEAN,
                externalReasoned : BOOLEAN, reasoned : BOOLEAN]

ASSUME WholeAssumption == Whole \in Nat \ {0}
ASSUME RequestsAssumption ==
    Requests \subseteq DirectRequest \union DcfRequest \union CostRequest
ASSUME NotAnIntegerAssumption == None \notin Int

VARIABLES
    request,        \* the call under way
    indication      \* what it returned, or None

approachVars == <<request, indication>>

Declined == [code |-> "declined"]
(* A decimal division by zero, which no except clause of the code catches. *)
Failed == [code |-> "failed"]

-------------------------------------------------------------------------------
(***************************************************************************)
(* The operating statement: gross to net.  Nothing checks its percentages. *)
(***************************************************************************)
EffectiveGrossIncome(s) == s.gross * (Whole - s.vacancy) + s.other * Whole

NetIncomeOfOne(s) ==
    EffectiveGrossIncome(s) * (Whole - s.opex) - s.nonRecoverable * Whole
NetIncome(s) ==
    EffectiveGrossIncome(s) * (Whole - s.opex) - s.nonRecoverable * Whole * Whole

(* NOI over a rate, in paise.                                              *)
Capitalised(noi, rate) == Rounded(noi, rate * Whole)

DirectCapitalisation(r) ==
    LET noi == NetIncome(r.statement) IN
    IF r.rate <= 0 \/ ~r.reasoned \/ noi <= 0
    THEN Declined
    ELSE [code |-> "indicated", value |-> Capitalised(noi, r.rate), cap |-> r.rate]

(* What the cash has become, and what is left of it when income falls by   *)
(* all of it.                                                              *)
Grown(r, years) == Power(Whole + r.growth, years)

(***************************************************************************)
(* The cash of the years, discounted: what each adds is multiplied by the  *)
(* discount of the years that remain, so that the sum over (Whole +        *)
(* discount)^years is the present value per unit of NOI.                   *)
(***************************************************************************)
GrownFromTheStart(r) ==
    LET sum[y \in Nat] ==
            IF y = 0 THEN 0
            ELSE sum[y - 1] * (Whole + r.discount) + Grown(r, y)
    IN  sum[r.years]
DiscountedYears(r) ==
    LET sum[y \in Nat] ==
            IF y = 0 THEN 0
            ELSE sum[y - 1] * (Whole + r.discount) + Grown(r, y - 1)
    IN  sum[r.years]

(* The next year's cash at the exit yield, and the years before it.        *)
Worth(r) == r.exit * DiscountedYears(r) + Grown(r, r.years)
Discount(r) == r.exit * Power(Whole + r.discount, r.years)

DiscountedCashFlow(r) ==
    LET noi == NetIncome(r.statement) IN
    IF r.discount <= 0 \/ r.exit <= 0 \/ r.years < 1 \/ ~r.reasoned \/ noi <= 0
    THEN Declined
    ELSE IF Worth(r) = 0 THEN Failed
    ELSE [code |-> "indicated",
          value |-> RoundedSigned(noi * Worth(r), Discount(r) * Whole),
          cap |-> RoundedSigned(Discount(r), Worth(r))]

-------------------------------------------------------------------------------
(***************************************************************************)
(* Depreciation by its three causes, compounding.                          *)
(***************************************************************************)
StraightLine(age, life) ==
    Rounded((IF age < life THEN age ELSE life) * Whole, life)

AgeIsUsable(r) == r.wear # None \/ (r.life > 0 /\ r.age >= 0)
Physical(r) == IF r.wear = None THEN StraightLine(r.age, r.life) ELSE r.wear

Causes(r) == {Physical(r), r.functional, r.external}

CausesAreReasoned(r) ==
    /\ r.functional > 0 => r.functionalReasoned
    /\ r.external > 0 => r.externalReasoned
CausesAreDefensible(r) ==
    /\ r.functional > 0 => r.functionalReasoned
    /\ r.external > 0 => r.externalReasoned
    /\ Causes(r) \subseteq 0 .. Whole

StandingAdditive(r) ==
    (Whole - Physical(r) - r.functional - r.external) * Whole * Whole
Standing(r) == (Whole - Physical(r)) * (Whole - r.functional) * (Whole - r.external)

TotalDepreciation(r) == Rounded(Whole * Whole * Whole - Standing(r), Whole * Whole)

(* Land is not depreciated.                                                *)
CostApproach(r) ==
    LET new == r.area * r.rate
        standing == new * (Whole - TotalDepreciation(r))
    IN  IF \/ ~AgeIsUsable(r)
           \/ ~CausesAreDefensible(r)
           \/ r.land < 0 \/ r.area <= 0 \/ r.rate <= 0 \/ ~r.reasoned
        THEN Declined
        ELSE [code |-> "indicated", value |-> Rounded(r.land * Whole + standing, Whole),
              depreciation |-> TotalDepreciation(r),
              building |-> Rounded(standing, Whole), new |-> new]

-------------------------------------------------------------------------------
ApproachesInit == request \in Requests /\ indication = None

Indicate ==
    /\ indication = None
    /\ \/ request.by = "direct" /\ indication' = DirectCapitalisation(request)
       \/ request.by = "dcf" /\ indication' = DiscountedCashFlow(request)
       \/ request.by = "cost" /\ indication' = CostApproach(request)
    /\ UNCHANGED request

ApproachesSpec == ApproachesInit /\ [][Indicate]_approachVars

-------------------------------------------------------------------------------
Indication ==
    {Declined, Failed}
    \union [code : {"indicated"}, value : Int, cap : Int]
    \union [code : {"indicated"}, value : Nat, depreciation : 0 .. Whole,
            building : Nat, new : Nat]

(* The type invariant.                                                     *)
ApproachesTypeOK ==
    /\ request \in DirectRequest \union DcfRequest \union CostRequest
    /\ indication \in Indication \union {None}

IsIndicated(by) == indication # None /\ request.by = by /\ indication.code = "indicated"

(***************************************************************************)
(* "The terminal value usually dominates": whatever the horizon, what a    *)
(* discounted cash flow indicates lies between the direct capitalisations  *)
(* of the same income at its exit yield and at its discount rate less      *)
(* growth, and so does the yield it reports; where the two rates are one,  *)
(* the two methods of the income approach are one.                         *)
(***************************************************************************)
CapitalisationsAgree ==
    IsIndicated("dcf") /\ request.growth >= -Whole /\ request.discount > request.growth =>
        LET perpetual == request.discount - request.growth
            low == IF perpetual < request.exit THEN perpetual ELSE request.exit
            high == IF perpetual < request.exit THEN request.exit ELSE perpetual
            noi == NetIncome(request.statement)
        IN  /\ low <= indication.cap /\ indication.cap <= high
            /\ Capitalised(noi, high) <= indication.value
            /\ indication.value <= Capitalised(noi, low)

(***************************************************************************)
(* "Compounding, not additive", and land is not depreciated: the value     *)
(* lies between the land and the land with the building new, the parts     *)
(* shown add up to it, and the depreciation shown is at least each of the  *)
(* causes and no more than all of them, however many are claimed in full.  *)
(***************************************************************************)
CostIsBracketed ==
    IsIndicated("cost") =>
        /\ indication.value = request.land + indication.building
        /\ 0 <= indication.building /\ indication.building <= indication.new
        /\ \A cause \in Causes(request) : cause <= indication.depreciation
        /\ indication.depreciation <= Whole
        /\ indication.depreciation <=
             Physical(request) + request.functional + request.external
        /\ indication.depreciation = Whole => indication.value = request.land
===============================================================================
