------------------------------ MODULE Calculator ------------------------------
(***************************************************************************)
(* The calculator of the generation graph: what is summed of a sheet once  *)
(* it is parsed, by its format.  The graph goes on whether or not a sheet  *)
(* could be read.  Percentages of two figures, the schedule of escalations *)
(* and the statistics of unadjusted rates (see SalesComparison) are left   *)
(* out.                                                                    *)
(***************************************************************************)
EXTENDS Ingest, Functions

VARIABLE figures    \* what was computed, or None

calculatorVars == <<sheet, stage, format, outcomes, seen, at, figures>>

ParsedRows == {i \in DOMAIN outcomes : outcomes[i].status = "parsed"}

TextOf(i, n) == outcomes[i].record[n].text
(* A field that is not there, or is no number, counts 0.                   *)
NumberOf(i, n) ==
    LET number == outcomes[i].record[n].number IN IF number = None THEN 0 ELSE number
Sum(n, rows) == SumFunction([i \in rows |-> NumberOf(i, n)])

(* Summed exactly, rounded once.                                           *)
Paise(sum) == RoundedSigned(sum, Fine)
Total(n, rows) == Paise(Sum(n, rows))

(* A parsed comparable has no rate of its own: no field reads that column. *)
AnalyseComparables(rows) ==
    [type |-> "comparables", count |-> Cardinality(rows),
     rates |-> Cardinality({i \in rows : NumberOf(i, "sale_price") > 0
                                          /\ NumberOf(i, "area") > 0})]

Vacant == {"vacant", "empty", ""}
Complete == {"completed", "done", "approved", "certified"}
Pending == {"pending", "in progress", "ongoing", ""}

AnnualSum(occupied) == 12 * Sum("monthly_rent", occupied)

AnalyseRentRoll(rows) ==
    LET occupied == {i \in rows : TextOf(i, "status") \notin Vacant}
        vacant == {i \in rows : TextOf(i, "status") \in Vacant}
    IN  [type |-> "rent_roll", units |-> Cardinality(rows),
         occupied |-> Cardinality(occupied), vacant |-> Cardinality(vacant),
         area |-> Total("area", rows), occupiedArea |-> Total("area", occupied),
         monthly |-> Total("monthly_rent", occupied),
         annual |-> Paise(AnnualSum(occupied)),
         deposit |-> Total("security_deposit", rows),
         overdue |-> Total("overdue", rows)]

AnalyseConstructionStages(rows) ==
    LET completed == {i \in rows : TextOf(i, "status") \in Complete}
        pending == {i \in rows : TextOf(i, "status") \in Pending}
    IN  [type |-> "construction", stages |-> Cardinality(rows),
         completed |-> Cardinality(completed), pending |-> Cardinality(pending),
         disbursed |-> Total("disbursement_amount", completed),
         undisbursed |-> Total("disbursement_amount", pending),
         next |-> IF pending = {} THEN None
                  ELSE CHOOSE i \in pending : \A j \in pending : i <= j]

TypeOf(i) == LET text == TextOf(i, "property_type") IN
             IF text \in {"none", ""} THEN "other" ELSE text

OfTypeAsGiven(rows, type) == {i \in rows : TextOf(i, "property_type") = type}
OfType(rows, type) == {i \in rows : TypeOf(i) = type}

AnalysePortfolio(rows) ==
    LET value == Sum("current_value", rows)
        loan == Sum("loan_outstanding", rows)
    IN  [type |-> "portfolio", properties |-> Cardinality(rows),
         value |-> Paise(value), cost |-> Total("purchase_price", rows),
         loan |-> Paise(loan), equity |-> Paise(value - loan),
         rent |-> Paise(12 * Sum("monthly_rent", rows)),
         byType |-> [type \in {TypeOf(i) : i \in rows} |->
                        [count |-> Cardinality(OfType(rows, type)),
                         value |-> Total("current_value", OfType(rows, type))]]]

LandArea(rows) ==
    [type |-> "land_records", parcels |-> Cardinality(rows),
     area |-> Paise(SumFunction([i \in rows |-> outcomes[i].sqft]))]

Computed(rows) ==
    CASE format = "comparables" -> AnalyseComparables(rows)
      [] format = "lease_schedule" -> AnalyseRentRoll(rows)
      [] format = "construction_stages" -> AnalyseConstructionStages(rows)
      [] format = "portfolio" -> AnalysePortfolio(rows)
      [] format = "land_records" -> LandArea(rows)

(* A sheet that was refused goes on as one with no rows.                   *)
Compute ==
    /\ stage \in {"parsed", "refused"} /\ figures = None
    /\ figures' = IF ParsedRows = {} THEN [type |-> "empty"] ELSE Computed(ParsedRows)
    /\ UNCHANGED ingestVars

CalculatorInit == IngestInit /\ figures = None

CalculatorNext == (IngestNext /\ UNCHANGED figures) \/ Compute

CalculatorSpec == CalculatorInit /\ [][CalculatorNext]_calculatorVars

-------------------------------------------------------------------------------
IsComputed(type) == figures # None /\ figures.type = type

(***************************************************************************)
(* The comparables counted are the comparables that gave a rate: a row     *)
(* without a price or an area is rejected where it can be seen, never      *)
(* passed on to be skipped where it cannot.                                *)
(***************************************************************************)
EveryComparableCounts ==
    IsComputed("comparables") =>
        /\ figures.count = Cardinality(ParsedRows)
        /\ figures.rates = figures.count

(***************************************************************************)
(* "The total must tie to the sum of the lines": every unit of a rent roll *)
(* is let or vacant and the annual rent is twelve months to the rounding   *)
(* of a month; a portfolio is the sum of its types, to half a paisa each;  *)
(* a stage is paid out or still to come, except that one whose status was  *)
(* left blank is neither, and its money is in no sum.                      *)
(***************************************************************************)
StatusIsBlank(i) == outcomes[i].record.status = Absent

Gap(a, b) == IF a < b THEN b - a ELSE a - b

TotalsTie ==
    /\ IsComputed("rent_roll") =>
          /\ figures.occupied + figures.vacant = figures.units
          /\ Gap(figures.annual, 12 * figures.monthly) <= 6
          /\ figures.occupiedArea <= figures.area
    /\ IsComputed("portfolio") =>
          LET types == DOMAIN figures.byType
              count == SumFunction([t \in types |-> figures.byType[t].count])
              value == SumFunction([t \in types |-> figures.byType[t].value])
          IN  /\ count = figures.properties
              /\ 2 * Gap(value, figures.value) <= Cardinality(types) + 1
    /\ IsComputed("construction") =>
          LET counted == {i \in ParsedRows : ~StatusIsBlank(i)} IN
          /\ figures.completed + figures.pending = Cardinality(counted)
          /\ Gap(figures.disbursed + figures.undisbursed,
                 Total("disbursement_amount", counted)) <= 1
===============================================================================
