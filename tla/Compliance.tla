------------------------------ MODULE Compliance ------------------------------
(***************************************************************************)
(* What the law asks of a transaction and of a project: the stamp duty of  *)
(* a conveyance, and the quarterly returns owed to the state's regulator.  *)
(* A behaviour is one call of compute_stamp_duty or of                     *)
(* generate_quarterly_obligations.                                         *)
(*                                                                         *)
(* Amounts, rates per unit and areas are counted in units of which         *)
(* DeedParts make a hundredth; a date is the number yyyymmdd, so that      *)
(* dates are ordered as numbers are.  A state is the key its name becomes. *)
(***************************************************************************)
EXTENDS Money

CONSTANTS
    Filings,        \* the calls considered
    DeedParts       \* units of an amount in a paisa

Deed == [by : {"deed"}, state : STRING, gender : STRING,
         consideration : Nat, circleRate : Nat, area : Nat]

(* The first and the last day of each quarter, and the day its return is   *)
(* due; every date is a day of one of them.                                *)
QuarterDefs ==
    << <<101, 331, 415>>, <<401, 630, 715>>, <<701, 930, 1015>>, <<1001, 1231, 115>> >>
Date == {d \in Nat : \E q \in DOMAIN QuarterDefs :
            QuarterDefs[q][1] <= d % 10000 /\ d % 10000 <= QuarterDefs[q][2]}

Project == [by : {"project"}, registered : Date, ends : Date, today : Date]

ASSUME FilingsAssumption == Filings \subseteq Deed \union Project
ASSUME DeedPartsAssumption == DeedParts \in Nat \ {0}

VARIABLES
    filing,         \* the call under way
    reply           \* what it returned, or None

complianceVars == <<filing, reply>>

-------------------------------------------------------------------------------
(***************************************************************************)
(* Stamp duty, in percent of the greater of the consideration and the      *)
(* circle rate's valuation.  A state without a table pays Maharashtra's.   *)
(***************************************************************************)
StampRates ==
    [maharashtra |-> [default |-> 5, male |-> 5, female |-> 4],
     delhi |-> [default |-> 6, male |-> 6, female |-> 4],
     karnataka |-> [default |-> 5, male |-> 5, female |-> 5],
     uttar_pradesh |-> [default |-> 7, male |-> 7, female |-> 6]]

StampRate(d) ==
    LET rates == StampRates[IF d.state \in DOMAIN StampRates THEN d.state ELSE "maharashtra"]
    IN  rates[IF d.gender \in DOMAIN rates THEN d.gender ELSE "default"]

Hundredths(amount) == Rounded(amount, DeedParts)

CircleValuation(d) == Rounded(Hundredths(d.circleRate) * Hundredths(d.area), 100)

TaxableAsAgreed(d) ==
    IF d.consideration > 0 THEN Hundredths(d.consideration) ELSE CircleValuation(d)
TaxableValue(d) ==
    IF Hundredths(d.consideration) >= CircleValuation(d)
    THEN Hundredths(d.consideration)
    ELSE CircleValuation(d)

StampDutyAmount(d) == Rounded(TaxableValue(d) * StampRate(d), 100)
RegistrationFee(d) == Rounded(TaxableValue(d), 100)
StatutoryDues(d) == StampDutyAmount(d) + RegistrationFee(d)

-------------------------------------------------------------------------------
(***************************************************************************)
(* A return for every quarter that meets the project's life, due on the    *)
(* fifteenth after it; the last quarter's is due in the next year.         *)
(***************************************************************************)
Year(date) == date \div 10000
In(year, monthAndDay) == 10000 * year + monthAndDay

DueYear(year, q) == IF QuarterDefs[q][3] < 200 THEN year + 1 ELSE year

Obligation(year, q, today) ==
    LET due == In(DueYear(year, q), QuarterDefs[q][3])
    IN  [start |-> In(year, QuarterDefs[q][1]), end |-> In(year, QuarterDefs[q][2]),
         due |-> due, status |-> IF due < today THEN "completed" ELSE "pending"]

YearsToTheLast(p) == Year(p.registered) .. Year(p.ends) - 1
Years(p) == Year(p.registered) .. Year(p.ends)

Obligations(p) ==
    {o \in {Obligation(year, q, p.today) : year \in Years(p), q \in DOMAIN QuarterDefs} :
        ~(o.end < p.registered \/ o.start > p.ends)}

-------------------------------------------------------------------------------
ComplianceInit == filing \in Filings /\ reply = None

Comply ==
    /\ reply = None
    /\ \/ /\ filing.by = "deed"
          /\ reply' = [circle |-> CircleValuation(filing), taxable |-> TaxableValue(filing),
                       dues |-> StatutoryDues(filing)]
       \/ filing.by = "project" /\ reply' = Obligations(filing)
    /\ UNCHANGED filing

ComplianceSpec == ComplianceInit /\ [][Comply]_complianceVars

-------------------------------------------------------------------------------
IsReplied(by) == reply # None /\ filing.by = by

(***************************************************************************)
(* "The circle-rate floor rule": a buyer who had agreed any other price    *)
(* would owe less only if that price is lower and this one above the       *)
(* floor, and what is owed below the floor is owed on the floor, to the    *)
(* paisa; so to understate a price saves nothing under the floor and to    *)
(* raise it never does.                                                    *)
(***************************************************************************)
Considerations == {d.consideration : d \in {f \in Filings : f.by = "deed"}}

UnderstatingSavesNothing ==
    IsReplied("deed") =>
        \A other \in Considerations :
            LET agreed == [filing EXCEPT !.consideration = other]
                dues == StatutoryDues(agreed)
            IN  /\ dues < reply.dues => other < filing.consideration
                                          /\ Hundredths(filing.consideration) > reply.circle
                /\ Hundredths(other) = reply.circle =>
                     /\ dues <= reply.dues
                     /\ Hundredths(filing.consideration) <= reply.circle => dues = reply.dues

(***************************************************************************)
(* Every day of a project, from its registration to its end, is reported   *)
(* in exactly one return; a return is due after its quarter ends, before   *)
(* the next one ends, in the order of the quarters; and none that is still *)
(* running, or was due on no earlier day than today, counts as filed.      *)
(***************************************************************************)
Calendar ==
    UNION {{p.registered, p.ends, p.today} : p \in {f \in Filings : f.by = "project"}}

EveryDayIsReported ==
    IsReplied("project") =>
        /\ \A day \in Calendar :
              filing.registered <= day /\ day <= filing.ends =>
                  \E o \in reply : \A p \in reply :
                      p.start <= day /\ day <= p.end <=> p = o
        /\ \A o \in reply :
              /\ o.end < o.due
              /\ o.status = "completed" => o.end < filing.today /\ o.due # filing.today
        /\ \A o, p \in reply : o.end < p.start => o.due < p.end /\ o.due < p.due
===============================================================================
