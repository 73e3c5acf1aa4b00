------------------------------- MODULE RentRoll -------------------------------
(***************************************************************************)
(* The rent roll of a portfolio: what its leases bring in, the weighted    *)
(* average of their unexpired terms, and which years that rent runs out    *)
(* in.  A behaviour is one call of compute_rent_roll_and_wault.            *)
(*                                                                         *)
(* A rent is counted in units of which RentParts make a paisa, a term in   *)
(* ten-thousandths of a year, the average term in hundredths.  Areas and   *)
(* the lines shown per lease are left out.                                 *)
(***************************************************************************)
EXTENDS Money, Sequences, FiniteSets, Functions

CONSTANTS
    Rolls,          \* the lists of leases considered
    RentParts       \* units of a rent in a paisa

(* Days from the day of reference to the expiry, None for one not given.   *)
(* Nothing refuses a rent below zero.                                      *)
Lease == [rent : Int, days : Int \union {None}]

ASSUME RollsAssumption == Rolls \subseteq Seq(Lease)
ASSUME RentPartsAssumption == RentParts \in Nat \ {0}

VARIABLES
    roll,           \* the leases
    rentRoll        \* what was computed of them, or None

rentRollVars == <<roll, rentRoll>>

-------------------------------------------------------------------------------
(* quantize as it rounds unless told otherwise: half to the even paisa.    *)
HalfEven(n, d) ==
    LET twice == 2 * (n % d) IN
    n \div d + IF twice > d \/ (twice = d /\ (n \div d) % 2 = 1) THEN 1 ELSE 0

MonthlyRent(l) == HalfEven(l.rent, RentParts)
AnnualRent(l) == 12 * MonthlyRent(l)

DaysRemainingSigned(l) == IF l.days = None THEN 0 ELSE l.days
DaysRemaining(l) == IF l.days = None \/ l.days < 0 THEN 0 ELSE l.days

(* A year is 365.25 days, so that no whole number of days is one.          *)
UnexpiredYears(l) == RoundedSigned(4 * DaysRemaining(l) * 10000, 1461)

Bands == {"less_than_1_yr", "1_to_3_yrs", "3_to_5_yrs", "more_than_5_yrs"}
Band(l) ==
    LET term == UnexpiredYears(l) IN
    IF term < 10000 THEN "less_than_1_yr"
    ELSE IF term < 30000 THEN "1_to_3_yrs"
    ELSE IF term < 50000 THEN "3_to_5_yrs"
    ELSE "more_than_5_yrs"

Leases(band) == {i \in DOMAIN roll : Band(roll[i]) = band}
RentOf(leases) == SumFunction([i \in leases |-> AnnualRent(roll[i])])
TermsByRent ==
    SumFunction([i \in DOMAIN roll |-> UnexpiredYears(roll[i]) * AnnualRent(roll[i])])

Wault == IF RentOf(DOMAIN roll) > 0
         THEN RoundedSigned(TermsByRent, 100 * RentOf(DOMAIN roll))
         ELSE 0

RentRollInit == roll \in Rolls /\ rentRoll = None

(* A lease that has lapsed is counted, and its rent is in every total.     *)
ComputeRentRoll ==
    /\ rentRoll = None
    /\ rentRoll' =
         [leases |-> Len(roll),
          monthly |-> SumFunction([i \in DOMAIN roll |-> MonthlyRent(roll[i])]),
          annual |-> RentOf(DOMAIN roll),
          wault |-> Wault,
          profile |-> [band \in Bands |->
                         [count |-> Cardinality(Leases(band)),
                          annual |-> RentOf(Leases(band))]]]
    /\ UNCHANGED roll

RentRollSpec == RentRollInit /\ [][ComputeRentRoll]_rentRollVars

-------------------------------------------------------------------------------
(***************************************************************************)
(* The two answers about the same leases agree: the profile has every      *)
(* lease and every rupee once; and, if no rent is below zero, the average  *)
(* term, to its rounding, is one that leases running out in those years    *)
(* can have, and it lies between the shortest and the longest of the terms *)
(* that bring in rent.  A rent below zero, which the router lets through,  *)
(* takes the average anywhere.                                             *)
(***************************************************************************)
NoRentIsNegative == \A i \in DOMAIN roll : roll[i].rent >= 0

WaultFitsTheProfile ==
    rentRoll # None =>
        LET rent(band) == rentRoll.profile[band].annual
            count(band) == rentRoll.profile[band].count
            paying == {i \in DOMAIN roll : AnnualRent(roll[i]) > 0}
            average == 2 * rentRoll.wault * rentRoll.annual
        IN  /\ count("less_than_1_yr") + count("1_to_3_yrs") + count("3_to_5_yrs")
                 + count("more_than_5_yrs") = rentRoll.leases
            /\ rent("less_than_1_yr") + rent("1_to_3_yrs") + rent("3_to_5_yrs")
                 + rent("more_than_5_yrs") = 12 * rentRoll.monthly
            /\ NoRentIsNegative =>
                 /\ 200 * (rent("1_to_3_yrs") + 3 * rent("3_to_5_yrs")
                             + 5 * rent("more_than_5_yrs"))
                      <= average + rentRoll.annual
                 /\ rent("more_than_5_yrs") = 0 =>
                      average - rentRoll.annual <=
                        200 * (rent("less_than_1_yr") + 3 * rent("1_to_3_yrs")
                                + 5 * rent("3_to_5_yrs"))
                 /\ paying # {} =>
                      /\ \E i \in paying :
                            Rounded(UnexpiredYears(roll[i]), 100) <= rentRoll.wault
                      /\ \E i \in paying :
                            Rounded(UnexpiredYears(roll[i]), 100) >= rentRoll.wault
===============================================================================
