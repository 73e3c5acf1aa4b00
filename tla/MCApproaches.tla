----------------------------- MODULE MCApproaches -----------------------------
(***************************************************************************)
(* Small statements and rates in tenths: income that is negative or has    *)
(* two excessive deductions, growth up to and below -100 percent, an exit  *)
(* yield on either side of the discount rate less growth, horizons of none *)
(* to three years, and depreciation by every mixture of its causes.        *)
(***************************************************************************)
EXTENDS Approaches

Statements ==
    [gross : {0, 51}, vacancy : {0, 3, 12}, opex : {0, 12}, other : {0, 7},
     nonRecoverable : {9}]

DirectRequests ==
    [by : {"direct"}, statement : Statements, rate : {0, 1, 7}, reasoned : BOOLEAN]
DcfRequests ==
    [by : {"dcf"}, statement : Statements, discount : {0, 1, 3},
     growth : {-15, -10, -1, 0, 2}, exit : {0, 1, 2, 5}, years : 0 .. 3,
     reasoned : {TRUE}]

StatedWear == [wear : {0, 4, 10, 11}, age : {0}, life : {0}]
WearFromAge == [wear : {None}, age : {-1, 0, 3, 9}, life : {0, 7}]
Causes3 == [wear : StatedWear \union WearFromAge, functional : {-1, 0, 5, 10},
            external : {0, 3, 10}]
Flags == [reasoned : BOOLEAN, functional : BOOLEAN, external : BOOLEAN]

CostRequests ==
    {[by |-> "cost", land |-> land, area |-> area, rate |-> rate,
      wear |-> c.wear.wear, age |-> c.wear.age, life |-> c.wear.life,
      functional |-> c.functional, external |-> c.external,
      functionalReasoned |-> f.functional, externalReasoned |-> f.external,
      reasoned |-> f.reasoned] :
        land \in {-1, 33}, area \in {0, 7}, rate \in {0, 3}, c \in Causes3, f \in Flags}

MCRequests == DirectRequests \union DcfRequests \union CostRequests
===============================================================================
