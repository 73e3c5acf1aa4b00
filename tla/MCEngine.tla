------------------------------- MODULE MCEngine -------------------------------
(***************************************************************************)
(* The valuation engine has no state of its own: each of its entry points  *)
(* reads what it is given and answers.  A behaviour is one use of one of   *)
(* them, a sheet from detect to the calculator, a grid from build_grid to  *)
(* conclude, a call of one of the approaches, of reconcile, of the rent    *)
(* roll or of the compliance desk; the others stand idle, with any         *)
(* argument.                                                               *)
(***************************************************************************)
EXTENDS MCIngest, MCApproaches, MCSalesComparison, MCReconciliation, MCRentRoll,
        MCCompliance

VARIABLE entry      \* the entry point used

AnySheet == CHOOSE s \in Sheets : TRUE
AnyRequest == CHOOSE r \in Requests : TRUE
AnyCall == CHOOSE c \in Calls : TRUE
AnyRoll == CHOOSE r \in Rolls : TRUE
AnyFiling == CHOOSE f \in Filings : TRUE

EngineInit ==
    /\ entry \in {"sheet", "approach", "grid", "reconcile", "rent roll", "compliance"}
    /\ stage = "read" /\ format = None /\ outcomes = << >> /\ seen = << >> /\ at = 0
    /\ figures = None /\ indication = None /\ answer = None
    /\ rentRoll = None /\ reply = None
    /\ GridInit
    /\ IF entry = "sheet" THEN sheet \in Sheets ELSE sheet = AnySheet
    /\ IF entry = "approach" THEN request \in Requests ELSE request = AnyRequest
    /\ IF entry = "reconcile" THEN call \in Calls ELSE call = AnyCall
    /\ IF entry = "rent roll" THEN roll \in Rolls ELSE roll = AnyRoll
    /\ IF entry = "compliance" THEN filing \in Filings ELSE filing = AnyFiling

deskVars == <<rentRollVars, complianceVars>>

EngineNext ==
    /\ \/ entry = "sheet" /\ CalculatorNext /\ UNCHANGED <<approachVars, gridVars, vars, deskVars>>
       \/ entry = "approach" /\ Indicate /\ UNCHANGED <<calculatorVars, gridVars, vars, deskVars>>
       \/ entry = "grid" /\ GridNext /\ UNCHANGED <<calculatorVars, approachVars, vars, deskVars>>
       \/ entry = "reconcile" /\ Reconcile
            /\ UNCHANGED <<calculatorVars, approachVars, gridVars, deskVars>>
       \/ entry = "rent roll" /\ ComputeRentRoll
            /\ UNCHANGED <<calculatorVars, approachVars, gridVars, vars, complianceVars>>
       \/ entry = "compliance" /\ Comply
            /\ UNCHANGED <<calculatorVars, approachVars, gridVars, vars, rentRollVars>>
    /\ UNCHANGED entry

engineVars == <<entry, calculatorVars, approachVars, gridVars, vars, deskVars>>

EngineSpec == EngineInit /\ [][EngineNext]_engineVars
===============================================================================
