------------------------------- MODULE MCIngest -------------------------------
(***************************************************************************)
(* Sheets of every format, of up to three rows, each format with the rows  *)
(* that are told apart by it: a date written in two ways, a price written  *)
(* in two ways, fields that are blank, not numbers or out of range, two    *)
(* rows of one unit, stages of every status, parcels in units that hold    *)
(* everywhere, in one state, unverified, or not at all; and columns that   *)
(* fit no format, two of them, or have one name twice.                     *)
(***************************************************************************)
EXTENDS Calculator

C(t) == [text |-> t, number |-> None, day |-> None]
N(t, n) == [text |-> t, number |-> n, day |-> None]
D(t, d) == [text |-> t, number |-> None, day |-> d]

Upto(n, S) == UNION {[1 .. k -> S] : k \in 0 .. n}
SheetOf(columns, rows) ==
    [columns |-> columns, rows |-> rows, named |-> None, allowUnverified |-> FALSE]

ComparableRows ==
    LET good == <<C("plot 1"), N("100", 40000), N("45", 9001), D("3/4/2025", 3)>> IN
    {good,
     [good EXCEPT ![4] = D("2025-04-03", 3)],
     [good EXCEPT ![3] = N("45.0", 9001)],
     [good EXCEPT ![3] = C("on request")],
     [good EXCEPT ![2] = N("0", 0)],
     [good EXCEPT ![4] = Blank],
     <<Blank, Blank, Blank, Blank>>}
ComparableSheets ==
    {SheetOf(<<"address", "area", "sale_price", "sale_date">>, rows) :
        rows \in Upto(3, ComparableRows)}

LeaseRows ==
    {<<C(u), N("1", 200), r, s>> : u \in {"1a", "1b"}, r \in {Blank, N("5", 1001), N("6", 1003)},
        s \in {Blank, C("vacant"), C("let")}}
LeaseSheets ==
    {SheetOf(<<"unit", "area", "monthly_rent", "status">>, rows) : rows \in Upto(2, LeaseRows)}

StageRows ==
    {<<C(u), p, N("9", 1001), s>> : u \in {"plinth", "roof"}, p \in {N("10", 2000), N("-1", -200)},
        s \in {Blank, C("completed"), C("pending"), C("odd")}}
StageSheets ==
    {SheetOf(<<"stage", "completion_%", "disbursement_amount", "status">>, rows) :
        rows \in Upto(2, StageRows)}

PortfolioRows ==
    {<<i, C("tower"), t, N("7", 7), l>> : i \in {Blank, C("p1")}, t \in {Blank, C("office")},
        l \in {Blank, N("90", 90)}}
PortfolioSheets ==
    {SheetOf(<<"property_id", "property_name", "type", "current_value", "loan_outstanding">>, rows) :
        rows \in Upto(2, PortfolioRows)}

LandRows ==
    {<<C(k), N("2", 400), u, s>> : k \in {"k1", "k2"},
       u \in {C("acre"), C("bighas"), C("guntha"), C("rood"), Blank}, s \in {C("up"), C("wb"), Blank}}
LandSheets ==
    {[SheetOf(<<"survey_no", "khata", "area", "area_unit", "state">>,
              [i \in DOMAIN rows |-> <<C("12")>> \o rows[i]]) EXCEPT !.allowUnverified = a] :
        rows \in Upto(2, LandRows), a \in BOOLEAN}

OtherSheets ==
    {[SheetOf(columns, << [c \in DOMAIN columns |-> IF c = 1 THEN C("x") ELSE Blank] >>)
         EXCEPT !.named = n] :
        columns \in {<<"colour">>, <<"owner_name", "sale_price", "date">>,
                     <<"unit", "tenant", "current_value">>, <<"stage", "stage">>},
        n \in {None, "", "portfolio", "cadastre"}}

MCSheets == ComparableSheets \union LeaseSheets \union StageSheets \union PortfolioSheets
              \union LandSheets \union OtherSheets
MCAliases == [bighas |-> "bigha"]
MCUniversal == [acre |-> 43560, sqft |-> 1]
MCState == [bigha |-> [up |-> [sqft |-> 27000, verified |-> FALSE],
                       wb |-> [sqft |-> 14400, verified |-> TRUE]],
            guntha |-> [up |-> [sqft |-> 1089, verified |-> TRUE]]]
===============================================================================
