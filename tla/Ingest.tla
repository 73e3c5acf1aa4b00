-------------------------------- MODULE Ingest --------------------------------
(***************************************************************************)
(* A sheet of property data, from its columns to its parsed rows: detect   *)
(* names its format, parse_rows reads it row by row, and the areas of land *)
(* records are converted in a second pass.                                 *)
(*                                                                         *)
(* A column is its normalised header, and a row gives a cell for each.     *)
(* Texts are stripped and in one letter case: the code lowers a status, a  *)
(* unit and an identity before it compares them, and raises a state.  A    *)
(* line of CSV that is empty is no row; the reader drops it before.  Why a *)
(* row was rejected is left out.                                           *)
(*                                                                         *)
(* A definition placed before another whose name it extends is that        *)
(* definition with a plausible slip in it; no step uses it.                *)
(***************************************************************************)
EXTENDS Schemas, FiniteSetsExt

CONSTANTS
    Sheets,         \* the inputs considered
    Fine,           \* units of a number in a paisa
    UnitAliases,    \* _ALIASES: spelling -> unit
    UniversalUnits, \* unit -> sqft
    StateUnits      \* unit -> state -> [sqft, verified]

(***************************************************************************)
(* A sheet: the format its caller named, if any, whether unverified unit   *)
(* factors were allowed, its columns and its rows.  A cell that a short    *)
(* row or a record of JSON lacks is blank, which is how it is read.        *)
(***************************************************************************)
IsSheet(s) ==
    /\ s.columns \in Seq(STRING)
    /\ s.named \in STRING \union {None}
    /\ s.allowUnverified \in BOOLEAN
    /\ s.rows \in Seq([DOMAIN s.columns -> Cell])

ASSUME SheetsAssumption == \A s \in Sheets : IsSheet(s)
ASSUME FineAssumption == Fine \in Nat \ {0}
ASSUME NoneIsNothingAssumption == None \notin STRING \union Int
ASSUME LandUnitsAssumption ==
    /\ \A unit \in DOMAIN UniversalUnits : UniversalUnits[unit] \in Nat
    /\ \A unit \in DOMAIN StateUnits : \A state \in DOMAIN StateUnits[unit] :
          StateUnits[unit][state] \in [sqft : Nat, verified : BOOLEAN]

VARIABLES
    sheet,          \* the input
    stage,          \* how far it is
    format,         \* what it was detected as, or None
    outcomes,       \* one per row read so far
    seen,           \* identity -> number of the row first parsed with it
    at              \* rows the pass under way has done

ingestVars == <<sheet, stage, format, outcomes, seen, at>>

Stages == {"read", "rows", "units", "parsed", "refused"}

IngestInit ==
    /\ sheet \in Sheets
    /\ stage = "read"
    /\ format = None
    /\ outcomes = << >>
    /\ seen = << >>
    /\ at = 0

-------------------------------------------------------------------------------
(***************************************************************************)
(* detect: the format named, or else the one with the most signature       *)
(* columns, then the most known columns, then the first.                   *)
(***************************************************************************)
Columns == {sheet.columns[c] : c \in DOMAIN sheet.columns}

Known(f) ==
    UNION {{SchemaOf[f].fields[n].aliases[a] : a \in DOMAIN SchemaOf[f].fields[n].aliases} :
           n \in DOMAIN SchemaOf[f].fields}

(* No schema has a hundred names, so coverage only breaks ties.            *)
Score(f) ==
    100 * Cardinality(SchemaOf[f].signature \intersect Columns)
      + Cardinality(Known(f) \intersect Columns)

Candidates == {f \in Formats : SchemaOf[f].signature \intersect Columns # {}}
Rank(f) == CHOOSE i \in DOMAIN AllSchemas : AllSchemas[i] = f

Detected ==
    CHOOSE f \in Candidates :
        \A g \in Candidates \ {f} :
            Score(f) > Score(g) \/ (Score(f) = Score(g) /\ Rank(f) < Rank(g))

(* A name that is the empty string names nothing.                          *)
Named == IF sheet.named = "" THEN None ELSE sheet.named

Detect ==
    /\ stage = "read"
    /\ \/ /\ \/ sheet.rows = << >>
             \/ Named # None /\ Named \notin Formats
             \/ Named = None /\ Candidates = {}
          /\ stage' = "refused" /\ UNCHANGED format
       \/ /\ sheet.rows # << >>
          /\ \/ Named \in Formats /\ format' = Named
             \/ Named = None /\ Candidates # {} /\ format' = Detected
          /\ stage' = "rows"
    /\ UNCHANGED <<sheet, outcomes, seen, at>>

-------------------------------------------------------------------------------
(***************************************************************************)
(* parse_rows.  A field is read from the first of its aliases that is a    *)
(* column; of columns that normalise alike, the last counts.               *)
(***************************************************************************)
Schema == SchemaOf[format]
Fields == DOMAIN Schema.fields

Last(column) == Max({c \in DOMAIN sheet.columns : sheet.columns[c] = column})

Given(aliases) == {a \in DOMAIN aliases : aliases[a] \in Columns}

Picked(row, aliases) ==
    IF Given(aliases) = {} THEN Blank ELSE row[Last(aliases[Min(Given(aliases))])]

CellFor(i, n) == Picked(sheet.rows[i], Schema.fields[n].aliases)

IsBlank(cell) == cell.text = ""

Readable(kind, cell) ==
    CASE kind = "text" -> TRUE
      [] kind = "positive" -> cell.number # None /\ cell.number > 0
      [] kind = "non_negative" -> cell.number # None /\ cell.number >= 0
      [] kind = "whole" -> cell.number # None /\ cell.number % (100 * Fine) = 0
      [] kind = "date" -> cell.day # None
      [] kind = "lease_status" -> cell.text \in {"occupied", "vacant", "let", "notice"}
      [] kind = "stage_status" ->
            cell.text \in {"completed", "in progress", "pending", "certified"}

(* What is kept of a cell: a date forgets its spelling, a number does not. *)
Coerced(kind, cell) ==
    IF kind = "date" THEN [cell EXCEPT !.text = "date"] ELSE [cell EXCEPT !.day = None]

IsEmptyRow(i) == \A c \in DOMAIN sheet.rows[i] : IsBlank(sheet.rows[i][c])

ProblemIfUnreadable(i, n) ==
    LET cell == CellFor(i, n) IN
    ~IsBlank(cell) /\ ~Readable(Schema.fields[n].kind, cell)
Problem(i, n) ==
    LET cell == CellFor(i, n) IN
    IF IsBlank(cell) THEN Schema.fields[n].required
    ELSE ~Readable(Schema.fields[n].kind, cell)

IsUnusable(i) == IsEmptyRow(i) \/ \E n \in Fields : Problem(i, n)

FieldValue(i, n) ==
    LET cell == CellFor(i, n) IN
    IF IsBlank(cell) THEN Schema.fields[n].default
    ELSE Coerced(Schema.fields[n].kind, cell)

Record(i) == [n \in Fields |-> FieldValue(i, n)]

(* str() of the fields that name the row.                                  *)
Identity(i) ==
    [k \in DOMAIN Schema.identity |->
        LET v == FieldValue(i, Schema.identity[k]) IN <<v.text, v.day>>]

FirstDataRow == 2
RowNumber(i) == FirstDataRow + i - 1

Rejected(i) == [row |-> RowNumber(i), status |-> "rejected", record |-> << >>,
                sqft |-> None, of |-> None]
Duplicate(i, number) == [Rejected(i) EXCEPT !.status = "duplicate", !.of = number]
Parsed(i) == [Rejected(i) EXCEPT !.status = "parsed", !.record = Record(i)]

IsSeen(i) ==
    /\ \E k \in DOMAIN Identity(i) : Identity(i)[k][1] # ""
    /\ Identity(i) \in DOMAIN seen

OutcomeOf(i) ==
    IF IsUnusable(i) THEN Rejected(i)
    ELSE IF IsSeen(i) THEN Duplicate(i, seen[Identity(i)])
    ELSE Parsed(i)

With(i) == [k \in DOMAIN seen \union {Identity(i)} |->
                IF k = Identity(i) THEN RowNumber(i) ELSE seen[k]]
NotedAgain(i) == IF IsUnusable(i) THEN seen ELSE With(i)
Noted(i) == IF IsUnusable(i) \/ IsSeen(i) THEN seen ELSE With(i)

ReportedUnlessEmpty(i) ==
    IF IsEmptyRow(i) THEN outcomes ELSE Append(outcomes, OutcomeOf(i))
Reported(i) == Append(outcomes, OutcomeOf(i))

IsLastPast(i) == i > Len(sheet.rows)
IsLast(i) == i = Len(sheet.rows)
AfterRows == IF format = "land_records" THEN "units" ELSE "parsed"

ParseRow ==
    /\ stage = "rows"
    /\ LET i == at + 1 IN
       /\ outcomes' = Reported(i)
       /\ seen' = Noted(i)
       /\ stage' = IF IsLast(i) THEN AfterRows ELSE stage
       /\ at' = IF IsLast(i) THEN 0 ELSE i
    /\ UNCHANGED <<sheet, format>>

-------------------------------------------------------------------------------
(***************************************************************************)
(* _convert_land_areas: a parcel whose unit has no factor for its state,   *)
(* or only one nobody verified, is rejected, not converted on a guess.     *)
(***************************************************************************)
Unit(text) == IF text \in DOMAIN UnitAliases THEN UnitAliases[text] ELSE text

FactorWhereverKnown(text, state) ==
    LET unit == Unit(text) IN
    IF unit \in DOMAIN UniversalUnits THEN UniversalUnits[unit]
    ELSE IF unit \notin DOMAIN StateUnits THEN None
    ELSE IF state \in DOMAIN StateUnits[unit] THEN StateUnits[unit][state].sqft
    ELSE StateUnits[unit][CHOOSE known \in DOMAIN StateUnits[unit] : TRUE].sqft
Factor(text, state) ==
    LET unit == Unit(text) IN
    IF unit \in DOMAIN UniversalUnits THEN UniversalUnits[unit]
    ELSE IF /\ unit \in DOMAIN StateUnits
            /\ state \in DOMAIN StateUnits[unit]
            /\ StateUnits[unit][state].verified \/ sheet.allowUnverified
         THEN StateUnits[unit][state].sqft
    ELSE None

FactorFor(record) == Factor(record.area_unit.text, record.state.text)

Resolved(o, i) ==
    LET factor == FactorFor(o.record) IN
    IF o.status # "parsed" THEN o
    ELSE IF factor = None THEN Rejected(i)
    ELSE [o EXCEPT !.sqft = o.record.area.number * factor]

ConvertRow ==
    /\ stage = "units"
    /\ LET i == at + 1 IN
       /\ outcomes' = [outcomes EXCEPT ![i] = Resolved(outcomes[i], i)]
       /\ stage' = IF IsLast(i) THEN "parsed" ELSE stage
       /\ at' = IF IsLast(i) THEN 0 ELSE i
    /\ UNCHANGED <<sheet, format, seen>>

IngestNext == Detect \/ ParseRow \/ ConvertRow

IngestSpec == IngestInit /\ [][IngestNext]_ingestVars

-------------------------------------------------------------------------------
IsOutcome(o) ==
    /\ DOMAIN o = {"row", "status", "record", "sqft", "of"}
    /\ o.row \in Nat
    /\ o.sqft \in Int \union {None} /\ o.of \in Nat \union {None}
    /\ \/ o.status = "parsed" /\ DOMAIN o.record = Fields
       \/ o.status \in {"rejected", "duplicate"} /\ o.record = << >>

(* The type invariant.                                                     *)
IngestTypeOK ==
    /\ IsSheet(sheet)
    /\ stage \in Stages
    /\ stage \in {"rows", "units", "parsed"} => format \in Formats /\ sheet.rows # << >>
    /\ at \in 0 .. Len(sheet.rows)
    /\ stage \in {"rows", "units"} => at < Len(sheet.rows)
    /\ DOMAIN outcomes = 1 .. Len(outcomes)
    /\ \A i \in DOMAIN outcomes : IsOutcome(outcomes[i])
    /\ \A key \in DOMAIN seen : seen[key] \in Nat

ReadAll == stage \in {"units", "parsed"}

(***************************************************************************)
(* "Nothing is dropped silently": the rows reported are the rows read, one *)
(* for one and in order, whatever was wrong with any of them.  The code    *)
(* compares the reported rows only with themselves.                        *)
(***************************************************************************)
NoRowIsLost ==
    /\ ReadAll => Len(outcomes) = Len(sheet.rows)
    /\ \A i \in DOMAIN outcomes : outcomes[i].row = RowNumber(i)

(* The factors a parcel may be converted by: the one that holds in every   *)
(* state, or its own state's, verified unless the caller allowed others.   *)
FactorsThatHold(record) ==
    LET unit == Unit(record.area_unit.text)
        own == IF unit \in DOMAIN StateUnits
               THEN {StateUnits[unit][state] :
                        state \in {record.state.text} \intersect DOMAIN StateUnits[unit]}
               ELSE {}
    IN  IF unit \in DOMAIN UniversalUnits THEN {UniversalUnits[unit]}
        ELSE {entry.sqft : entry \in {e \in own : e.verified \/ sheet.allowUnverified}}

(***************************************************************************)
(* A row is a duplicate only of an earlier row of the same identity that   *)
(* was not one itself and could be read, which its reason names.  The      *)
(* first readable row of an identity stands for all of them, and is the    *)
(* only one that is kept, so no evidence is weighed twice.  It is always   *)
(* kept, but for a parcel the second pass turns away for want of a factor: *)
(* of that parcel no row is kept, for unit and state are not part of its   *)
(* identity and a twin that could be converted is a duplicate by then.     *)
(***************************************************************************)
TurnedAway(i) ==
    /\ stage \in {"units", "parsed"} /\ format = "land_records"
    /\ outcomes[i].status = "rejected" /\ FactorsThatHold(Record(i)) = {}

DuplicatesNameTheirOriginal ==
    \A i \in DOMAIN outcomes :
        /\ outcomes[i].status = "duplicate" =>
              \E j \in 1 .. i - 1 :
                  /\ outcomes[i].of = RowNumber(j)
                  /\ outcomes[j].status # "duplicate"
                  /\ ~IsUnusable(j) /\ Identity(j) = Identity(i)
        /\ outcomes[i].status # "duplicate" /\ ~IsUnusable(i) =>
              /\ outcomes[i].status = "parsed" \/ TurnedAway(i)
              /\ \A j \in DOMAIN outcomes \ {i} :
                    ~IsUnusable(j) /\ Identity(j) = Identity(i)
                        => j > i /\ outcomes[j].status = "duplicate"

(***************************************************************************)
(* "A parcel whose unit cannot be resolved for its state is rejected, not  *)
(* converted on a guess": the square feet of a parsed parcel are its area  *)
(* by a factor that holds for it, and no other parcel is turned away.      *)
(***************************************************************************)
LandIsNotGuessed ==
    stage = "parsed" /\ format = "land_records" =>
        \A i \in DOMAIN outcomes :
            /\ outcomes[i].status = "parsed" =>
                 outcomes[i].sqft \in {Record(i).area.number * factor :
                                         factor \in FactorsThatHold(Record(i))}
            /\ outcomes[i].status = "rejected" /\ ~IsUnusable(i) =>
                 FactorsThatHold(Record(i)) = {}
===============================================================================
