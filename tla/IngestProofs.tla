----------------------------- MODULE IngestProofs -----------------------------
(***************************************************************************)
(* What a sheet is read as, for any sheets and any table of units: every   *)
(* row is accounted for, a duplicate has an original, land is converted by *)
(* a factor that holds; and what the calculator makes of it: every         *)
(* comparable that is counted has a rate, and totals tie to their parts.   *)
(***************************************************************************)
EXTENDS Calculator, ArithmeticProofs, FunctionTheorems, SequenceTheorems,
        WellFoundedInduction

-------------------------------------------------------------------------------
(***************************************************************************)
(* The first of some indices, and the last.                                *)
(***************************************************************************)
Less == {pair \in Nat \X Nat : pair[1] < pair[2]}

LEMMA Least ==
    ASSUME NEW S \in SUBSET Nat, S # {}
    PROVE  \E a \in S : \A b \in S : a <= b
<1>1. OpToRel(<, Nat) = Less
  BY DEF OpToRel, Less
<1>2. IsWellFoundedOn(Less, Nat)
  BY <1>1, NatLessThanWellFounded
<1>3. \E a \in S : \A b \in S : ~(<<b, a>> \in Less)
  BY <1>2, WFMin
<1>4. PICK a \in S : \A b \in S : ~(<<b, a>> \in Less)
  BY <1>3
<1>5. \A b \in S : a <= b
  <2> TAKE b \in S
  <2>1. a \in Nat /\ b \in Nat
    OBVIOUS
  <2>2. b < a => <<b, a>> \in Less
    BY <2>1 DEF Less
  <2> QED BY <1>4, <2>1, <2>2
<1> QED BY <1>5

LEMMA Greatest ==
    ASSUME NEW n \in Nat, NEW S \in SUBSET (1 .. n), S # {}
    PROVE  \E a \in S : \A b \in S : b <= a
<1> DEFINE T == {n - a : a \in S}
<1>1. T \in SUBSET Nat
  OBVIOUS
<1>2. T # {}
  OBVIOUS
<1>3. PICK t \in T : \A u \in T : t <= u
  <2> HIDE DEF T
  <2> QED BY <1>1, <1>2, Least
<1>4. PICK a \in S : t = n - a
  OBVIOUS
<1>5. \A b \in S : b <= a
  <2> TAKE b \in S
  <2>1. n - b \in T
    OBVIOUS
  <2>2. t <= n - b
    BY <1>3, <2>1
  <2>3. a \in Int /\ b \in Int
    OBVIOUS
  <2> QED BY <1>4, <2>2, <2>3
<1> QED BY <1>5

-------------------------------------------------------------------------------
(***************************************************************************)
(* The columns and the fields.  A column that is given is last somewhere,  *)
(* and a field that is not blank was read from a column.                   *)
(***************************************************************************)
LEMMA LastIsAColumn ==
    ASSUME IsSheet(sheet), NEW column \in Columns
    PROVE  Last(column) \in DOMAIN sheet.columns
<1> DEFINE S == {c \in DOMAIN sheet.columns : sheet.columns[c] = column}
           n == Len(sheet.columns)
<1>1. n \in Nat /\ DOMAIN sheet.columns = 1 .. n
  BY DEF IsSheet
<1>2. S \in SUBSET (1 .. n) /\ S # {}
  BY <1>1 DEF Columns
<1>3. PICK last \in S : \A c \in S : c <= last
  <2> HIDE DEF S, n
  <2> QED BY <1>1, <1>2, Greatest
<1>4. last \in Int /\ \A c \in S : c \in Int
  BY <1>1
<1>5. \A c \in S : last >= c
  BY <1>3, <1>4
<1>6. Max(S) \in S
  <2> HIDE DEF S
  <2> QED BY <1>5 DEF Max
<1> QED BY <1>6 DEF Last

IsAField(n) ==
    /\ n \in Fields
    /\ DOMAIN Schema.fields[n].aliases \in SUBSET Nat

LEMMA GivenCellsAreCells ==
    ASSUME IsSheet(sheet), NEW i \in DOMAIN sheet.rows, NEW n, IsAField(n),
           ~IsBlank(CellFor(i, n))
    PROVE  CellFor(i, n) \in Cell
<1> DEFINE aliases == Schema.fields[n].aliases
           first == Min(Given(aliases))
<1>1. Given(aliases) # {}
  BY DEF CellFor, Picked, IsBlank, Blank
<1>2. Given(aliases) \in SUBSET Nat
  BY DEF Given, IsAField
<1>3. first \in Given(aliases)
  <2>1. \E a \in Given(aliases) : \A b \in Given(aliases) : a <= b
    <3> HIDE DEF aliases
    <3> QED BY <1>1, <1>2, Least
  <2> QED BY <2>1 DEF Min
<1>4. Last(aliases[first]) \in DOMAIN sheet.columns
  <2>1. aliases[first] \in Columns
    BY <1>3 DEF Given
  <2> HIDE DEF aliases, first
  <2> QED BY <2>1, LastIsAColumn
<1>5. sheet.rows[i] \in [DOMAIN sheet.columns -> Cell]
  BY DEF IsSheet
<1>6. CellFor(i, n) = sheet.rows[i][Last(aliases[first])]
  BY <1>1 DEF CellFor, Picked
<1> HIDE DEF first, aliases
<1> QED BY <1>4, <1>5, <1>6

(* What is kept of a cell that is no date.                                 *)
LEMMA CoercedKeeps ==
    ASSUME NEW cell \in Cell, NEW kind, kind # "date"
    PROVE  Coerced(kind, cell).text = cell.text /\ Coerced(kind, cell).number = cell.number
  BY DEF Coerced, Cell

-------------------------------------------------------------------------------
(***************************************************************************)
(* The schemas.  Every format has a field that must be given among those   *)
(* that name its rows, so that a row that can be used has a name.          *)
(***************************************************************************)
LEMMA NamingField ==
    ASSUME format \in Formats
    PROVE  \E k \in DOMAIN Schema.identity :
             /\ IsAField(Schema.identity[k])
             /\ Schema.fields[Schema.identity[k]].required
             /\ Schema.fields[Schema.identity[k]].kind = "text"
<1>1. CASE format = "comparables"
  <2>1. 1 \in DOMAIN Schema.identity /\ Schema.identity[1] = "address"
    BY <1>1 DEF Schema, SchemaOf, Comparables
  <2>2. "address" \in Fields
    BY <1>1 DEF Fields, Schema, SchemaOf, Comparables
  <2>3. Schema.fields["address"] =
           Needed("text", <<"address", "property_address", "location">>)
    BY <1>1 DEF Schema, SchemaOf, Comparables
  <2> QED BY <2>1, <2>2, <2>3 DEF IsAField, Needed
<1>2. CASE format = "lease_schedule"
  <2>1. 1 \in DOMAIN Schema.identity /\ Schema.identity[1] = "unit"
    BY <1>2 DEF Schema, SchemaOf, LeaseSchedule
  <2>2. "unit" \in Fields
    BY <1>2 DEF Fields, Schema, SchemaOf, LeaseSchedule
  <2>3. Schema.fields["unit"] = Needed("text", <<"unit", "unit_no", "flat_no", "shop_no">>)
    BY <1>2 DEF Schema, SchemaOf, LeaseSchedule
  <2> QED BY <2>1, <2>2, <2>3 DEF IsAField, Needed
<1>3. CASE format = "construction_stages"
  <2>1. 1 \in DOMAIN Schema.identity /\ Schema.identity[1] = "stage"
    BY <1>3 DEF Schema, SchemaOf, ConstructionStages
  <2>2. "stage" \in Fields
    BY <1>3 DEF Fields, Schema, SchemaOf, ConstructionStages
  <2>3. Schema.fields["stage"] = Needed("text", <<"stage", "milestone", "stage_name">>)
    BY <1>3 DEF Schema, SchemaOf, ConstructionStages
  <2> QED BY <2>1, <2>2, <2>3 DEF IsAField, Needed
<1>4. CASE format = "portfolio"
  <2>1. 2 \in DOMAIN Schema.identity /\ Schema.identity[2] = "property_name"
    BY <1>4 DEF Schema, SchemaOf, Portfolio
  <2>2. "property_name" \in Fields
    BY <1>4 DEF Fields, Schema, SchemaOf, Portfolio
  <2>3. Schema.fields["property_name"] =
           Needed("text", <<"property_name", "name", "property">>)
    BY <1>4 DEF Schema, SchemaOf, Portfolio
  <2> QED BY <2>1, <2>2, <2>3 DEF IsAField, Needed
<1>5. CASE format = "land_records"
  <2>1. 1 \in DOMAIN Schema.identity /\ Schema.identity[1] = "survey_no"
    BY <1>5 DEF Schema, SchemaOf, LandRecords
  <2>2. "survey_no" \in Fields
    BY <1>5 DEF Fields, Schema, SchemaOf, LandRecords
  <2>3. Schema.fields["survey_no"] = Needed("text", <<"survey_no", "sy_no", "khasra_no">>)
    BY <1>5 DEF Schema, SchemaOf, LandRecords
  <2> QED BY <2>1, <2>2, <2>3 DEF IsAField, Needed
<1> QED BY <1>1, <1>2, <1>3, <1>4, <1>5 DEF Formats, AllSchemas

(* What a usable row holds in a field that must be given.                  *)
LEMMA NeededIsRead ==
    ASSUME IsSheet(sheet), NEW i \in DOMAIN sheet.rows, ~IsUnusable(i),
           NEW n, IsAField(n), Schema.fields[n].required
    PROVE  /\ CellFor(i, n) \in Cell
           /\ ~IsBlank(CellFor(i, n))
           /\ Readable(Schema.fields[n].kind, CellFor(i, n))
           /\ FieldValue(i, n) = Coerced(Schema.fields[n].kind, CellFor(i, n))
<1>1. ~Problem(i, n)
  BY DEF IsUnusable, IsAField
<1>2. ~IsBlank(CellFor(i, n))
  BY <1>1 DEF Problem
<1>3. Readable(Schema.fields[n].kind, CellFor(i, n))
  BY <1>1, <1>2 DEF Problem
<1>4. FieldValue(i, n) = Coerced(Schema.fields[n].kind, CellFor(i, n))
  BY <1>2 DEF FieldValue
<1> QED BY <1>2, <1>3, <1>4, GivenCellsAreCells

LEMMA UsableRowsAreNamed ==
    ASSUME IsSheet(sheet), format \in Formats, NEW i \in DOMAIN sheet.rows, ~IsUnusable(i)
    PROVE  \E k \in DOMAIN Identity(i) : Identity(i)[k][1] # ""
<1>1. PICK k \in DOMAIN Schema.identity :
        /\ IsAField(Schema.identity[k])
        /\ Schema.fields[Schema.identity[k]].required
        /\ Schema.fields[Schema.identity[k]].kind = "text"
  BY NamingField
<1>2. FieldValue(i, Schema.identity[k]).text # ""
  <2> DEFINE n == Schema.identity[k]
  <2>1. /\ CellFor(i, n) \in Cell
        /\ ~IsBlank(CellFor(i, n))
        /\ FieldValue(i, n) = Coerced("text", CellFor(i, n))
    BY <1>1, NeededIsRead
  <2> HIDE DEF n
  <2>2. Coerced("text", CellFor(i, n)).text = CellFor(i, n).text
    BY <2>1, CoercedKeeps
  <2>3. FieldValue(i, n).text # ""
    BY <2>1, <2>2, Zenon DEF IsBlank
  <2> QED BY <2>3 DEF n
<1>3. k \in DOMAIN Identity(i)
  BY DEF Identity
<1>4. Identity(i)[k][1] = FieldValue(i, Schema.identity[k]).text
  BY DEF Identity
<1> QED BY <1>2, <1>3, <1>4
-------------------------------------------------------------------------------
(***************************************************************************)
(* detect names a format: of the candidates one has the best score, and of *)
(* those one comes first.                                                  *)
(***************************************************************************)
LEMMA ScoreIsBounded ==
    ASSUME IsSheet(sheet)
    PROVE  \E bound \in Nat : \A f : Score(f) \in 0 .. bound
<1>1. IsFiniteSet(Columns)
  <2>1. IsFiniteSet(DOMAIN sheet.columns)
    <3>1. Len(sheet.columns) \in Nat /\ DOMAIN sheet.columns = 1 .. Len(sheet.columns)
      BY DEF IsSheet
    <3>2. 1 \in Int /\ Len(sheet.columns) \in Int
      BY <3>1
    <3>3. IsFiniteSet(1 .. Len(sheet.columns))
      BY <3>2, FS_Interval, Zenon
    <3> QED BY <3>1, <3>3
  <2>2. sheet.columns \in [DOMAIN sheet.columns -> Columns]
    BY DEF IsSheet, Columns
  <2>3. \A column \in Columns : \E c \in DOMAIN sheet.columns : sheet.columns[c] = column
    BY DEF Columns
  <2>4. sheet.columns \in Surjection(DOMAIN sheet.columns, Columns)
    BY <2>2, <2>3, Fun_IsSurj
  <2> QED BY <2>1, <2>4, FS_Surjection
<1> DEFINE all == Cardinality(Columns)
<1>2. all \in Nat
  BY <1>1, FS_CardinalityType
<1>3. ASSUME NEW T PROVE Cardinality(T \intersect Columns) \in 0 .. all
  <2>1. /\ IsFiniteSet(T \intersect Columns)
        /\ Cardinality(T \intersect Columns) <= all
    BY <1>1, FS_Subset
  <2> QED BY <2>1, <1>2, FS_CardinalityType
<1>4. \A f : Score(f) \in 0 .. 101 * all
  <2> TAKE f
  <2>1. Cardinality(SchemaOf[f].signature \intersect Columns) \in 0 .. all
    BY <1>3
  <2>2. Cardinality(Known(f) \intersect Columns) \in 0 .. all
    BY <1>3
  <2> HIDE DEF all
  <2> QED BY <2>1, <2>2, <1>2 DEF Score
<1>5. 101 * all \in Nat
  BY <1>2
<1> QED BY <1>4, <1>5

LEMMA RankOfEach ==
    \A f, g \in Formats : Rank(f) \in 1 .. 5 /\ (Rank(f) = Rank(g) => f = g)
<1>1. \A f \in Formats : \E i \in DOMAIN AllSchemas : AllSchemas[i] = f
  BY DEF Formats
<1>2. \A f \in Formats : Rank(f) \in DOMAIN AllSchemas /\ AllSchemas[Rank(f)] = f
  BY <1>1 DEF Rank
<1>3. DOMAIN AllSchemas = 1 .. 5
  BY DEF AllSchemas
<1> QED BY <1>2, <1>3

LEMMA DetectedIsAFormat ==
    ASSUME IsSheet(sheet), Candidates # {}
    PROVE  Detected \in Formats
<1>1. PICK bound \in Nat : \A f : Score(f) \in 0 .. bound
  BY ScoreIsBounded
<1> DEFINE lacking == {bound - Score(f) : f \in Candidates}
<1>2. lacking \in SUBSET Nat /\ lacking # {}
  BY <1>1
<1>3. PICK least \in lacking : \A other \in lacking : least <= other
  <2> HIDE DEF lacking
  <2> QED BY <1>2, Least
<1>4. PICK top \in Candidates : least = bound - Score(top)
  OBVIOUS
<1>5. \A f \in Candidates : Score(f) <= Score(top)
  <2> TAKE f \in Candidates
  <2>1. bound - Score(f) \in lacking
    OBVIOUS
  <2>2. bound - Score(top) <= bound - Score(f)
    BY <1>3, <1>4, <2>1
  <2>3. Score(f) \in Int /\ Score(top) \in Int /\ bound \in Int
    BY <1>1
  <2> HIDE DEF lacking
  <2> QED BY <2>2, <2>3
<1> DEFINE best == {f \in Candidates : Score(f) = Score(top)}
           ranks == {Rank(f) : f \in best}
<1>6. Candidates \subseteq Formats
  BY DEF Candidates
<1>7. ranks \in SUBSET Nat /\ ranks # {}
  BY <1>4, <1>6, RankOfEach
<1>8. PICK first \in ranks : \A other \in ranks : first <= other
  <2> HIDE DEF ranks
  <2> QED BY <1>7, Least
<1>9. PICK f \in best : first = Rank(f)
  OBVIOUS
<1>10. \A g \in Candidates \ {f} :
         Score(f) > Score(g) \/ (Score(f) = Score(g) /\ Rank(f) < Rank(g))
  <2> TAKE g \in Candidates \ {f}
  <2>1. Score(f) = Score(top) /\ Score(g) <= Score(top)
    BY <1>5, <1>9
  <2>2. Score(f) \in Int /\ Score(g) \in Int
    BY <1>1
  <2>3. CASE Score(g) = Score(f)
    <3>1. Rank(g) \in ranks
      BY <2>1, <2>3
    <3>2. Rank(f) <= Rank(g)
      BY <3>1, <1>8, <1>9
    <3>3. f \in Formats /\ g \in Formats
      BY <1>6, <1>9
    <3>4. Rank(f) \in Int /\ Rank(g) \in Int /\ Rank(f) # Rank(g)
      BY <3>3, RankOfEach
    <3> QED BY <3>2, <3>4, <2>3
  <2>4. CASE Score(g) # Score(f)
    BY <2>1, <2>2, <2>4
  <2> QED BY <2>3, <2>4
<1>11. f \in Candidates
  BY <1>9
<1>12. Detected \in Candidates
  <2> HIDE DEF best, ranks, lacking
  <2> QED BY <1>10, <1>11 DEF Detected
<1> QED BY <1>6, <1>12
-------------------------------------------------------------------------------
(***************************************************************************)
(* The inductive invariant.  It says of each row what it must have become, *)
(* whether or not the second pass has reached it, that seen holds the      *)
(* first row of each identity, and how far each pass is.                   *)
(***************************************************************************)
Converted(i) ==
    format = "land_records" /\ (stage = "parsed" \/ (stage = "units" /\ i <= at))

OutcomesOf(i) ==
    IF IsUnusable(i) THEN {Rejected(i)}
    ELSE {Duplicate(i, RowNumber(j)) : j \in 1 .. i - 1}
         \union IF ~Converted(i) THEN {Parsed(i)}
                ELSE IF FactorsThatHold(Record(i)) = {} THEN {Rejected(i)}
                ELSE {[Parsed(i) EXCEPT !.sqft = Record(i).area.number * factor] :
                        factor \in FactorsThatHold(Record(i))}

SeenAsRead ==
    /\ \A key \in DOMAIN seen :
          \E j \in DOMAIN outcomes :
              /\ seen[key] = RowNumber(j) /\ Identity(j) = key
              /\ ~IsUnusable(j) /\ outcomes[j].status # "duplicate"
    /\ \A j \in DOMAIN outcomes : ~IsUnusable(j) => Identity(j) \in DOMAIN seen

DuplicatesNamed ==
    \A i \in DOMAIN outcomes :
        /\ outcomes[i].status = "duplicate" =>
              \E j \in 1 .. i - 1 :
                  /\ outcomes[i].of = RowNumber(j)
                  /\ outcomes[j].status # "duplicate"
                  /\ ~IsUnusable(j) /\ Identity(j) = Identity(i)
        /\ outcomes[i].status # "duplicate" /\ ~IsUnusable(i) =>
              \A j \in DOMAIN outcomes \ {i} :
                  ~IsUnusable(j) /\ Identity(j) = Identity(i)
                      => j > i /\ outcomes[j].status = "duplicate"

HowFar ==
    /\ stage \in Stages
    /\ stage \in {"rows", "units", "parsed"} => format \in Formats /\ sheet.rows # << >>
    /\ at \in 0 .. Len(sheet.rows)
    /\ stage \in {"rows", "units"} => at < Len(sheet.rows)
    /\ stage \in {"read", "refused"} => outcomes = << >> /\ seen = << >> /\ at = 0
    /\ stage = "rows" => Len(outcomes) = at
    /\ stage \in {"units", "parsed"} => Len(outcomes) = Len(sheet.rows)
    /\ stage = "units" => format = "land_records"

IngestInv ==
    /\ IsSheet(sheet)
    /\ HowFar
    /\ \E S : outcomes \in Seq(S)
    /\ \A i \in DOMAIN outcomes : outcomes[i] \in OutcomesOf(i)
    /\ SeenAsRead
    /\ DuplicatesNamed

LEMMA RowsOfASheet ==
    ASSUME IsSheet(sheet)
    PROVE  /\ Len(sheet.rows) \in Nat
           /\ DOMAIN sheet.rows = 1 .. Len(sheet.rows)
           /\ sheet.rows # << >> => Len(sheet.rows) > 0
  BY DEF IsSheet

LEMMA OutcomesAreRows ==
    ASSUME IngestInv
    PROVE  /\ Len(outcomes) \in Nat
           /\ DOMAIN outcomes = 1 .. Len(outcomes)
           /\ Len(outcomes) <= Len(sheet.rows)
           /\ DOMAIN outcomes \subseteq DOMAIN sheet.rows
<1>1. Len(outcomes) \in Nat /\ DOMAIN outcomes = 1 .. Len(outcomes)
  BY DEF IngestInv
<1>2. IsSheet(sheet) /\ HowFar
  BY DEF IngestInv
<1>3. Len(outcomes) <= Len(sheet.rows)
  <2>1. CASE outcomes = << >>
    BY <2>1, <1>2, RowsOfASheet
  <2>2. CASE outcomes # << >>
    BY <2>2, <1>2, RowsOfASheet DEF HowFar, Stages
  <2> QED BY <2>1, <2>2
<1> QED BY <1>1, <1>2, <1>3, RowsOfASheet

LEMMA Statuses ==
    ASSUME NEW i, NEW number
    PROVE  /\ Rejected(i).status = "rejected" /\ Rejected(i).row = RowNumber(i)
           /\ Parsed(i).status = "parsed" /\ Parsed(i).row = RowNumber(i)
           /\ Parsed(i).record = Record(i)
           /\ Duplicate(i, number).status = "duplicate"
           /\ Duplicate(i, number).row = RowNumber(i)
           /\ Duplicate(i, number).of = number
  BY DEF Rejected, Parsed, Duplicate

(* The factor used, if there is one, is the one that holds.                *)
LEMMA FactorIsTheOneThatHolds ==
    ASSUME NEW record
    PROVE  /\ FactorFor(record) = None => FactorsThatHold(record) = {}
           /\ FactorFor(record) # None => FactorFor(record) \in FactorsThatHold(record)
           /\ FactorsThatHold(record) \subseteq Nat
<1> DEFINE unit == Unit(record.area_unit.text)
           state == record.state.text
<1>1. \A n \in Nat : n # None
  BY NoneIsNothingAssumption
<1>2. CASE unit \in DOMAIN UniversalUnits
  <2>1. FactorFor(record) = UniversalUnits[unit]
    BY <1>2 DEF FactorFor, Factor
  <2>2. FactorsThatHold(record) = {UniversalUnits[unit]}
    BY <1>2 DEF FactorsThatHold
  <2>3. UniversalUnits[unit] \in Nat
    BY <1>2, LandUnitsAssumption
  <2> QED BY <2>1, <2>2, <2>3, <1>1
<1>3. CASE unit \notin DOMAIN UniversalUnits /\ unit \notin DOMAIN StateUnits
  BY <1>3 DEF FactorFor, Factor, FactorsThatHold
<1>4. CASE /\ unit \notin DOMAIN UniversalUnits /\ unit \in DOMAIN StateUnits
           /\ state \notin DOMAIN StateUnits[unit]
  BY <1>4 DEF FactorFor, Factor, FactorsThatHold
<1>5. CASE /\ unit \notin DOMAIN UniversalUnits /\ unit \in DOMAIN StateUnits
           /\ state \in DOMAIN StateUnits[unit]
  <2>1. StateUnits[unit][state] \in [sqft : Nat, verified : BOOLEAN]
    BY <1>5, LandUnitsAssumption
  <2>2. FactorFor(record) =
           IF StateUnits[unit][state].verified \/ sheet.allowUnverified
           THEN StateUnits[unit][state].sqft ELSE None
    BY <1>5 DEF FactorFor, Factor
  <2>3. FactorsThatHold(record) =
           IF StateUnits[unit][state].verified \/ sheet.allowUnverified
           THEN {StateUnits[unit][state].sqft} ELSE {}
    BY <1>5 DEF FactorsThatHold
  <2> QED BY <2>1, <2>2, <2>3, <1>1
<1> QED BY <1>2, <1>3, <1>4, <1>5
-------------------------------------------------------------------------------
(***************************************************************************)
(* The invariant holds at first and is kept by each action.                *)
(***************************************************************************)
LEMMA InvAtFirst == IngestInit => IngestInv
<1> SUFFICES ASSUME IngestInit PROVE IngestInv
  OBVIOUS
<1>1. IsSheet(sheet)
  BY SheetsAssumption DEF IngestInit
<1>2. HowFar
  <2>1. 0 \in 0 .. Len(sheet.rows)
    BY <1>1, RowsOfASheet
  <2> QED BY <2>1 DEF IngestInit, HowFar, Stages
<1>3. outcomes = << >> /\ seen = << >>
  BY DEF IngestInit
<1>4. outcomes \in Seq({}) /\ DOMAIN outcomes = {} /\ DOMAIN seen = {}
  BY <1>3
<1>5. SeenAsRead /\ DuplicatesNamed
  BY <1>4 DEF SeenAsRead, DuplicatesNamed
<1> QED BY <1>1, <1>2, <1>4, <1>5 DEF IngestInv

LEMMA DetectKeeps ==
    ASSUME IngestInv, Detect
    PROVE  IngestInv'
<1>1. IsSheet(sheet) /\ stage = "read" /\ outcomes = << >> /\ seen = << >> /\ at = 0
  BY DEF IngestInv, HowFar, Detect
<1>2. IsSheet(sheet)'
  BY <1>1 DEF Detect, IsSheet
<1>3. sheet' = sheet /\ outcomes' = << >> /\ seen' = << >> /\ at' = 0
  BY <1>1 DEF Detect
<1>4. HowFar'
  <2>1. 0 \in 0 .. Len(sheet.rows)
    BY <1>1, RowsOfASheet
  <2>2. CASE stage' = "refused"
    BY <1>3, <2>1, <2>2 DEF HowFar, Stages
  <2>3. CASE stage' # "refused"
    <3>1. stage' = "rows" /\ sheet.rows # << >>
      BY <2>3 DEF Detect
    <3>2. format' \in Formats
      BY <1>1, <2>3, DetectedIsAFormat DEF Detect, Named
    <3>3. 0 < Len(sheet.rows)
      BY <1>1, <3>1, RowsOfASheet
    <3> QED BY <1>3, <2>1, <3>1, <3>2, <3>3 DEF HowFar, Stages, Formats
  <2> QED BY <2>2, <2>3
<1>5. outcomes' \in Seq({}) /\ DOMAIN outcomes' = {} /\ DOMAIN seen' = {}
  BY <1>3
<1>6. SeenAsRead' /\ DuplicatesNamed'
  BY <1>5 DEF SeenAsRead, DuplicatesNamed
<1> QED BY <1>2, <1>4, <1>5, <1>6 DEF IngestInv

(* A row is read the same as long as the sheet and its format are.         *)
LEMMA ReadingIsFixed ==
    ASSUME sheet' = sheet, format' = format
    PROVE  /\ IsSheet(sheet)' <=> IsSheet(sheet)
           /\ \A i : /\ IsUnusable(i)' <=> IsUnusable(i)
                     /\ Identity(i)' = Identity(i)
                     /\ Record(i)' = Record(i)
                     /\ Parsed(i)' = Parsed(i)
           /\ \A record : FactorsThatHold(record)' = FactorsThatHold(record)
<1>1. IsSheet(sheet)' <=> IsSheet(sheet)
  BY DEF IsSheet
<1>2. Columns' = Columns /\ Schema' = Schema /\ Fields' = Fields
  BY DEF Columns, Schema, Fields
<1>3. \A column : Last(column)' = Last(column)
  BY DEF Last
<1>4. \A aliases : Given(aliases)' = Given(aliases)
  BY <1>2 DEF Given
<1>5. \A row, aliases : Picked(row, aliases)' = Picked(row, aliases)
  BY <1>3, <1>4 DEF Picked
<1>6. \A i, n : CellFor(i, n)' = CellFor(i, n)
  BY <1>2, <1>5 DEF CellFor
<1>7. \A i, n : Problem(i, n)' <=> Problem(i, n)
  BY <1>2, <1>6 DEF Problem
<1>8. \A i : IsUnusable(i)' <=> IsUnusable(i)
  BY <1>2, <1>7 DEF IsUnusable, IsEmptyRow
<1>9. \A i, n : FieldValue(i, n)' = FieldValue(i, n)
  BY <1>2, <1>6 DEF FieldValue
<1>10. \A i : Record(i)' = Record(i)
  BY <1>2, <1>9 DEF Record
<1>11. \A i : Identity(i)' = Identity(i)
  BY <1>2, <1>9 DEF Identity
<1>12. \A i : Parsed(i)' = Parsed(i)
  BY <1>10 DEF Parsed
<1>13. \A record : FactorsThatHold(record)' = FactorsThatHold(record)
  BY DEF FactorsThatHold
<1> QED BY <1>1, <1>8, <1>10, <1>11, <1>12, <1>13
(* The next row is reported as one of the things it can become.            *)
LEMMA NextRow ==
    ASSUME IngestInv, stage = "rows"
    PROVE  /\ at + 1 \in DOMAIN sheet.rows
           /\ Len(outcomes) = at /\ DOMAIN outcomes = 1 .. at
           /\ format \in Formats
           /\ at \in Nat
<1>1. IsSheet(sheet) /\ HowFar
  BY DEF IngestInv
<1>2. /\ at \in Nat /\ at < Len(sheet.rows) /\ Len(outcomes) = at
      /\ format \in Formats
  BY <1>1, RowsOfASheet DEF HowFar
<1> QED BY <1>1, <1>2, RowsOfASheet, OutcomesAreRows

LEMMA OutcomeIsOneOfThem ==
    ASSUME IngestInv, stage = "rows"
    PROVE  OutcomeOf(at + 1) \in OutcomesOf(at + 1)
<1> DEFINE i == at + 1
<1>1. ~Converted(i)
  BY DEF Converted
<1>2. CASE IsUnusable(i)
  BY <1>2 DEF OutcomeOf, OutcomesOf
<1>3. CASE ~IsUnusable(i) /\ IsSeen(i)
  <2>1. PICK j \in DOMAIN outcomes : seen[Identity(i)] = RowNumber(j)
    BY <1>3 DEF IsSeen, IngestInv, SeenAsRead
  <2>2. j \in 1 .. i - 1
    BY NextRow
  <2>3. OutcomeOf(i) = Duplicate(i, RowNumber(j))
    BY <1>3, <2>1 DEF OutcomeOf
  <2> QED BY <1>3, <2>2, <2>3 DEF OutcomesOf
<1>4. CASE ~IsUnusable(i) /\ ~IsSeen(i)
  BY <1>1, <1>4 DEF OutcomeOf, OutcomesOf
<1> QED BY <1>2, <1>3, <1>4

LEMMA ParseRowKeeps ==
    ASSUME IngestInv, ParseRow
    PROVE  IngestInv'
<1> DEFINE i == at + 1
           n == Len(sheet.rows)
<1>1. IsSheet(sheet) /\ HowFar /\ stage = "rows" /\ sheet' = sheet /\ format' = format
  BY DEF ParseRow, IngestInv
<1>2. /\ i \in DOMAIN sheet.rows /\ Len(outcomes) = at /\ DOMAIN outcomes = 1 .. at
      /\ format \in Formats /\ at \in Nat
  BY <1>1, NextRow
<1>3. n \in Nat /\ at < n /\ i \in 1 .. n
  BY <1>1, RowsOfASheet DEF HowFar
<1>4. /\ outcomes' = Append(outcomes, OutcomeOf(i))
      /\ seen' = Noted(i)
      /\ stage' = IF i = n THEN AfterRows ELSE stage
      /\ at' = IF i = n THEN 0 ELSE i
  BY DEF ParseRow, Reported, IsLast
<1>5. /\ \E S : outcomes' \in Seq(S)
      /\ Len(outcomes') = i /\ DOMAIN outcomes' = 1 .. i
      /\ outcomes'[i] = OutcomeOf(i)
      /\ \A j \in 1 .. at : outcomes'[j] = outcomes[j]
  <2>1. PICK S : outcomes \in Seq(S)
    BY DEF IngestInv
  <2> DEFINE T == S \union {OutcomeOf(i)}
  <2>2. outcomes \in Seq(T) /\ OutcomeOf(i) \in T
    BY <2>1
  <2> HIDE DEF T
  <2>3. /\ Append(outcomes, OutcomeOf(i)) \in Seq(T)
        /\ Len(Append(outcomes, OutcomeOf(i))) = Len(outcomes) + 1
        /\ \A j \in 1 .. Len(outcomes) : Append(outcomes, OutcomeOf(i))[j] = outcomes[j]
        /\ Append(outcomes, OutcomeOf(i))[Len(outcomes) + 1] = OutcomeOf(i)
    BY <2>2, AppendProperties
  <2>4. DOMAIN Append(outcomes, OutcomeOf(i)) = 1 .. Len(outcomes) + 1
    BY <2>3
  <2> QED BY <2>3, <2>4, <1>2, <1>4
<1>6. /\ IsSheet(sheet)'
      /\ \A j : /\ IsUnusable(j)' <=> IsUnusable(j)
                /\ Identity(j)' = Identity(j)
                /\ Record(j)' = Record(j)
                /\ Parsed(j)' = Parsed(j)
      /\ \A record : FactorsThatHold(record)' = FactorsThatHold(record)
  BY <1>1, ReadingIsFixed
<1>7. HowFar'
  <2>1. CASE i = n /\ format = "land_records"
    <3>1. stage' = "units" /\ at' = 0
      BY <1>4, <2>1 DEF AfterRows
    <3> QED BY <1>1, <1>2, <1>3, <1>5, <2>1, <3>1 DEF HowFar, Stages
  <2>2. CASE i = n /\ format # "land_records"
    <3>1. stage' = "parsed" /\ at' = 0
      BY <1>4, <2>2 DEF AfterRows
    <3> QED BY <1>1, <1>2, <1>3, <1>5, <2>2, <3>1 DEF HowFar, Stages
  <2>3. CASE i # n
    <3>1. stage' = "rows" /\ at' = i
      BY <1>1, <1>4, <2>3
    <3>2. i < n
      BY <1>3, <2>3
    <3> QED BY <1>1, <1>2, <1>3, <1>5, <3>1, <3>2 DEF HowFar, Stages
  <2> QED BY <2>1, <2>2, <2>3
<1>8. \A j \in 1 .. i : ~Converted(j) /\ ~Converted(j)'
  <2>1. \A j : ~Converted(j)
    BY <1>1 DEF Converted
  <2>2. CASE i = n /\ format = "land_records"
    <3>1. stage' = "units" /\ at' = 0
      BY <1>4, <2>2 DEF AfterRows
    <3> QED BY <2>1, <3>1 DEF Converted
  <2>3. CASE i = n /\ format # "land_records"
    BY <1>1, <2>1, <2>3 DEF Converted
  <2>4. CASE i # n
    <3>1. stage' = "rows"
      BY <1>1, <1>4, <2>4
    <3> QED BY <2>1, <3>1 DEF Converted
  <2> QED BY <2>2, <2>3, <2>4
<1>9. \A j \in DOMAIN outcomes' : outcomes'[j] \in OutcomesOf(j)'
  <2> TAKE j \in DOMAIN outcomes'
  <2>1. OutcomesOf(j)' = OutcomesOf(j)
    <3>1. ~Converted(j) /\ ~Converted(j)'
      BY <1>5, <1>8
    <3>2. Rejected(j)' = Rejected(j)
      BY DEF Rejected, RowNumber
    <3>3. \A number : Duplicate(j, number)' = Duplicate(j, number)
      BY <3>2 DEF Duplicate
    <3>4. \A k : RowNumber(k)' = RowNumber(k)
      BY DEF RowNumber
    <3> QED BY <1>6, <3>1, <3>2, <3>3, <3>4 DEF OutcomesOf
  <2>2. outcomes'[j] \in OutcomesOf(j)
    <3>1. CASE j = i
      BY <1>1, <1>5, <3>1, OutcomeIsOneOfThem
    <3>2. CASE j # i
      <4>1. j \in 1 .. at
        BY <1>2, <1>5, <3>2
      <4> QED BY <1>2, <1>5, <4>1 DEF IngestInv
    <3> QED BY <3>1, <3>2
  <2> QED BY <2>1, <2>2
<1>10. SeenAsRead' /\ DuplicatesNamed'
  <2>1. SeenAsRead /\ DuplicatesNamed
    BY DEF IngestInv
  <2>2. \A k : RowNumber(k)' = RowNumber(k)
    BY DEF RowNumber
  <2>3. CASE IsUnusable(i)
    <3>1. seen' = seen /\ OutcomeOf(i).status = "rejected"
      BY <1>4, <2>3, Statuses DEF Noted, OutcomeOf
    <3>2. SeenAsRead'
      BY <1>2, <1>5, <1>6, <2>1, <2>2, <2>3, <3>1 DEF SeenAsRead
    <3>3. DuplicatesNamed'
      BY <1>2, <1>5, <1>6, <2>1, <2>2, <2>3, <3>1 DEF DuplicatesNamed
    <3> QED BY <3>2, <3>3
  <2>4. CASE ~IsUnusable(i) /\ IsSeen(i)
    <3>1. seen' = seen /\ Identity(i) \in DOMAIN seen
      BY <1>4, <2>4 DEF Noted, IsSeen
    <3>2. PICK j \in 1 .. at :
            /\ seen[Identity(i)] = RowNumber(j) /\ Identity(j) = Identity(i)
            /\ ~IsUnusable(j) /\ outcomes[j].status # "duplicate"
      BY <1>2, <2>1, <3>1 DEF SeenAsRead
    <3>3. OutcomeOf(i).status = "duplicate" /\ OutcomeOf(i).of = RowNumber(j)
      BY <2>4, <3>2, Statuses DEF OutcomeOf
    <3>4. SeenAsRead'
      BY <1>2, <1>5, <1>6, <2>1, <2>2, <3>1 DEF SeenAsRead
    <3>5. DuplicatesNamed'
      BY <1>2, <1>5, <1>6, <2>1, <2>2, <3>2, <3>3 DEF DuplicatesNamed
    <3> QED BY <3>4, <3>5
  <2>5. CASE ~IsUnusable(i) /\ ~IsSeen(i)
    <3>1. Identity(i) \notin DOMAIN seen
      BY <1>1, <1>2, <2>5, UsableRowsAreNamed DEF IsSeen
    <3>2. seen' = With(i) /\ OutcomeOf(i).status = "parsed"
      BY <1>4, <2>5, Statuses DEF Noted, OutcomeOf
    <3>3. /\ DOMAIN seen' = DOMAIN seen \union {Identity(i)}
          /\ seen'[Identity(i)] = RowNumber(i)
          /\ \A key \in DOMAIN seen : seen'[key] = seen[key]
      BY <3>1, <3>2 DEF With
    <3>4. SeenAsRead'
      BY <1>2, <1>5, <1>6, <2>1, <2>2, <2>5, <3>2, <3>3 DEF SeenAsRead
    <3>5. \A j \in 1 .. at : ~IsUnusable(j) => Identity(j) # Identity(i)
      BY <1>2, <2>1, <3>1 DEF SeenAsRead
    <3>6. DuplicatesNamed'
      BY <1>2, <1>5, <1>6, <2>1, <2>2, <3>2, <3>5 DEF DuplicatesNamed
    <3> QED BY <3>4, <3>6
  <2> QED BY <2>3, <2>4, <2>5
<1> QED BY <1>5, <1>6, <1>7, <1>9, <1>10 DEF IngestInv
(* The second pass rewrites one outcome, and only that of a parsed row.    *)
LEMMA ResolvedIsOneOfThem ==
    ASSUME NEW i, NEW o \in OutcomesOf(i), ~Converted(i), Converted(i)',
           sheet' = sheet, format' = format
    PROVE  /\ Resolved(o, i) \in OutcomesOf(i)'
           /\ o.status = "duplicate" => Resolved(o, i) = o
           /\ o.status # "duplicate" => Resolved(o, i).status # "duplicate"
<1>1. /\ IsUnusable(i)' <=> IsUnusable(i)
      /\ Record(i)' = Record(i) /\ Parsed(i)' = Parsed(i)
      /\ FactorsThatHold(Record(i))' = FactorsThatHold(Record(i))
  BY ReadingIsFixed
<1>2. Rejected(i)' = Rejected(i) /\ \A k : RowNumber(k)' = RowNumber(k)
  BY DEF Rejected, RowNumber
<1>3. \A number : Duplicate(i, number)' = Duplicate(i, number)
  BY <1>2 DEF Duplicate
<1>4. CASE IsUnusable(i)
  <2>1. o = Rejected(i) /\ o.status = "rejected"
    BY <1>4, Statuses DEF OutcomesOf
  <2>2. Resolved(o, i) = o
    BY <2>1 DEF Resolved
  <2>3. o \in OutcomesOf(i)'
    BY <1>1, <1>2, <1>4, <2>1 DEF OutcomesOf
  <2> QED BY <2>1, <2>2, <2>3
<1>5. CASE ~IsUnusable(i) /\ \E j \in 1 .. i - 1 : o = Duplicate(i, RowNumber(j))
  <2>1. PICK j \in 1 .. i - 1 : o = Duplicate(i, RowNumber(j))
    BY <1>5
  <2>2. o.status = "duplicate"
    BY <2>1, Statuses
  <2>3. Resolved(o, i) = o
    BY <2>2 DEF Resolved
  <2>4. o \in OutcomesOf(i)'
    BY <1>1, <1>2, <1>3, <1>5, <2>1 DEF OutcomesOf
  <2> QED BY <2>2, <2>3, <2>4
<1>6. CASE ~IsUnusable(i) /\ o = Parsed(i)
  <2>1. o.status = "parsed" /\ o.record = Record(i)
    BY <1>6, Statuses
  <2>2. CASE FactorFor(Record(i)) = None
    <3>1. Resolved(o, i) = Rejected(i) /\ FactorsThatHold(Record(i)) = {}
      BY <2>1, <2>2, FactorIsTheOneThatHolds DEF Resolved
    <3>2. Rejected(i) \in OutcomesOf(i)'
      BY <1>1, <1>2, <1>6, <3>1 DEF OutcomesOf
    <3> QED BY <2>1, <3>1, <3>2, Statuses
  <2>3. CASE FactorFor(Record(i)) # None
    <3> DEFINE factor == FactorFor(Record(i))
               sqft == Record(i).area.number * factor
    <3>1. Resolved(o, i) = [Parsed(i) EXCEPT !.sqft = sqft]
      BY <1>6, <2>1, <2>3 DEF Resolved
    <3>2. factor \in FactorsThatHold(Record(i)) /\ FactorsThatHold(Record(i)) # {}
      BY <2>3, FactorIsTheOneThatHolds
    <3>3. [Parsed(i) EXCEPT !.sqft = sqft] \in OutcomesOf(i)'
      <4> HIDE DEF factor
      <4> QED BY <1>1, <1>6, <3>2 DEF OutcomesOf
    <3>4. [Parsed(i) EXCEPT !.sqft = sqft].status = "parsed"
      BY DEF Parsed, Rejected
    <3> QED BY <2>1, <3>1, <3>3, <3>4
  <2> QED BY <2>2, <2>3
<1> QED BY <1>4, <1>5, <1>6 DEF OutcomesOf

LEMMA ConvertRowKeeps ==
    ASSUME IngestInv, ConvertRow
    PROVE  IngestInv'
<1> DEFINE n == Len(sheet.rows)
<1>0. PICK i : i = at + 1
  OBVIOUS
<1>1. /\ IsSheet(sheet) /\ HowFar /\ stage = "units"
      /\ sheet' = sheet /\ format' = format /\ seen' = seen
  BY DEF ConvertRow, IngestInv
<1>2. /\ n \in Nat /\ at \in Nat /\ at < n /\ i \in 1 .. n
      /\ Len(outcomes) = n /\ DOMAIN outcomes = 1 .. n
      /\ format = "land_records" /\ format \in Formats
  BY <1>0, <1>1, RowsOfASheet, OutcomesAreRows DEF HowFar
<1>3. /\ outcomes' = [outcomes EXCEPT ![i] = Resolved(outcomes[i], i)]
      /\ stage' = IF i = n THEN "parsed" ELSE stage
      /\ at' = IF i = n THEN 0 ELSE i
  BY <1>0 DEF ConvertRow, IsLast
<1>4. /\ \E S : outcomes' \in Seq(S)
      /\ Len(outcomes') = n /\ DOMAIN outcomes' = 1 .. n
      /\ outcomes'[i] = Resolved(outcomes[i], i)
      /\ \A j \in 1 .. n : j # i => outcomes'[j] = outcomes[j]
  <2>1. PICK S : outcomes \in Seq(S)
    BY DEF IngestInv
  <2> DEFINE T == S \union {Resolved(outcomes[i], i)}
  <2>2. outcomes \in Seq(T) /\ Resolved(outcomes[i], i) \in T
    BY <2>1
  <2> HIDE DEF T
  <2>3. outcomes' \in Seq(T) /\ Len(outcomes') = Len(outcomes)
    BY <2>2, <1>2, <1>3, ExceptSeq
  <2>4. DOMAIN outcomes' = DOMAIN outcomes
    BY <1>3
  <2> QED BY <1>2, <1>3, <2>3, <2>4
<1>5. /\ IsSheet(sheet)'
      /\ \A j : /\ IsUnusable(j)' <=> IsUnusable(j)
                /\ Identity(j)' = Identity(j)
                /\ Record(j)' = Record(j)
                /\ Parsed(j)' = Parsed(j)
      /\ \A record : FactorsThatHold(record)' = FactorsThatHold(record)
  BY <1>1, ReadingIsFixed
<1>6. HowFar'
  <2>1. CASE i = n
    BY <1>1, <1>2, <1>3, <1>4, <2>1 DEF HowFar, Stages
  <2>2. CASE i # n
    <3>1. i < n /\ i \in 0 .. n
      BY <1>2, <2>2
    <3> QED BY <1>1, <1>2, <1>3, <1>4, <2>2, <3>1 DEF HowFar, Stages
  <2> QED BY <2>1, <2>2
<1>7. /\ ~Converted(i) /\ Converted(i)'
      /\ \A j \in 1 .. n : j # i => (Converted(j)' <=> Converted(j))
  <2>1. ~Converted(i)
    BY <1>0, <1>1, <1>2 DEF Converted
  <2>2. CASE i = n
    <3>1. stage' = "parsed" /\ \A j : Converted(j)'
      BY <1>1, <1>2, <1>3, <2>2 DEF Converted
    <3>2. \A j \in 1 .. n : j # i => Converted(j)
      BY <1>0, <1>1, <1>2, <2>2 DEF Converted
    <3> QED BY <2>1, <3>1, <3>2
  <2>3. CASE i # n
    <3>1. stage' = "units" /\ at' = i
      BY <1>1, <1>3, <2>3
    <3>2. \A j \in 1 .. n : j # i => (j <= i <=> j <= at)
      BY <1>0, <1>2
    <3> QED BY <1>1, <1>2, <2>1, <3>1, <3>2 DEF Converted
  <2> QED BY <2>2, <2>3
<1>8. outcomes[i] \in OutcomesOf(i)
  BY <1>2 DEF IngestInv
<1>9. /\ Resolved(outcomes[i], i) \in OutcomesOf(i)'
      /\ outcomes[i].status = "duplicate" => Resolved(outcomes[i], i) = outcomes[i]
      /\ outcomes[i].status # "duplicate" =>
           Resolved(outcomes[i], i).status # "duplicate"
  BY <1>1, <1>7, <1>8, ResolvedIsOneOfThem
<1>10. \A j \in DOMAIN outcomes' : outcomes'[j] \in OutcomesOf(j)'
  <2> TAKE j \in DOMAIN outcomes'
  <2>1. CASE j = i
    BY <1>4, <1>9, <2>1
  <2>2. CASE j # i
    <3>1. OutcomesOf(j)' = OutcomesOf(j)
      <4>1. Converted(j)' <=> Converted(j)
        BY <1>4, <1>7, <2>2
      <4>2. Rejected(j)' = Rejected(j)
        BY DEF Rejected, RowNumber
      <4>3. \A number : Duplicate(j, number)' = Duplicate(j, number)
        BY <4>2 DEF Duplicate
      <4>4. \A k : RowNumber(k)' = RowNumber(k)
        BY DEF RowNumber
      <4> QED BY <1>5, <4>1, <4>2, <4>3, <4>4 DEF OutcomesOf
    <3>2. outcomes'[j] = outcomes[j] /\ j \in DOMAIN outcomes
      BY <1>2, <1>4, <2>2
    <3> QED BY <3>1, <3>2 DEF IngestInv
  <2> QED BY <2>1, <2>2
<1>11. \A j \in 1 .. n :
         /\ outcomes'[j].status = "duplicate" <=> outcomes[j].status = "duplicate"
         /\ outcomes[j].status = "duplicate" => outcomes'[j] = outcomes[j]
  BY <1>4, <1>9
<1>12. \A k : RowNumber(k)' = RowNumber(k)
  BY DEF RowNumber
<1>13. SeenAsRead'
  BY <1>1, <1>2, <1>4, <1>5, <1>11, <1>12 DEF SeenAsRead, IngestInv
<1>14. DuplicatesNamed'
  <2>1. DuplicatesNamed
    BY DEF IngestInv
  <2>2. DOMAIN outcomes' = DOMAIN outcomes
    BY <1>2, <1>4
  <2>3. \A j \in DOMAIN outcomes : \A k \in 1 .. j - 1 : k \in 1 .. n
    BY <1>2
  <2> QED BY <1>2, <1>5, <1>11, <1>12, <2>1, <2>2, <2>3 DEF DuplicatesNamed
<1> QED BY <1>4, <1>5, <1>6, <1>10, <1>13, <1>14 DEF IngestInv

LEMMA InvIsKept == IngestInv /\ [IngestNext]_ingestVars => IngestInv'
<1> SUFFICES ASSUME IngestInv, [IngestNext]_ingestVars PROVE IngestInv'
  OBVIOUS
<1>1. CASE Detect
  BY <1>1, DetectKeeps
<1>2. CASE ParseRow
  BY <1>2, ParseRowKeeps
<1>3. CASE ConvertRow
  BY <1>3, ConvertRowKeeps
<1>4. CASE UNCHANGED ingestVars
  <2>1. /\ sheet' = sheet /\ stage' = stage /\ format' = format /\ outcomes' = outcomes
        /\ seen' = seen /\ at' = at
    BY <1>4 DEF ingestVars
  <2>2. /\ IsSheet(sheet)' <=> IsSheet(sheet)
        /\ \A i : /\ IsUnusable(i)' <=> IsUnusable(i)
                  /\ Identity(i)' = Identity(i)
                  /\ Record(i)' = Record(i)
                  /\ Parsed(i)' = Parsed(i)
        /\ \A record : FactorsThatHold(record)' = FactorsThatHold(record)
    BY <2>1, ReadingIsFixed
  <2>3. HowFar' <=> HowFar
    BY <2>1 DEF HowFar
  <2>4. \A i : OutcomesOf(i)' = OutcomesOf(i)
    <3> TAKE i
    <3>1. Converted(i)' <=> Converted(i)
      BY <2>1 DEF Converted
    <3>2. Rejected(i)' = Rejected(i) /\ \A k : RowNumber(k)' = RowNumber(k)
      BY DEF Rejected, RowNumber
    <3>3. \A number : Duplicate(i, number)' = Duplicate(i, number)
      BY <3>2 DEF Duplicate
    <3> QED BY <2>2, <3>1, <3>2, <3>3 DEF OutcomesOf
  <2>5. \A k : RowNumber(k)' = RowNumber(k)
    BY DEF RowNumber
  <2>6. SeenAsRead' /\ DuplicatesNamed'
    BY <2>1, <2>2, <2>5 DEF SeenAsRead, DuplicatesNamed, IngestInv
  <2> QED BY <2>1, <2>2, <2>3, <2>4, <2>6 DEF IngestInv
<1> QED BY <1>1, <1>2, <1>3, <1>4 DEF IngestNext
-------------------------------------------------------------------------------
(* A field of numbers that must be given holds one above zero.             *)
LEMMA NeededNumber ==
    ASSUME IsSheet(sheet), NEW i \in DOMAIN sheet.rows, ~IsUnusable(i),
           NEW n, IsAField(n), Schema.fields[n].required,
           Schema.fields[n].kind = "positive"
    PROVE  Record(i)[n].number \in Int /\ Record(i)[n].number > 0
<1>0. /\ CellFor(i, n) \in Cell
      /\ ~IsBlank(CellFor(i, n))
      /\ Readable(Schema.fields[n].kind, CellFor(i, n))
      /\ FieldValue(i, n) = Coerced(Schema.fields[n].kind, CellFor(i, n))
  BY NeededIsRead
<1>1. /\ CellFor(i, n) \in Cell
      /\ Readable("positive", CellFor(i, n))
      /\ FieldValue(i, n) = Coerced("positive", CellFor(i, n))
  BY <1>0
<1>2. CellFor(i, n).number # None /\ CellFor(i, n).number > 0
  BY <1>1 DEF Readable
<1>3. CellFor(i, n).number \in Int
  BY <1>1, <1>2 DEF Cell
<1>4. FieldValue(i, n).number = CellFor(i, n).number
  BY <1>1, CoercedKeeps
<1>5. Record(i)[n] = FieldValue(i, n)
  BY DEF Record, IsAField
<1> QED BY <1>2, <1>3, <1>4, <1>5

LEMMA LandHasAnArea ==
    ASSUME IsSheet(sheet), format = "land_records",
           NEW i \in DOMAIN sheet.rows, ~IsUnusable(i)
    PROVE  Record(i).area.number \in Int
<1>1. "area" \in Fields
  BY DEF Fields, Schema, SchemaOf, LandRecords
<1>2. Schema.fields["area"] = Needed("positive", <<"area", "extent", "area_sqft">>)
  BY DEF Schema, SchemaOf, LandRecords
<1>3. /\ IsAField("area") /\ Schema.fields["area"].required
      /\ Schema.fields["area"].kind = "positive"
  BY <1>1, <1>2 DEF IsAField, Needed
<1> QED BY <1>3, NeededNumber

(* The five things a row can have become.                                  *)
LEMMA FiveEndings ==
    ASSUME NEW i, NEW o \in OutcomesOf(i)
    PROVE  \/ IsUnusable(i) /\ o = Rejected(i)
           \/ ~IsUnusable(i) /\ \E j \in 1 .. i - 1 : o = Duplicate(i, RowNumber(j))
           \/ ~IsUnusable(i) /\ ~Converted(i) /\ o = Parsed(i)
           \/ /\ ~IsUnusable(i) /\ Converted(i) /\ FactorsThatHold(Record(i)) = {}
              /\ o = Rejected(i)
           \/ /\ ~IsUnusable(i) /\ Converted(i)
              /\ \E factor \in FactorsThatHold(Record(i)) :
                    o = [Parsed(i) EXCEPT !.sqft = Record(i).area.number * factor]
<1>1. CASE IsUnusable(i)
  BY <1>1 DEF OutcomesOf
<1>2. CASE ~IsUnusable(i) /\ ~Converted(i)
  BY <1>2 DEF OutcomesOf
<1>3. CASE ~IsUnusable(i) /\ Converted(i) /\ FactorsThatHold(Record(i)) = {}
  BY <1>3 DEF OutcomesOf
<1>4. CASE ~IsUnusable(i) /\ Converted(i) /\ FactorsThatHold(Record(i)) # {}
  BY <1>4 DEF OutcomesOf
<1> QED BY <1>1, <1>2, <1>3, <1>4

LEMMA RowsOfEndings ==
    ASSUME NEW i, NEW o \in OutcomesOf(i)
    PROVE  o.row = RowNumber(i)
<1>1. \A number : Duplicate(i, number).row = RowNumber(i)
  BY Statuses
<1>2. Rejected(i).row = RowNumber(i) /\ Parsed(i).row = RowNumber(i)
  BY Statuses
<1>3. \A sqft : [Parsed(i) EXCEPT !.sqft = sqft].row = RowNumber(i)
  BY DEF Parsed, Rejected
<1>4. CASE o = Rejected(i)
  BY <1>2, <1>4
<1>5. CASE \E j \in 1 .. i - 1 : o = Duplicate(i, RowNumber(j))
  BY <1>1, <1>5
<1>6. CASE o = Parsed(i)
  BY <1>2, <1>6
<1>7. CASE \E factor \in FactorsThatHold(Record(i)) :
             o = [Parsed(i) EXCEPT !.sqft = Record(i).area.number * factor]
  BY <1>3, <1>7
<1> QED BY FiveEndings, <1>4, <1>5, <1>6, <1>7

(* The invariant gives what is said of the outcomes.                       *)
LEMMA InvNoRowIsLost == IngestInv => NoRowIsLost
<1> SUFFICES ASSUME IngestInv PROVE NoRowIsLost
  OBVIOUS
<1>1. ReadAll => Len(outcomes) = Len(sheet.rows)
  BY DEF IngestInv, HowFar, ReadAll
<1>2. \A i \in DOMAIN outcomes : outcomes[i].row = RowNumber(i)
  <2> TAKE i \in DOMAIN outcomes
  <2>1. outcomes[i] \in OutcomesOf(i)
    BY DEF IngestInv
  <2> QED BY <2>1, RowsOfEndings
<1> QED BY <1>1, <1>2 DEF NoRowIsLost

LEMMA InvLandIsNotGuessed == IngestInv => LandIsNotGuessed
<1> SUFFICES ASSUME IngestInv, stage = "parsed", format = "land_records",
                    NEW i \in DOMAIN outcomes
             PROVE  /\ outcomes[i].status = "parsed" =>
                         outcomes[i].sqft \in {Record(i).area.number * factor :
                                                 factor \in FactorsThatHold(Record(i))}
                    /\ outcomes[i].status = "rejected" /\ ~IsUnusable(i) =>
                         FactorsThatHold(Record(i)) = {}
  BY DEF LandIsNotGuessed
<1>1. Converted(i) /\ outcomes[i] \in OutcomesOf(i)
  BY DEF Converted, IngestInv
<1>2. \A sqft : /\ [Parsed(i) EXCEPT !.sqft = sqft].status = "parsed"
                /\ [Parsed(i) EXCEPT !.sqft = sqft].sqft = sqft
  BY DEF Parsed, Rejected
<1>3. CASE IsUnusable(i) /\ outcomes[i] = Rejected(i)
  BY <1>3, Statuses
<1>4. CASE ~IsUnusable(i) /\ \E j \in 1 .. i - 1 : outcomes[i] = Duplicate(i, RowNumber(j))
  BY <1>4, Statuses
<1>5. CASE ~IsUnusable(i) /\ FactorsThatHold(Record(i)) = {} /\ outcomes[i] = Rejected(i)
  BY <1>5, Statuses
<1>6. CASE /\ ~IsUnusable(i)
           /\ \E factor \in FactorsThatHold(Record(i)) :
                 outcomes[i] = [Parsed(i) EXCEPT !.sqft = Record(i).area.number * factor]
  BY <1>2, <1>6
<1> QED BY <1>1, <1>3, <1>4, <1>5, <1>6, FiveEndings

(* A readable row that is no duplicate is parsed until the second pass     *)
(* finds no factor for it.                                                 *)
LEMMA InvDuplicatesNameTheirOriginal == IngestInv => DuplicatesNameTheirOriginal
<1> SUFFICES ASSUME IngestInv PROVE DuplicatesNameTheirOriginal
  OBVIOUS
<1>1. DuplicatesNamed
  BY DEF IngestInv
<1>2. ASSUME NEW i \in DOMAIN outcomes, outcomes[i].status # "duplicate", ~IsUnusable(i)
      PROVE  outcomes[i].status = "parsed" \/ TurnedAway(i)
  <2>1. \A sqft : [Parsed(i) EXCEPT !.sqft = sqft].status = "parsed"
    BY DEF Parsed, Rejected
  <2>2. CASE ~Converted(i) /\ outcomes[i] = Parsed(i)
    BY <2>2, Statuses
  <2>3. CASE Converted(i) /\ FactorsThatHold(Record(i)) = {} /\ outcomes[i] = Rejected(i)
    BY <2>3, Statuses DEF Converted, TurnedAway
  <2>4. CASE \E factor \in FactorsThatHold(Record(i)) :
                outcomes[i] = [Parsed(i) EXCEPT !.sqft = Record(i).area.number * factor]
    BY <2>1, <2>4
  <2>5. CASE \E j \in 1 .. i - 1 : outcomes[i] = Duplicate(i, RowNumber(j))
    BY <1>2, <2>5, Statuses
  <2>6. outcomes[i] \in OutcomesOf(i)
    BY DEF IngestInv
  <2> QED BY <1>2, <2>2, <2>3, <2>4, <2>5, <2>6 DEF OutcomesOf
<1> QED BY <1>1, <1>2 DEF DuplicatesNamed, DuplicatesNameTheirOriginal

LEMMA InvTypeOK == IngestInv => IngestTypeOK
<1> SUFFICES ASSUME IngestInv PROVE IngestTypeOK
  OBVIOUS
<1>1. IsSheet(sheet) /\ HowFar
  BY DEF IngestInv
<1>2. /\ DOMAIN outcomes = 1 .. Len(outcomes)
      /\ DOMAIN outcomes \subseteq DOMAIN sheet.rows
  BY OutcomesAreRows
<1>3. \A j \in DOMAIN outcomes : RowNumber(j) \in Nat
  BY <1>2 DEF RowNumber, FirstDataRow
<1>4. \A key \in DOMAIN seen : seen[key] \in Nat
  BY <1>3 DEF IngestInv, SeenAsRead
<1>5. \A i \in DOMAIN outcomes : IsOutcome(outcomes[i])
  <2> TAKE i \in DOMAIN outcomes
  <2>1. outcomes[i] \in OutcomesOf(i)
    BY DEF IngestInv
  <2>2. RowNumber(i) \in Nat
    BY <1>3
  <2>3. IsOutcome(Rejected(i))
    BY <2>2 DEF IsOutcome, Rejected
  <2>4. \A number \in Nat : IsOutcome(Duplicate(i, number))
    BY <2>2 DEF IsOutcome, Duplicate, Rejected
  <2>5. IsOutcome(Parsed(i))
    BY <2>2 DEF IsOutcome, Parsed, Rejected, Record
  <2>6. \A sqft \in Int : IsOutcome([Parsed(i) EXCEPT !.sqft = sqft])
    BY <2>2 DEF IsOutcome, Parsed, Rejected, Record
  <2>7. \A j \in 1 .. i - 1 : RowNumber(j) \in Nat
    BY DEF RowNumber, FirstDataRow
  <2>8. ASSUME ~IsUnusable(i), Converted(i), NEW factor \in FactorsThatHold(Record(i))
        PROVE  Record(i).area.number * factor \in Int
    <3>1. Record(i).area.number \in Int
      BY <1>1, <1>2, <2>8, LandHasAnArea DEF Converted
    <3>2. factor \in Nat
      BY <2>8, FactorIsTheOneThatHolds
    <3> QED BY <3>1, <3>2
  <2>9. CASE outcomes[i] = Rejected(i)
    BY <2>3, <2>9
  <2>10. CASE \E j \in 1 .. i - 1 : outcomes[i] = Duplicate(i, RowNumber(j))
    BY <2>4, <2>7, <2>10
  <2>11. CASE outcomes[i] = Parsed(i)
    BY <2>5, <2>11
  <2>12. CASE /\ ~IsUnusable(i) /\ Converted(i)
              /\ \E factor \in FactorsThatHold(Record(i)) :
                    outcomes[i] = [Parsed(i) EXCEPT !.sqft = Record(i).area.number * factor]
    BY <2>6, <2>8, <2>12
  <2> QED BY <2>1, <2>9, <2>10, <2>11, <2>12, FiveEndings
<1> QED BY <1>1, <1>2, <1>4, <1>5 DEF IngestTypeOK, HowFar

(***************************************************************************)
(* The invariant holds of every behaviour of IngestSpec.                   *)
(***************************************************************************)
THEOREM InvHolds == IngestSpec => []IngestInv
<1>1. IngestInit => IngestInv
  BY InvAtFirst
<1>2. IngestInv /\ [IngestNext]_ingestVars => IngestInv'
  BY InvIsKept
<1> QED BY <1>1, <1>2, PTL DEF IngestSpec

(* Every variable of a sheet's parse stays in its type.                    *)
THEOREM IngestTypeCorrect == IngestSpec => []IngestTypeOK
  BY InvHolds, InvTypeOK, PTL

(* The rows reported by parse_rows and _convert_land_areas are the rows    *)
(* read, one for one and in order.                                         *)
THEOREM NoRowLost == IngestSpec => []NoRowIsLost
  BY InvHolds, InvNoRowIsLost, PTL

(* A duplicate names an earlier readable row of its identity.  The first   *)
(* readable row of an identity is kept, unless _convert_land_areas has no  *)
(* factor for it, and no other row of the identity is.                     *)
THEOREM DuplicatesHaveOriginals == IngestSpec => []DuplicatesNameTheirOriginal
  BY InvHolds, InvDuplicatesNameTheirOriginal, PTL

(* The square feet _convert_land_areas gives a parcel are its area by a    *)
(* factor that holds for it, and no parcel that has one is rejected.       *)
THEOREM LandNotGuessed == IngestSpec => []LandIsNotGuessed
  BY InvHolds, InvLandIsNotGuessed, PTL

-------------------------------------------------------------------------------
(***************************************************************************)
(* The calculator.  Its figures are, and stay, what is computed of the     *)
(* rows parsed: a sheet that was read or refused is not read again.        *)
(***************************************************************************)
FiguresAreComputed ==
    figures # None =>
        /\ stage \in {"parsed", "refused"}
        /\ figures = IF ParsedRows = {} THEN [type |-> "empty"] ELSE Computed(ParsedRows)

CalculatorInv == IngestInv /\ FiguresAreComputed

LEMMA ComputedStays ==
    ASSUME UNCHANGED <<outcomes, format>>
    PROVE  ParsedRows' = ParsedRows /\ Computed(ParsedRows)' = Computed(ParsedRows)
  BY DEF ParsedRows, Computed, AnalyseComparables, AnalyseRentRoll,
         AnalyseConstructionStages, AnalysePortfolio, LandArea, AnnualSum, Total, Sum,
         NumberOf, TextOf, TypeOf, OfType

LEMMA CalculatorInvIsKept ==
    CalculatorInv /\ [CalculatorNext]_calculatorVars => CalculatorInv'
<1> SUFFICES ASSUME CalculatorInv, [CalculatorNext]_calculatorVars PROVE CalculatorInv'
  OBVIOUS
<1>1. [IngestNext]_ingestVars
  BY DEF CalculatorNext, Compute, calculatorVars, ingestVars
<1>2. IngestInv'
  BY <1>1, InvIsKept DEF CalculatorInv
<1>3. CASE Compute
  <2>1. stage' = stage /\ stage \in {"parsed", "refused"} /\ UNCHANGED <<outcomes, format>>
    BY <1>3 DEF Compute, ingestVars
  <2>2. figures' = IF ParsedRows = {} THEN [type |-> "empty"] ELSE Computed(ParsedRows)
    BY <1>3 DEF Compute
  <2> QED BY <1>2, <2>1, <2>2, ComputedStays DEF CalculatorInv, FiguresAreComputed
<1>4. CASE UNCHANGED figures /\ figures = None
  BY <1>2, <1>4 DEF CalculatorInv, FiguresAreComputed
<1>5. CASE UNCHANGED figures /\ figures # None
  <2>1. stage \in {"parsed", "refused"}
    BY <1>5 DEF CalculatorInv, FiguresAreComputed
  <2>2. ~IngestNext
    BY <2>1 DEF IngestNext, Detect, ParseRow, ConvertRow
  <2>3. stage' = stage /\ UNCHANGED <<outcomes, format>>
    BY <1>1, <2>2 DEF ingestVars
  <2> QED BY <1>2, <1>5, <2>1, <2>3, ComputedStays DEF CalculatorInv, FiguresAreComputed
<1>6. UNCHANGED figures \/ Compute
  BY DEF CalculatorNext, calculatorVars
<1> QED BY <1>3, <1>4, <1>5, <1>6

LEMMA CalculatorInvHolds == CalculatorSpec => []CalculatorInv
<1>1. CalculatorInit => CalculatorInv
  BY InvAtFirst DEF CalculatorInit, CalculatorInv, FiguresAreComputed
<1> QED BY <1>1, CalculatorInvIsKept, PTL DEF CalculatorSpec

(* The figures of a kind are of a sheet of its format.                     *)
LEMMA FiguresOfAFormat ==
    ASSUME CalculatorInv, figures # None, figures.type # "empty"
    PROVE  /\ stage = "parsed"
           /\ figures.type = "comparables" =>
                format = "comparables" /\ figures = AnalyseComparables(ParsedRows)
           /\ figures.type = "rent_roll" =>
                format = "lease_schedule" /\ figures = AnalyseRentRoll(ParsedRows)
           /\ figures.type = "construction" =>
                /\ format = "construction_stages"
                /\ figures = AnalyseConstructionStages(ParsedRows)
           /\ figures.type = "portfolio" =>
                format = "portfolio" /\ figures = AnalysePortfolio(ParsedRows)
<1>1. IngestInv /\ HowFar
  BY DEF CalculatorInv, IngestInv
<1>2. ParsedRows # {} /\ figures = Computed(ParsedRows) /\ stage \in {"parsed", "refused"}
  BY DEF CalculatorInv, FiguresAreComputed
<1>3. stage = "parsed" /\ format \in Formats
  <2>1. stage # "refused"
    BY <1>1, <1>2 DEF HowFar, ParsedRows
  <2> QED BY <1>1, <1>2, <2>1 DEF HowFar
<1>4. /\ AnalyseComparables(ParsedRows).type = "comparables"
      /\ AnalyseRentRoll(ParsedRows).type = "rent_roll"
      /\ AnalyseConstructionStages(ParsedRows).type = "construction"
      /\ AnalysePortfolio(ParsedRows).type = "portfolio"
      /\ LandArea(ParsedRows).type = "land_records"
  BY DEF AnalyseComparables, AnalyseRentRoll, AnalyseConstructionStages, AnalysePortfolio,
         LandArea
<1>5. \/ format = "comparables" /\ figures = AnalyseComparables(ParsedRows)
      \/ format = "lease_schedule" /\ figures = AnalyseRentRoll(ParsedRows)
      \/ format = "construction_stages" /\ figures = AnalyseConstructionStages(ParsedRows)
      \/ format = "portfolio" /\ figures = AnalysePortfolio(ParsedRows)
      \/ format = "land_records" /\ figures = LandArea(ParsedRows)
  BY <1>2, <1>3 DEF Computed, Formats, AllSchemas
<1> QED BY <1>3, <1>4, <1>5

(* A row parsed is a usable row, kept as it was read.                      *)
LEMMA ParsedRowsAreRecords ==
    ASSUME IngestInv, NEW i \in ParsedRows
    PROVE  i \in DOMAIN sheet.rows /\ ~IsUnusable(i) /\ outcomes[i].record = Record(i)
<1>1. i \in DOMAIN sheet.rows /\ i \in DOMAIN outcomes /\ outcomes[i].status = "parsed"
  BY OutcomesAreRows DEF ParsedRows
<1>2. outcomes[i] \in OutcomesOf(i)
  BY <1>1 DEF IngestInv
<1>3. CASE outcomes[i] = Rejected(i)
  BY <1>1, <1>3, Statuses
<1>4. CASE \E j \in 1 .. i - 1 : outcomes[i] = Duplicate(i, RowNumber(j))
  BY <1>1, <1>4, Statuses
<1>5. CASE ~IsUnusable(i) /\ outcomes[i] = Parsed(i)
  BY <1>1, <1>5, Statuses
<1>6. CASE /\ ~IsUnusable(i)
           /\ \E factor \in FactorsThatHold(Record(i)) :
                outcomes[i] = [Parsed(i) EXCEPT !.sqft = Record(i).area.number * factor]
  <2>1. \A sqft : [Parsed(i) EXCEPT !.sqft = sqft].record = Record(i)
    BY DEF Parsed, Rejected
  <2> QED BY <1>1, <1>6, <2>1
<1> QED BY <1>2, <1>3, <1>4, <1>5, <1>6, FiveEndings

LEMMA ComparablesHaveRates ==
    ASSUME IngestInv, format = "comparables", NEW i \in ParsedRows
    PROVE  NumberOf(i, "sale_price") > 0 /\ NumberOf(i, "area") > 0
<1>1. IsSheet(sheet)
  BY DEF IngestInv
<1>2. IsAField("sale_price") /\ IsAField("area")
  <2>1. "sale_price" \in Fields /\ "area" \in Fields
    BY DEF Fields, Schema, SchemaOf, Comparables
  <2>2. /\ Schema.fields["sale_price"] =
              Needed("positive", <<"sale_price", "transaction_value",
                                   "market_value", "consideration">>)
        /\ Schema.fields["area"] =
              Needed("positive", <<"area_sqft", "area", "built_up_area", "saleable_area">>)
    BY DEF Schema, SchemaOf, Comparables
  <2> QED BY <2>1, <2>2 DEF IsAField, Needed
<1>3. /\ Schema.fields["sale_price"].required /\ Schema.fields["sale_price"].kind = "positive"
      /\ Schema.fields["area"].required /\ Schema.fields["area"].kind = "positive"
  BY DEF Schema, SchemaOf, Comparables, Needed
<1>4. /\ Record(i)["sale_price"].number \in Int /\ Record(i)["sale_price"].number > 0
      /\ Record(i)["area"].number \in Int /\ Record(i)["area"].number > 0
  BY <1>1, <1>2, <1>3, ParsedRowsAreRecords, NeededNumber
<1>5. \A number \in Int : number # None
  BY NoneIsNothingAssumption
<1> QED BY <1>4, <1>5, ParsedRowsAreRecords DEF NumberOf

(* Every comparable analyse_comparables counts has a rate: none is passed  *)
(* on by the parser to be skipped by the calculator.                       *)
THEOREM ComparablesCount == CalculatorSpec => []EveryComparableCounts
<1>1. CalculatorInv => EveryComparableCounts
  <2> SUFFICES ASSUME CalculatorInv, IsComputed("comparables")
               PROVE  /\ figures.count = Cardinality(ParsedRows)
                      /\ figures.rates = figures.count
    BY DEF EveryComparableCounts
  <2>1. format = "comparables" /\ figures = AnalyseComparables(ParsedRows)
    BY FiguresOfAFormat DEF IsComputed
  <2>2. {i \in ParsedRows : NumberOf(i, "sale_price") > 0 /\ NumberOf(i, "area") > 0}
          = ParsedRows
    BY <2>1, ComparablesHaveRates DEF CalculatorInv
  <2> QED BY <2>1, <2>2 DEF AnalyseComparables
<1> QED BY <1>1, CalculatorInvHolds, PTL

-------------------------------------------------------------------------------
(***************************************************************************)
(* The sums.  The fields that are summed hold numbers that are not         *)
(* negative, 0 where nothing was given.                                    *)
(***************************************************************************)
IsAmount(n) ==
    /\ IsAField(n)
    /\ \/ Schema.fields[n].kind \in {"positive", "non_negative"} /\ Schema.fields[n].required
       \/ Schema.fields[n].kind = "non_negative" /\ Schema.fields[n].default = Zero

LEMMA AmountsAreNatural ==
    ASSUME IngestInv, NEW n, IsAmount(n), NEW i \in ParsedRows
    PROVE  NumberOf(i, n) \in Nat
<1>1. IsSheet(sheet) /\ i \in DOMAIN sheet.rows /\ ~IsUnusable(i) /\ IsAField(n)
  BY ParsedRowsAreRecords DEF IngestInv, IsAmount
<1>2. outcomes[i].record[n] = FieldValue(i, n)
  BY <1>1, ParsedRowsAreRecords DEF Record, IsAField
<1>3. \A number \in Int : number # None
  BY NoneIsNothingAssumption
<1>4. CASE IsBlank(CellFor(i, n))
  <2>1. ~Schema.fields[n].required
    BY <1>1, <1>4 DEF IsUnusable, Problem, IsAField
  <2>2. FieldValue(i, n) = Zero
    BY <1>4, <2>1 DEF FieldValue, IsAmount
  <2> QED BY <1>2, <1>3, <2>2 DEF NumberOf, Zero
<1>5. CASE ~IsBlank(CellFor(i, n))
  <2> DEFINE cell == CellFor(i, n)
             kind == Schema.fields[n].kind
  <2>1. cell \in Cell
    BY <1>1, <1>5, GivenCellsAreCells
  <2>2. Readable(kind, cell) /\ FieldValue(i, n) = Coerced(kind, cell)
    BY <1>1, <1>5 DEF IsUnusable, Problem, IsAField, FieldValue
  <2>3. kind \in {"positive", "non_negative"}
    BY DEF IsAmount
  <2> HIDE DEF cell, kind
  <2>4. cell.number # None /\ (cell.number > 0 \/ cell.number >= 0)
    <3>1. CASE kind = "positive"
      BY <2>2, <3>1 DEF Readable
    <3>2. CASE kind = "non_negative"
      BY <2>2, <3>2 DEF Readable
    <3> QED BY <2>3, <3>1, <3>2
  <2>5. FieldValue(i, n).number = cell.number
    BY <2>1, <2>2, <2>3, CoercedKeeps
  <2>6. cell.number \in Nat
    <3>1. cell.number \in Int
      BY <2>1, <2>4 DEF Cell
    <3> QED BY <2>4, <3>1
  <2> QED BY <1>2, <2>4, <2>5, <2>6 DEF NumberOf
<1> QED BY <1>4, <1>5

(* What is summed of some of the rows is summed of one function of all.    *)
LEMMA SumsOfRows ==
    ASSUME IngestInv, NEW n, IsAmount(n)
    PROVE  /\ IsFiniteSet(ParsedRows)
           /\ \A i \in ParsedRows : [j \in ParsedRows |-> NumberOf(j, n)][i] \in Nat
           /\ \A rows \in SUBSET ParsedRows :
                /\ Sum(n, rows) = SumFunctionOnSet([i \in ParsedRows |-> NumberOf(i, n)], rows)
                /\ Sum(n, rows) \in Nat
                /\ IsFiniteSet(rows)
<1> DEFINE f == [i \in ParsedRows |-> NumberOf(i, n)]
<1>1. IsFiniteSet(ParsedRows)
  <2>1. ParsedRows \in SUBSET (1 .. Len(outcomes)) /\ Len(outcomes) \in Nat
    BY OutcomesAreRows DEF ParsedRows
  <2>2. IsFiniteSet(1 .. Len(outcomes))
    BY <2>1, FS_Interval
  <2> QED BY <2>1, <2>2, FS_Subset
<1>2. \A i \in ParsedRows : f[i] \in Nat
  BY AmountsAreNatural
<1>3. ASSUME NEW rows \in SUBSET ParsedRows
      PROVE  /\ Sum(n, rows) = SumFunctionOnSet(f, rows)
             /\ Sum(n, rows) \in Nat /\ IsFiniteSet(rows)
  <2> DEFINE g == [i \in rows |-> NumberOf(i, n)]
  <2>1. IsFiniteSet(rows)
    BY <1>1, FS_Subset
  <2>2. Sum(n, rows) = SumFunctionOnSet(g, rows)
    <3>1. DOMAIN g = rows
      OBVIOUS
    <3> QED BY <3>1 DEF Sum, SumFunction
  <2>3. \A i \in rows : f[i] \in Nat /\ f[i] \in Int /\ g[i] = f[i]
    BY <1>2
  <2> HIDE DEF f, g
  <2>4. SumFunctionOnSet(f, rows) = SumFunctionOnSet(g, rows)
    BY <2>1, <2>3, SumSame
  <2>5. SumFunctionOnSet(f, rows) \in Nat
    BY <2>1, <2>3, SumNat
  <2> QED BY <2>1, <2>2, <2>4, <2>5
<1> QED BY <1>1, <1>2, <1>3

LEMMA PaiseOfNatural ==
    ASSUME NEW s \in Nat
    PROVE  /\ Paise(s) = Rounded(s, Fine)
           /\ Paise(s) \in Nat
           /\ 2 * Fine * Paise(s) <= 2 * s + Fine
           /\ 2 * s < 2 * Fine * Paise(s) + Fine
<1>1. Fine \in Nat \ {0}
  BY FineAssumption
<1>2. Paise(s) = Rounded(s, Fine)
  BY <1>1 DEF Paise, RoundedSigned
<1> QED BY <1>1, <1>2, RoundedBounds

(* Twelve roundings of a month are within six of the rounding of a year.   *)
LEMMA TwelveMonths ==
    ASSUME NEW d \in Nat \ {0}, NEW month \in Nat, NEW m \in Nat, NEW y \in Nat,
           2 * d * m <= 2 * month + d, 2 * month < 2 * d * m + d,
           2 * d * y <= 24 * month + d, 24 * month < 2 * d * y + d
    PROVE  Gap(y, 12 * m) <= 6
<1>1. y < 12 * m + 7
  <2> SUFFICES ASSUME y >= 12 * m + 7 PROVE FALSE
    OBVIOUS
  <2>1. 2 * d * y >= 2 * d * (12 * m + 7)
    OBVIOUS
  <2>2. 2 * d * (12 * m + 7) = 12 * (2 * d * m) + 14 * d
    OBVIOUS
  <2> QED BY <2>1, <2>2
<1>2. 12 * m < y + 7
  <2> SUFFICES ASSUME 12 * m >= y + 7 PROVE FALSE
    OBVIOUS
  <2>1. 2 * d * (12 * m) >= 2 * d * (y + 7)
    OBVIOUS
  <2>2. 2 * d * (12 * m) = 12 * (2 * d * m) /\ 2 * d * (y + 7) = 2 * d * y + 14 * d
    OBVIOUS
  <2> QED BY <2>1, <2>2
<1> QED BY <1>1, <1>2 DEF Gap

(***************************************************************************)
(* A rent roll ties.                                                       *)
(***************************************************************************)
LEMMA RentRollTies ==
    ASSUME CalculatorInv, IsComputed("rent_roll")
    PROVE  /\ figures.occupied + figures.vacant = figures.units
           /\ Gap(figures.annual, 12 * figures.monthly) <= 6
           /\ figures.occupiedArea <= figures.area
<1> DEFINE occupied == {i \in ParsedRows : TextOf(i, "status") \notin Vacant}
           vacant == {i \in ParsedRows : TextOf(i, "status") \in Vacant}
<1>1. /\ format = "lease_schedule" /\ figures = AnalyseRentRoll(ParsedRows) /\ IngestInv
  BY FiguresOfAFormat DEF IsComputed, CalculatorInv
<1>2. /\ figures.units = Cardinality(ParsedRows)
      /\ figures.occupied = Cardinality(occupied) /\ figures.vacant = Cardinality(vacant)
      /\ figures.area = Paise(Sum("area", ParsedRows))
      /\ figures.occupiedArea = Paise(Sum("area", occupied))
      /\ figures.monthly = Paise(Sum("monthly_rent", occupied))
      /\ figures.annual = Paise(12 * Sum("monthly_rent", occupied))
  BY <1>1 DEF AnalyseRentRoll, Total, AnnualSum
<1>3. IsAmount("area") /\ IsAmount("monthly_rent")
  <2>1. "area" \in Fields /\ "monthly_rent" \in Fields
    BY <1>1 DEF Fields, Schema, SchemaOf, LeaseSchedule
  <2>2. /\ Schema.fields["area"] =
              Needed("positive", <<"area_sqft", "area", "chargeable_area">>)
        /\ Schema.fields["monthly_rent"] = Amount(<<"monthly_rent", "rent">>)
    BY <1>1 DEF Schema, SchemaOf, LeaseSchedule
  <2> QED BY <2>1, <2>2 DEF IsAmount, IsAField, Needed, Amount
<1>4. /\ occupied \in SUBSET ParsedRows /\ vacant = ParsedRows \ occupied
      /\ occupied \cup vacant = ParsedRows /\ occupied \cap vacant = {}
      /\ vacant \in SUBSET ParsedRows /\ ParsedRows \in SUBSET ParsedRows
  OBVIOUS
<1> HIDE DEF occupied, vacant
<1>5. figures.occupied + figures.vacant = figures.units
  <2>1. IsFiniteSet(occupied) /\ IsFiniteSet(vacant)
    BY <1>1, <1>3, <1>4, SumsOfRows
  <2>2. /\ Cardinality(occupied) \in Nat /\ Cardinality(vacant) \in Nat
        /\ Cardinality(occupied \cap vacant) = 0
    BY <1>4, <2>1, FS_CardinalityType, FS_EmptySet
  <2>3. Cardinality(ParsedRows) = Cardinality(occupied) + Cardinality(vacant) - 0
    BY <1>4, <2>1, <2>2, FS_Union
  <2> QED BY <1>2, <2>2, <2>3
<1>6. Gap(figures.annual, 12 * figures.monthly) <= 6
  <2> DEFINE month == Sum("monthly_rent", occupied)
             year == 12 * month
  <2>0. Sum("monthly_rent", occupied) \in Nat
    BY <1>1, <1>3, <1>4, SumsOfRows
  <2>1. month \in Nat /\ year \in Nat
    BY <2>0
  <2> HIDE DEF month, year
  <2>2. /\ Paise(month) \in Nat
        /\ 2 * Fine * Paise(month) <= 2 * month + Fine
        /\ 2 * month < 2 * Fine * Paise(month) + Fine
    BY <2>1, PaiseOfNatural
  <2>3. /\ Paise(year) \in Nat
        /\ 2 * Fine * Paise(year) <= 2 * year + Fine
        /\ 2 * year < 2 * Fine * Paise(year) + Fine
    BY <2>1, PaiseOfNatural
  <2>4. figures.monthly = Paise(month) /\ figures.annual = Paise(year)
    BY <1>2 DEF month, year
  <2>5. 2 * year = 24 * month
    BY <2>1 DEF year
  <2>6. 2 * Fine * Paise(year) <= 24 * month + Fine /\ 24 * month < 2 * Fine * Paise(year) + Fine
    BY <2>3, <2>5
  <2> QED BY <2>1, <2>2, <2>3, <2>4, <2>5, <2>6, FineAssumption, TwelveMonths
<1>7. figures.occupiedArea <= figures.area
  <2> DEFINE f == [i \in ParsedRows |-> NumberOf(i, "area")]
  <2>1. /\ Sum("area", occupied) \in Nat /\ Sum("area", ParsedRows) \in Nat
        /\ Sum("area", occupied) = SumFunctionOnSet(f, occupied)
        /\ Sum("area", ParsedRows) = SumFunctionOnSet(f, ParsedRows)
        /\ IsFiniteSet(ParsedRows) /\ \A i \in ParsedRows : f[i] \in Nat
    BY <1>1, <1>3, <1>4, SumsOfRows
  <2> HIDE DEF f
  <2>2. Sum("area", occupied) <= Sum("area", ParsedRows)
    BY <1>4, <2>1, SumWithin
  <2>3. Rounded(Sum("area", occupied), Fine) <= Rounded(Sum("area", ParsedRows), Fine)
    BY <2>1, <2>2, FineAssumption, RoundedMonotone
  <2> QED BY <1>2, <2>1, <2>3, PaiseOfNatural
<1> QED BY <1>5, <1>6, <1>7

(***************************************************************************)
(* The stages tie.  A stage's status is one of four, or was left blank.    *)
(***************************************************************************)
LEMMA StatusOfAStage ==
    ASSUME IngestInv, format = "construction_stages", NEW i \in ParsedRows
    PROVE  /\ StatusIsBlank(i) => TextOf(i, "status") = "none"
           /\ ~StatusIsBlank(i) =>
                TextOf(i, "status") \in {"completed", "in progress", "pending", "certified"}
<1>1. /\ "status" \in Fields
      /\ Schema.fields["status"] =
            Optional("stage_status", <<"status">>)
  BY DEF Fields, Schema, SchemaOf, ConstructionStages
<1>2. /\ IsAField("status") /\ Schema.fields["status"].kind = "stage_status"
      /\ ~Schema.fields["status"].required /\ Schema.fields["status"].default = Absent
  BY <1>1 DEF IsAField, Optional
<1>3. IsSheet(sheet) /\ i \in DOMAIN sheet.rows /\ ~IsUnusable(i)
  BY ParsedRowsAreRecords DEF IngestInv
<1>4. /\ outcomes[i].record["status"] = FieldValue(i, "status")
      /\ outcomes[i].record.status = FieldValue(i, "status")
  BY <1>1, ParsedRowsAreRecords DEF Record
<1>5. CASE IsBlank(CellFor(i, "status"))
  <2>1. FieldValue(i, "status") = Absent
    BY <1>2, <1>5 DEF FieldValue
  <2>2. Absent.text = "none"
    BY DEF Absent
  <2> QED BY <1>4, <2>1, <2>2 DEF TextOf, StatusIsBlank
<1>6. CASE ~IsBlank(CellFor(i, "status"))
  <2> DEFINE cell == CellFor(i, "status")
  <2>1. cell \in Cell
    BY <1>2, <1>3, <1>6, GivenCellsAreCells
  <2>2. Readable("stage_status", cell) /\ FieldValue(i, "status") = Coerced("stage_status", cell)
    BY <1>1, <1>2, <1>3, <1>6 DEF IsUnusable, Problem, FieldValue
  <2> HIDE DEF cell
  <2>3. cell.text \in {"completed", "in progress", "pending", "certified"}
    BY <2>2 DEF Readable
  <2>4. FieldValue(i, "status").text = cell.text
    BY <2>1, <2>2, CoercedKeeps
  <2>5. FieldValue(i, "status") # Absent
    <3>1. Absent.text = "none"
      BY DEF Absent
    <3>2. cell.text # "none"
      BY <2>3
    <3> QED BY <2>4, <3>1, <3>2
  <2> QED BY <1>4, <2>3, <2>4, <2>5 DEF TextOf, StatusIsBlank
<1> QED BY <1>5, <1>6

(* Two roundings are within one of the rounding of both.                   *)
LEMMA TwoParts ==
    ASSUME NEW d \in Nat \ {0}, NEW a \in Nat, NEW b \in Nat,
           NEW p \in Nat, NEW q \in Nat, NEW s \in Nat,
           2 * d * p <= 2 * a + d, 2 * a < 2 * d * p + d,
           2 * d * q <= 2 * b + d, 2 * b < 2 * d * q + d,
           2 * d * s <= 2 * (a + b) + d, 2 * (a + b) < 2 * d * s + d
    PROVE  Gap(p + q, s) <= 1
<1>1. s < p + q + 2
  <2> SUFFICES ASSUME s >= p + q + 2 PROVE FALSE
    OBVIOUS
  <2>1. 2 * d * s >= 2 * d * (p + q + 2)
    OBVIOUS
  <2>2. 2 * d * (p + q + 2) = 2 * d * p + 2 * d * q + 4 * d
    OBVIOUS
  <2> QED BY <2>1, <2>2
<1>2. p + q < s + 2
  <2> SUFFICES ASSUME p + q >= s + 2 PROVE FALSE
    OBVIOUS
  <2>1. 2 * d * (p + q) >= 2 * d * (s + 2)
    OBVIOUS
  <2>2. 2 * d * (p + q) = 2 * d * p + 2 * d * q /\ 2 * d * (s + 2) = 2 * d * s + 4 * d
    OBVIOUS
  <2> QED BY <2>1, <2>2
<1> QED BY <1>1, <1>2 DEF Gap

LEMMA StagesTie ==
    ASSUME CalculatorInv, IsComputed("construction"),
           NEW counted, counted = {i \in ParsedRows : ~StatusIsBlank(i)}
    PROVE  /\ figures.completed + figures.pending = Cardinality(counted)
           /\ Gap(figures.disbursed + figures.undisbursed,
                  Total("disbursement_amount", counted)) <= 1
<1> DEFINE completed == {i \in ParsedRows : TextOf(i, "status") \in Complete}
           pending == {i \in ParsedRows : TextOf(i, "status") \in Pending}
<1>1. /\ format = "construction_stages" /\ IngestInv
      /\ figures = AnalyseConstructionStages(ParsedRows)
  BY FiguresOfAFormat DEF IsComputed, CalculatorInv
<1>2. /\ figures.completed = Cardinality(completed) /\ figures.pending = Cardinality(pending)
      /\ figures.disbursed = Paise(Sum("disbursement_amount", completed))
      /\ figures.undisbursed = Paise(Sum("disbursement_amount", pending))
  BY <1>1 DEF AnalyseConstructionStages, Total
<1>3. IsAmount("disbursement_amount")
  <2>1. /\ "disbursement_amount" \in Fields
        /\ Schema.fields["disbursement_amount"] =
              Amount(<<"disbursement_amount", "tranche_amount">>)
    BY <1>1 DEF Fields, Schema, SchemaOf, ConstructionStages
  <2> QED BY <2>1 DEF IsAmount, IsAField, Amount
<1>4. \A i \in ParsedRows :
        /\ StatusIsBlank(i) => TextOf(i, "status") \notin Complete \cup Pending
        /\ ~StatusIsBlank(i) => TextOf(i, "status") \in Complete \cup Pending
        /\ TextOf(i, "status") \notin Complete \cap Pending
  BY <1>1, StatusOfAStage DEF Complete, Pending
<1>5. /\ counted \in SUBSET ParsedRows /\ completed \in SUBSET counted
      /\ completed \in SUBSET ParsedRows
      /\ pending = counted \ completed /\ pending \in SUBSET ParsedRows
      /\ completed \cup pending = counted /\ completed \cap pending = {}
  BY <1>4
<1> HIDE DEF completed, pending
<1>6. IsFiniteSet(completed) /\ IsFiniteSet(pending) /\ IsFiniteSet(counted)
  BY <1>1, <1>3, <1>5, SumsOfRows
<1>7. figures.completed + figures.pending = Cardinality(counted)
  <2>1. /\ Cardinality(completed) \in Nat /\ Cardinality(pending) \in Nat
        /\ Cardinality(completed \cap pending) = 0
    BY <1>5, <1>6, FS_CardinalityType, FS_EmptySet
  <2>2. Cardinality(counted) = Cardinality(completed) + Cardinality(pending) - 0
    BY <1>5, <1>6, <2>1, FS_Union
  <2> QED BY <1>2, <2>1, <2>2
<1>8. Gap(figures.disbursed + figures.undisbursed,
          Total("disbursement_amount", counted)) <= 1
  <2> DEFINE f == [i \in ParsedRows |-> NumberOf(i, "disbursement_amount")]
             a == Sum("disbursement_amount", completed)
             b == Sum("disbursement_amount", pending)
             c == Sum("disbursement_amount", counted)
  <2>1. /\ Sum("disbursement_amount", completed) \in Nat
        /\ Sum("disbursement_amount", pending) \in Nat
        /\ Sum("disbursement_amount", completed) = SumFunctionOnSet(f, completed)
        /\ Sum("disbursement_amount", pending) = SumFunctionOnSet(f, pending)
        /\ Sum("disbursement_amount", counted) = SumFunctionOnSet(f, counted)
        /\ \A i \in ParsedRows : f[i] \in Nat
    BY <1>1, <1>3, <1>5, SumsOfRows
  <2>2. \A i \in counted : f[i] \in Int
    BY <1>5, <2>1
  <2> HIDE DEF f
  <2>3. SumFunctionOnSet(f, counted)
          = SumFunctionOnSet(f, completed) + SumFunctionOnSet(f, pending)
    BY <1>5, <1>6, <2>2, SumUnion
  <2>4. a \in Nat /\ b \in Nat /\ c = a + b
    BY <2>1, <2>3
  <2>5. /\ figures.disbursed = Paise(a) /\ figures.undisbursed = Paise(b)
        /\ Total("disbursement_amount", counted) = Paise(a + b)
    BY <1>2, <2>4 DEF Total
  <2> HIDE DEF a, b, c
  <2>6. /\ Paise(a) \in Nat
        /\ 2 * Fine * Paise(a) <= 2 * a + Fine /\ 2 * a < 2 * Fine * Paise(a) + Fine
    BY <2>4, PaiseOfNatural
  <2>7. /\ Paise(b) \in Nat
        /\ 2 * Fine * Paise(b) <= 2 * b + Fine /\ 2 * b < 2 * Fine * Paise(b) + Fine
    BY <2>4, PaiseOfNatural
  <2>8. /\ Paise(a + b) \in Nat
        /\ 2 * Fine * Paise(a + b) <= 2 * (a + b) + Fine
        /\ 2 * (a + b) < 2 * Fine * Paise(a + b) + Fine
    <3>1. a + b \in Nat
      BY <2>4
    <3> QED BY <3>1, PaiseOfNatural
  <2> QED BY <2>4, <2>5, <2>6, <2>7, <2>8, FineAssumption, TwoParts
<1> QED BY <1>7, <1>8

(***************************************************************************)
(* A portfolio is the sum of its types.                                    *)
(***************************************************************************)
LEMMA TypesSum ==
    ASSUME NEW d \in Nat \ {0}, NEW n \in Nat, NEW sum \in Nat, NEW s \in Nat, NEW r \in Nat,
           2 * d * r <= 2 * sum + d * n, 2 * sum <= 2 * d * r + d * n,
           2 * d * s <= 2 * sum + d, 2 * sum < 2 * d * s + d
    PROVE  2 * Gap(r, s) <= n + 1
<1>1. 2 * s <= 2 * r + n + 1
  <2> SUFFICES ASSUME 2 * s > 2 * r + n + 1 PROVE FALSE
    OBVIOUS
  <2>1. d * (2 * s) >= d * (2 * r + n + 2)
    OBVIOUS
  <2>2. /\ d * (2 * s) = 2 * d * s
        /\ d * (2 * r + n + 2) = 2 * d * r + d * n + 2 * d
    OBVIOUS
  <2> QED BY <2>1, <2>2
<1>2. 2 * r <= 2 * s + n + 1
  <2> SUFFICES ASSUME 2 * r > 2 * s + n + 1 PROVE FALSE
    OBVIOUS
  <2>1. d * (2 * r) >= d * (2 * s + n + 2)
    OBVIOUS
  <2>2. /\ d * (2 * r) = 2 * d * r
        /\ d * (2 * s + n + 2) = 2 * d * s + d * n + 2 * d
    OBVIOUS
  <2> QED BY <2>1, <2>2
<1> QED BY <1>1, <1>2 DEF Gap

LEMMA PortfolioTies ==
    ASSUME CalculatorInv, IsComputed("portfolio"), NEW types, types = DOMAIN figures.byType
    PROVE  /\ SumFunction([t \in types |-> figures.byType[t].count]) = figures.properties
           /\ 2 * Gap(SumFunction([t \in types |-> figures.byType[t].value]), figures.value)
                 <= Cardinality(types) + 1
<1> DEFINE rows == ParsedRows
           kind == [i \in rows |-> TypeOf(i)]
           f == [i \in rows |-> NumberOf(i, "current_value")]
           one == 1
           ones == [i \in rows |-> one]
           part == [t \in types |-> SumFunctionOnSet(f, OfKind(kind, rows, t))]
           counts == [t \in types |-> figures.byType[t].count]
           values == [t \in types |-> figures.byType[t].value]
<1>1. /\ format = "portfolio" /\ figures = AnalysePortfolio(rows) /\ IngestInv
  BY FiguresOfAFormat DEF IsComputed, CalculatorInv
<1>2. /\ figures.properties = Cardinality(rows)
      /\ figures.value = Paise(Sum("current_value", rows))
      /\ figures.byType = [type \in {TypeOf(i) : i \in rows} |->
                              [count |-> Cardinality(OfType(rows, type)),
                               value |-> Paise(Sum("current_value", OfType(rows, type)))]]
  BY <1>1 DEF AnalysePortfolio, Total
<1>3. /\ types = Kinds(kind, rows)
      /\ \A t \in types : OfKind(kind, rows, t) \in SUBSET rows
      /\ \A t \in types : counts[t] = Cardinality(OfKind(kind, rows, t))
      /\ \A t \in types : values[t] = Paise(Sum("current_value", OfKind(kind, rows, t)))
  <2>1. types = Kinds(kind, rows)
    <3>1. types = {TypeOf(i) : i \in rows}
      BY <1>2
    <3>2. \A i \in rows : kind[i] = TypeOf(i)
      OBVIOUS
    <3> HIDE DEF rows, kind
    <3> QED BY <3>1, <3>2 DEF Kinds
  <2>2. \A t \in types : OfType(rows, t) = OfKind(kind, rows, t)
    BY DEF OfType, OfKind
  <2>3. \A t \in types : /\ counts[t] = Cardinality(OfType(rows, t))
                         /\ values[t] = Paise(Sum("current_value", OfType(rows, t)))
    BY <1>2
  <2>4. \A t \in types : OfKind(kind, rows, t) \in SUBSET rows
    BY DEF OfKind
  <2> HIDE DEF rows, kind, counts, values
  <2> QED BY <2>1, <2>2, <2>3, <2>4
<1>4. IsAmount("current_value")
  <2>1. /\ "current_value" \in Fields
        /\ Schema.fields["current_value"] =
              Needed("non_negative", <<"current_value", "market_value", "valuation">>)
    BY <1>1 DEF Fields, Schema, SchemaOf, Portfolio
  <2> QED BY <2>1 DEF IsAmount, IsAField, Needed
<1>5. /\ IsFiniteSet(rows) /\ \A i \in rows : f[i] \in Nat
      /\ \A some \in SUBSET rows :
           /\ Sum("current_value", some) = SumFunctionOnSet(f, some)
           /\ Sum("current_value", some) \in Nat /\ IsFiniteSet(some)
  BY <1>1, <1>4, SumsOfRows
<1>6. \A i \in rows : f[i] \in Int /\ ones[i] = one /\ ones[i] \in Int
  BY <1>5
<1>7. one \in Int
  OBVIOUS
<1>8. \A t \in types : /\ part[t] = SumFunctionOnSet(f, OfKind(kind, rows, t))
                       /\ part[t] \in Nat /\ values[t] = Rounded(part[t], Fine)
  <2> TAKE t \in types
  <2> DEFINE those == OfKind(kind, rows, t)
  <2>1. those \in SUBSET rows /\ values[t] = Paise(Sum("current_value", those))
    BY <1>3
  <2>2. part[t] = SumFunctionOnSet(f, those)
    OBVIOUS
  <2> HIDE DEF those, part, values, f
  <2>3. Sum("current_value", those) = part[t] /\ part[t] \in Nat
    BY <1>5, <2>1, <2>2
  <2>4. values[t] = Rounded(part[t], Fine)
    BY <2>1, <2>3, PaiseOfNatural
  <2> QED BY <2>2, <2>3, <2>4 DEF those
<1>9. /\ SumFunction(counts) = SumFunctionOnSet(counts, types)
      /\ SumFunction(values) = SumFunctionOnSet(values, types)
  <2>1. DOMAIN counts = types /\ DOMAIN values = types
    OBVIOUS
  <2> HIDE DEF counts, values
  <2> QED BY <2>1 DEF SumFunction
<1>10. \A t \in types : counts[t] = SumFunctionOnSet(ones, OfKind(kind, rows, t))
  <2> TAKE t \in types
  <2> DEFINE those == OfKind(kind, rows, t)
  <2>1. those \in SUBSET rows /\ counts[t] = Cardinality(those)
    BY <1>3
  <2>2. IsFiniteSet(those) /\ \A i \in those : ones[i] = one
    BY <1>5, <1>6, <2>1
  <2> HIDE DEF those, counts, ones, one, f
  <2>3. SumFunctionOnSet(ones, those) = one * Cardinality(those)
    BY <1>7, <2>2, SumConstant
  <2>4. Cardinality(those) \in Nat
    BY <2>2, FS_CardinalityType
  <2> QED BY <2>1, <2>3, <2>4 DEF those, one
<1> HIDE DEF rows, kind, f, ones, part, counts, values, one
<1>11. IsFiniteSet(types) /\ SumFunctionOnSet(counts, types) = SumFunctionOnSet(ones, rows)
  <2>1. SumsByKind(counts, ones, kind, rows)
    BY <1>3, <1>10 DEF SumsByKind
  <2> QED BY <1>3, <1>5, <1>6, <2>1, SumByKind
<1>12. SumFunctionOnSet(part, types) = SumFunctionOnSet(f, rows)
  <2>1. SumsByKind(part, f, kind, rows)
    BY <1>3, <1>8 DEF SumsByKind
  <2> QED BY <1>3, <1>5, <1>6, <2>1, SumByKind
<1>13. SumFunction(counts) = figures.properties
  <2>1. SumFunctionOnSet(ones, rows) = one * Cardinality(rows)
    BY <1>5, <1>6, <1>7, SumConstant
  <2>2. Cardinality(rows) \in Nat
    BY <1>5, FS_CardinalityType
  <2> QED BY <1>2, <1>9, <1>11, <2>1, <2>2 DEF one, rows
<1>14. 2 * Gap(SumFunction(values), figures.value) <= Cardinality(types) + 1
  <2> DEFINE sum == SumFunctionOnSet(f, rows)
             r == SumFunctionOnSet(values, types)
             n == Cardinality(types)
  <2>1. /\ SumFunctionOnSet(part, types) \in Nat /\ r \in Nat
        /\ 2 * Fine * r <= 2 * SumFunctionOnSet(part, types) + Fine * n
        /\ 2 * SumFunctionOnSet(part, types) <= 2 * Fine * r + Fine * n
    BY <1>8, <1>11, FineAssumption, SumOfRounded
  <2>2. sum \in Nat /\ n \in Nat /\ sum = SumFunctionOnSet(part, types)
    BY <1>11, <1>12, <2>1, FS_CardinalityType
  <2>3. figures.value = Paise(sum)
    BY <1>2, <1>5 DEF rows
  <2> HIDE DEF sum, r, n
  <2>4. /\ Paise(sum) \in Nat /\ 2 * Fine * Paise(sum) <= 2 * sum + Fine
        /\ 2 * sum < 2 * Fine * Paise(sum) + Fine
    BY <2>2, PaiseOfNatural
  <2>5. 2 * Gap(r, Paise(sum)) <= n + 1
    BY <2>1, <2>2, <2>4, FineAssumption, TypesSum
  <2> QED BY <1>9, <2>3, <2>5 DEF r, n
<1> QED BY <1>13, <1>14 DEF counts, values

(***************************************************************************)
(* What the calculator shows ties to the lines it is summed from, for any  *)
(* sheet: the rent roll, the portfolio by its types, the stages.           *)
(***************************************************************************)
THEOREM TotalsAlwaysTie == CalculatorSpec => []TotalsTie
<1>1. CalculatorInv => TotalsTie
  BY RentRollTies, PortfolioTies, StagesTie DEF TotalsTie
<1> QED BY <1>1, CalculatorInvHolds, PTL
===============================================================================
