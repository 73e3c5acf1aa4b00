------------------------------- MODULE Schemas -------------------------------
(***************************************************************************)
(* The five formats a sheet of property data may have, and what a cell of  *)
(* one can be.                                                             *)
(*                                                                         *)
(* A cell is what can be made of it: its text, lower-case and stripped (of *)
(* a number, stripped of ornaments too, so that 5 and 5.0 have different   *)
(* texts), the number it reads as, counted in units of which Fine make a   *)
(* paisa, and the day.                                                     *)
(***************************************************************************)
EXTENDS Money, Sequences

Cell == [text : STRING, number : Int \union {None}, day : Nat \union {None}]
Blank == [text |-> "", number |-> None, day |-> None]
(* What str() makes of an optional field that is not there.                *)
Absent == [text |-> "none", number |-> None, day |-> None]
Zero == [text |-> "0", number |-> 0, day |-> None]
SquareFeet == [text |-> "sqft", number |-> None, day |-> None]

(***************************************************************************)
(* The five formats, as definitions.py has them.                           *)
(***************************************************************************)
Needed(kind, aliases) ==
    [kind |-> kind, aliases |-> aliases, required |-> TRUE, default |-> Absent]
Optional(kind, aliases) ==
    [kind |-> kind, aliases |-> aliases, required |-> FALSE, default |-> Absent]
Amount(aliases) ==
    [kind |-> "non_negative", aliases |-> aliases, required |-> FALSE, default |-> Zero]
AreaUnit(aliases) ==
    [kind |-> "text", aliases |-> aliases, required |-> FALSE, default |-> SquareFeet]

Comparables ==
    [signature |-> {"sale_price", "transaction_value", "rate_per_sqft", "price_per_sqft"},
     identity |-> <<"address", "sale_date", "sale_price">>,
     fields |->
       [address |-> Needed("text", <<"address", "property_address", "location">>),
        locality |-> Optional("text", <<"locality", "area_name", "sector">>),
        area |-> Needed("positive", <<"area_sqft", "area", "built_up_area", "saleable_area">>),
        area_unit |-> AreaUnit(<<"area_unit", "unit">>),
        sale_price |-> Needed("positive", <<"sale_price", "transaction_value",
                                            "market_value", "consideration">>),
        sale_date |-> Needed("date", <<"sale_date", "date", "registration_date">>),
        property_type |-> Optional("text", <<"property_type", "type">>),
        floor |-> Optional("whole", <<"floor", "floor_no">>),
        age_years |-> Optional("whole", <<"age_years", "age", "building_age">>),
        distance_m |-> Optional("non_negative", <<"distance_m", "distance">>),
        frontage_ft |-> Optional("non_negative", <<"frontage_ft", "frontage">>),
        condition |-> Optional("text", <<"condition">>),
        view |-> Optional("text", <<"view">>),
        tenure |-> Optional("text", <<"tenure">>),
        distressed |-> Optional("text", <<"distressed", "distress_sale">>),
        source |-> Optional("text", <<"source", "evidence_source">>),
        note |-> Optional("text", <<"note", "remarks">>)]]

LeaseSchedule ==
    [signature |-> {"tenant", "tenant_name", "monthly_rent", "lease_start", "lease_end"},
     identity |-> <<"unit">>,
     fields |->
       [unit |-> Needed("text", <<"unit", "unit_no", "flat_no", "shop_no">>),
        tenant |-> Optional("text", <<"tenant", "tenant_name", "lessee">>),
        area |-> Needed("positive", <<"area_sqft", "area", "chargeable_area">>),
        area_unit |-> AreaUnit(<<"area_unit", "unit_of_area">>),
        monthly_rent |-> Amount(<<"monthly_rent", "rent">>),
        security_deposit |-> Amount(<<"security_deposit", "deposit">>),
        lease_start |-> Optional("date", <<"lease_start", "start_date", "commencement">>),
        lease_end |-> Optional("date", <<"lease_end", "end_date", "expiry">>),
        lock_in_until |-> Optional("date", <<"lock_in_until", "lock_in">>),
        escalation_pct |-> Amount(<<"escalation_%", "escalation_pct", "increment_pct">>),
        status |-> Optional("lease_status", <<"status", "occupancy_status">>),
        overdue |-> Amount(<<"overdue", "arrears">>)]]

ConstructionStages ==
    [signature |-> {"stage", "milestone", "completion_%", "disbursement_amount"},
     identity |-> <<"stage">>,
     fields |->
       [stage |-> Needed("text", <<"stage", "milestone", "stage_name">>),
        description |-> Optional("text", <<"description">>),
        completion_pct |-> Needed("non_negative", <<"completion_%", "completion_pct",
                                                    "progress_pct">>),
        disbursement_amount |-> Amount(<<"disbursement_amount", "tranche_amount">>),
        disbursement_pct |-> Amount(<<"disbursement_%", "disbursement_pct">>),
        status |-> Optional("stage_status", <<"status">>),
        target_date |-> Optional("date", <<"target_date", "planned_date">>),
        actual_date |-> Optional("date", <<"actual_date", "certified_on">>),
        certified_by |-> Optional("text", <<"certified_by", "certifier">>),
        remarks |-> Optional("text", <<"remarks", "note">>)]]

Portfolio ==
    [signature |-> {"property_id", "property_name", "current_value", "purchase_price"},
     identity |-> <<"property_id", "property_name">>,
     fields |->
       [property_id |-> Optional("text", <<"property_id", "id", "code">>),
        property_name |-> Needed("text", <<"property_name", "name", "property">>),
        property_type |-> Optional("text", <<"property_type", "type", "asset_class">>),
        locality |-> Optional("text", <<"locality", "location", "city">>),
        area |-> Optional("positive", <<"area_sqft", "area">>),
        area_unit |-> AreaUnit(<<"area_unit">>),
        current_value |-> Needed("non_negative", <<"current_value", "market_value",
                                                   "valuation">>),
        purchase_price |-> Amount(<<"purchase_price", "cost", "acquisition_cost">>),
        monthly_rent |-> Amount(<<"monthly_rent", "rent">>),
        loan_outstanding |-> Amount(<<"loan_outstanding", "mortgage", "debt">>),
        occupancy |-> Optional("text", <<"occupancy", "status">>)]]

LandRecords ==
    [signature |-> {"survey_no", "sy_no", "khasra_no", "khata", "owner_name"},
     identity |-> <<"survey_no", "khata_no">>,
     fields |->
       [survey_no |-> Needed("text", <<"survey_no", "sy_no", "khasra_no">>),
        khata_no |-> Optional("text", <<"khata", "khata_no", "khatauni">>),
        owner_name |-> Optional("text", <<"owner_name", "owner", "recorded_owner">>),
        area |-> Needed("positive", <<"area", "extent", "area_sqft">>),
        area_unit |-> Needed("text", <<"area_unit", "unit", "measure">>),
        state |-> Needed("text", <<"state", "state_code">>),
        district |-> Optional("text", <<"district">>),
        land_use |-> Optional("text", <<"land_use", "zoning", "classification">>),
        encumbrance |-> Optional("text", <<"encumbrance", "ec_status">>),
        remarks |-> Optional("text", <<"remarks">>)]]

SchemaOf ==
    [comparables |-> Comparables, lease_schedule |-> LeaseSchedule,
     construction_stages |-> ConstructionStages, portfolio |-> Portfolio,
     land_records |-> LandRecords]
AllSchemas == <<"comparables", "lease_schedule", "construction_stages",
                "portfolio", "land_records">>
Formats == {AllSchemas[i] : i \in DOMAIN AllSchemas}
===============================================================================
