SPECIFICATION EngineSpec
CONSTANTS
    None = None
    PercentScale = 2
    Fine = 2
    Sheets <- MCSheets
    UnitAliases <- MCAliases
    UniversalUnits <- MCUniversal
    StateUnits <- MCState
    Requests <- MCRequests
    Whole = 10
    MaxComparables = 6
    MinSample = 3
    MaxAge = 18
    MaxRadius = 2000
    MaxSpread = 25
    RateScale = 2
    MoneyScale = 1
    Entries <- MCEntries
    Areas <- MCAreas
    One = 20
    Tolerance = 1
    DefaultLimit = 30
    Values = {0, 100, 130, 200}
    Weights = {0, 6, 7, 13, 20}
    Limits = {0, 60}
    Calls <- AllCalls
    Rolls <- MCRolls
    RentParts = 2
    Filings <- MCFilings
    DeedParts = 2
INVARIANTS ConclusionIsSupported ApproachesAgree ShownIsNotRelied MandateIsAnswered ConclusionIsWithinEvidence OneComparableCannotDrag TrimmedIgnoresOne SpreadNamesSomeone CapitalisationsAgree CostIsBracketed NoRowIsLost DuplicatesNameTheirOriginal LandIsNotGuessed EveryComparableCounts TotalsTie WaultFitsTheProfile UnderstatingSavesNothing EveryDayIsReported
CHECK_DEADLOCK FALSE
