CONSTANTS
    Dims <- MCDims
    IndexDims <- MCIndexDims
    IntDims <- MCIntDims
    DimOrder <- MCDimOrder
    Spellings <- MCSpellings
    ParseInt <- MCParseInt
    NonInt <- MCNonInt
    Payloads <- MCPayloads
    MinTime <- MCZeroTime
    MaxTime = 9
    ZeroTime <- MCZeroTime
    Inputs <- MCInputs
    TTL = 0
    MaxRows = 0
    DictCompactInterval = 0
    KeyBudget = 8
    NoValue = ""
    IntVal <- MCIntVal
    Rank <- MCRank
    Metrics <- MCMetrics
    Metric <- MCMetric
    InLinearMax = 2
    MaxScanRows = 25
    Views <- MCViews
    Queries <- MCQueries
    Clocks = {6, 9}
    Fast <- MCFast
    ExpansionIvs = 2
    IvDemandCap = 100
    Weight <- MCWeight
    MaxPooledBytes = 60
    MaxPool = 1
SPECIFICATION Spec
INVARIANTS AnswersExact GroupsExact BudgetBoundsScan NeverGrows StackNeverStarves PooledPinsNothing
