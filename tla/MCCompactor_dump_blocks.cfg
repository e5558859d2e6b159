CONSTANTS
    Dims <- MCDims
    IndexDims <- MCDims
    IntDims = {}
    Spellings <- MCSpellings
    ParseInt <- MCParseInt
    NonInt = "not an integer"
    Payloads = {"m1"}
    MinTime <- MCZeroTime
    MaxTime = 9
    ZeroTime <- MCZeroTime
    Inputs <- StayInputs
    TTL = 2
    MaxRows = 1
    DictCompactInterval = 0
    KeyBudget = 8
    Writers = {run, w1}
    Readers = {}
    NoOne = NoOne
    StartTime = 5
    MaxNow = 6
    MaxBatch = 1
    MaxDump = 2
    Savers = {run}
    Loaders = {}
    EarlierFiles = {}
    Runner = run
    RatioNum = 1
    RatioDen = 10
    MaxDeltaRows = 0
    HasPath = FALSE
SPECIFICATION CompactorFairSpec
PROPERTIES IngestionRecovers
