CONSTANTS
    Dims <- MCDims
    IndexDims <- MCIndexDims
    IntDims <- MCIntDims
    Spellings <- MCSpellings
    ParseInt <- MCParseInt
    NonInt <- MCNonInt
    Payloads = {"m1"}
    MinTime <- MCZeroTime
    MaxTime = 9
    ZeroTime <- MCZeroTime
    Inputs <- FileInputs
    TTL = 2
    MaxRows = 0
    DictCompactInterval = 0
    KeyBudget = 8
    Writers = {w1}
    Readers = {}
    NoOne = NoOne
    StartTime = 5
    MaxNow = 6
    MaxBatch = 1
    MaxDump = 0
    Savers = {}
    Loaders = {l1}
    EarlierFiles <- MCLoneSpelling
SPECIFICATION PersistSpec
PROPERTIES NonCanonicalRefused
