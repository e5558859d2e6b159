CONSTANTS
    Dims <- MCDims
    IndexDims <- MCIndexDims
    IntDims <- MCIntDims
    Spellings <- MCSpellings
    ParseInt <- MCParseInt
    NonInt <- MCNonInt
    Payloads = {"m1", "m2"}
    MinTime <- MCZeroTime
    MaxTime = 9
    ZeroTime <- MCZeroTime
    Inputs <- WideInputs
    TTL = 2
    MaxRows = 0
    DictCompactInterval = 2
    KeyBudget = 1
    Writers = {w1}
    Readers = {}
    NoOne = NoOne
    StartTime = 5
    MaxNow = 6
    MaxBatch = 1
    MaxDump = 1
SPECIFICATION FairSpec
INVARIANTS NeedsCompactionExact
PROPERTIES OverflowIsGenuine KeyBitsForewarn EveryCallReturns
