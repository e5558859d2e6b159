CONSTANTS
    Dims <- MCDims
    IndexDims <- MCIndexDims
    IntDims <- MCIntDims
    Spellings <- MCSpellings
    ParseInt <- MCParseInt
    NonInt <- MCNonInt
    Payloads = {"m1", "m2"}
    MinTime <- MCZeroTime
    MaxTime = 9
    ZeroTime <- MCZeroTime
    Inputs <- PairInputs
    TTL = 2
    MaxRows = 1
    DictCompactInterval = 0
    KeyBudget = 8
    Writers = {w1, w2}
    Readers = {p1}
    NoOne = NoOne
    StartTime = 5
    MaxNow = 6
    MaxBatch = 1
    MaxDump = 1
SPECIFICATION Spec
INVARIANTS EachTupleOnce JobsOK
PROPERTIES ImplementsRefTable
