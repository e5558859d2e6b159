CONSTANTS
    Dims <- MCDims
    IndexDims <- MCIndexDims
    IntDims <- MCIntDims
    Spellings <- MCSpellings
    ParseInt <- MCParseInt
    NonInt <- MCNonInt
    Payloads = {"m1", "m2"}
    MinTime <- MCZeroTime
    MaxTime = 9
    ZeroTime <- MCZeroTime
    Inputs <- MixedInputs
    TTL = 2
    MaxRows = 1
    DictCompactInterval = 0
    KeyBudget = 8
    Writers = {w1}
    Readers = {}
    NoOne = NoOne
    StartTime = 5
    MaxNow = 6
    MaxBatch = 2
    MaxDump = 2
SPECIFICATION Spec
INVARIANTS TypeOK ViewsOK CapRespected SyncPositionExact
PROPERTIES ImplementsRefTable NoNewTupleWhileBlocked
