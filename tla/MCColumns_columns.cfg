CONSTANTS
    Dims <- MCDims
    IndexDims <- MCIndexDims
    IntDims <- MCIntDims
    DimOrder <- MCDimOrder
    Spellings <- MCSpellings
    ParseInt <- MCParseInt
    NonInt <- MCNonInt
    Payloads = {"m"}
    MinTime <- MCZeroTime
    MaxTime = 9
    ZeroTime <- MCZeroTime
    Inputs <- MCInputs
    TTL = 2
    MaxRows = 0
    DictCompactInterval = 0
    KeyBudget = 8
    Clocks = {6}
    MaxApply = 1
    MaxReplace = 2
    MaxCalls = 5
SPECIFICATION Spec
INVARIANTS ColumnsOK
PROPERTIES PublishedFrozen ImplementsView
CHECK_DEADLOCK FALSE
