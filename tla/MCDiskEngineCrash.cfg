CONSTANTS
    Key <- MCKey
    Value <- MCValue
    None = None
    Failed = Failed
    MaxLog = 5
    CrashInCompact = TRUE
    TornWrites = TRUE
SPECIFICATION Spec
CHECK_DEADLOCK FALSE
INVARIANTS
    AckedValuesKept
    TornTailContained
    FreshWritesRead
