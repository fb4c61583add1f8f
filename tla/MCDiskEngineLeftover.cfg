CONSTANTS
    Key <- MCKey
    Value <- MCValue
    None = None
    Failed = Failed
    MaxLog = 6
    CrashInCompact = TRUE
    TornWrites = FALSE
SPECIFICATION Spec
INVARIANTS
    DeletedStaysDeleted
