CONSTANTS
    Key <- MCKey
    Value <- MCValue
    None = None
    Failed = Failed
    MaxLog = 8
    CrashInCompact = FALSE
    TornWrites = FALSE
SPECIFICATION Spec
INVARIANTS
    KeydirMatchesLog
PROPERTIES
    ImplementsKvEngine
