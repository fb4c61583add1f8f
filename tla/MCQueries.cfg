SPECIFICATION Spec
CONSTANTS
    None = None
    Err = Err
    Panic = Panic
    Databases <- MCDatabases
    Statements <- MCStatements
CHECK_DEADLOCK FALSE
INVARIANTS
    ReadAsWritten
    EveryTokenCounts
    ExplainShowsThePlan
    ScanAnswersWhere
    PageOfOrderedRows
    JoinIsRelational
    GroupsPartitionRows
