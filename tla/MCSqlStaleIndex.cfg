CONSTANTS
    s1 = s1
    s2 = s2
    one = one
    TableName <- MCOneName
    ColumnName <- MCColumnName
    Datum <- MCDatum
    Datatype <- MCDatatype
    Whole <- MCWhole
    KeyBefore <- MCKeyBefore
    IdBefore <- MCIdBefore
    Null = Null
    None = None
    Session = {s1}
    Unwritten = Unwritten
    Idle = Idle
    Statements <- MCInsertDelete
    InitialStatements <- MCTwoRows
    MaxStatements = 4
    ConnectionsEnd = FALSE
SPECIFICATION Spec
INVARIANTS
    IndexScanExact
