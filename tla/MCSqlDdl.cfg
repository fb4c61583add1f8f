CONSTANTS
    s1 = s1
    s2 = s2
    one = one
    TableName <- MCTableName
    ColumnName <- MCColumnName
    Datum <- MCDatum
    Datatype <- MCDatatype
    Whole <- MCWhole
    KeyBefore <- MCKeyBefore
    IdBefore <- MCIdBefore
    Null = Null
    None = None
    Session = {s1, s2}
    Unwritten = Unwritten
    Idle = Idle
    Statements <- MCDdl
    InitialStatements <- MCOneTable
    MaxStatements = 4
    ConnectionsEnd = TRUE
SPECIFICATION Spec
SYMMETRY Symmetry
INVARIANTS
    IndexExactUntilDeleted
    RowsBelongToTable
    RowsFitTable
