CONSTANTS
    s1 = s1
    s2 = s2
    one = one
    TableName <- MCOneName
    ColumnName <- MCColumnName
    Datum <- MCDatumWithFloat
    Datatype <- MCDatatype
    Whole <- MCWhole
    KeyBefore <- MCKeyBefore
    IdBefore <- MCIdBefore
    Null = Null
    None = None
    Session = {s1, s2}
    Unwritten = Unwritten
    Idle = Idle
    Statements <- MCDml
    InitialStatements <- MCTwoRows
    MaxStatements = 4
    ConnectionsEnd = TRUE
SPECIFICATION Spec
SYMMETRY Symmetry
INVARIANTS
    IndexComplete
    CountsAddUp
