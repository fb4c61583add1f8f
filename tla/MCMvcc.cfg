CONSTANTS
    s1 = s1
    s2 = s2
    s3 = s3
    k1 = k1
    k2 = k2
    x1 = x1
    Session = {s1, s2, s3}
    Key = {k1, k2}
    Value = {x1}
    None = None
    Absent = Absent
    NoTxn = NoTxn
    MaxVersion = 5
SPECIFICATION Spec
SYMMETRY Symmetry
CHECK_DEADLOCK FALSE
INVARIANTS
    ReadsSnapshot
    ScanAgreesWithGet
    ConflictCheckExact
    OnlyNewestUncommitted
    WriteLogExact
PROPERTIES
    ImplementsSnapshotIsolation
    EachAsPromised
    StableReads
