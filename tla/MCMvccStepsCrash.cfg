CONSTANTS
    s1 = s1
    s2 = s2
    k1 = k1
    k2 = k2
    x1 = x1
    Session = {s1, s2}
    Key = {k1, k2}
    Value = {x1}
    None = None
    Absent = Absent
    NoTxn = NoTxn
    MaxVersion = 4
    Idle = Idle
    MayFail = {"begin", "write"}
    MaxFailures = 1
SPECIFICATION StepsSpec
SYMMETRY Symmetry
CHECK_DEADLOCK FALSE
INVARIANTS
    UndoLogComplete
PROPERTIES
    CrashAtomic
