SPECIFICATION Spec
CONSTANTS
    t1 = t1
    t2 = t2
    t3 = t3
    c1 = c1
    c2 = c2
    k1 = k1
    Task = {t1, t2, t3}
    NoTask = NoTask
    Call = {c1, c2}
    Key = {k1}
    NoKey = NoKey
    MaxNodes = 1024
    MaxStarts = 3
    MaxEdits = 2
SYMMETRY Symmetry
INVARIANTS
    MergedOnce
    RetriesAreSafe
    TargetWasLive
    NotBelowSource
PROPERTIES
    ClimbAdvances
CHECK_DEADLOCK FALSE
