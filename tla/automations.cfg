SPECIFICATION Spec
CONSTANTS
    a1 = a1
    a2 = a2
    u1 = u1
    u2 = u2
    l1 = l1
    l2 = l2
    k1 = k1
    k2 = k2
    j1 = j1
    j2 = j2
    AutoId = {a1}
    User = {u1}
    Listener = {l1}
    Ticker = {k1}
    Job = {j1}
    NoAuto = NoAuto
    NoTime = NoTime
    Ttl = 1
    Attempts = 2
    MaxStalls = 1
    Actions = 2
    MaxNow = 2
    MaxEdits = 2
    MaxCrashes = 1
INVARIANTS
    StaleWithinTtl
    CountTellsRuns
PROPERTIES
    DueIsFired
CHECK_DEADLOCK FALSE
