SPECIFICATION Spec
CONSTANTS
    c1 = c1
    c2 = c2
    Call = {c1, c2}
    Totals = {3}
    Payments = {3}
    Classes = {}
    Ops = {"pay", "production"}
    MaxFailures = 1
SYMMETRY Symmetry
INVARIANTS
    NoStageSkipped
    TimelineSound
    BackedByRows
CHECK_DEADLOCK FALSE
