SPECIFICATION FairSpec
CONSTANTS
    i1 = i1
    i2 = i2
    i3 = i3
    r1 = r1
    r2 = r2
    r3 = r3
    Item = {i1, i2, i3}
    Request = {r1, r2, r3}
    NoItem = NoItem
    Failing = {r2, r3}
INVARIANTS
    StatusBacked
    ChecksFollowSeparation
PROPERTIES
    ImplementsContract
    SeparationSettles
CHECK_DEADLOCK FALSE
