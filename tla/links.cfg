SPECIFICATION Spec
CONSTANTS
    t1 = t1
    t2 = t2
    t3 = t3
    r1 = r1
    r2 = r2
    m1 = m1
    m2 = m2
    u1 = u1
    Task = {t1, t2, t3}
    LinkTypes = {"RELATES_TO"}
    Row = {r1, r2}
    Merger = {m1, m2}
    User = {u1}
    NoTask = NoTask
    NoRow = NoRow
    NoLink = NoLink
    Free = Free
    Dropped = Dropped
    Clean = Clean
    MaxMerges = 2
    MaxEdits = 1
SYMMETRY Symmetry
INVARIANTS
    LinksFollowMerge
    NoLinkLost
CHECK_DEADLOCK FALSE
