SPECIFICATION FairSpec
CONSTANTS
    q1 = q1
    q2 = q2
    a1 = a1
    a2 = a2
    b1 = b1
    b2 = b2
    p1 = p1
    p2 = p2
    c1 = c1
    c2 = c2
    Req <- TwoReqs
    Item <- FourItems
    Product <- TwoProducts
    Of <- OfReq
    Uses <- UsesProduct
    Call <- TwoCalls
    NoReq = NoReq
    NoItem = NoItem
    Failures = TRUE
INVARIANTS
    StatusTellsStock
    WholeDeduction
    ApprovalKeepsRow
PROPERTIES
    CallsEnd
CHECK_DEADLOCK FALSE
