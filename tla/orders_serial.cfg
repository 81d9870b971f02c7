SPECIFICATION Spec
CONSTANTS
    c1 = c1
    c2 = c2
    Call = {c1}
    Totals = {0, 2, 3}
    Payments = {1, 2, 3}
    Classes = {"own", "bought"}
    Ops = {"edit", "pay", "delete", "supply", "production", "separation"}
    MaxFailures = 0
INVARIANTS
    ReceivablesCoverOrder
    DeliveredIsSettled
    CancelledIsReversed
PROPERTIES
    FollowsMachine
    TotalFrozen
CHECK_DEADLOCK FALSE
