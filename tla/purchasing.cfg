SPECIFICATION Spec
CONSTANTS
    q1 = q1
    o1 = o1
    o2 = o2
    c1 = c1
    k1 = k1
    k2 = k2
    Acc = {o1, o2}
    Receivable = {}
    Payable = {o1, o2}
    Order = {o1, o2}
    Amount = {0, 1}
    Payment = {1}
    Call = {}
    NoAcc = NoAcc
    MaxReceived = 1
    Quotation = {q1}
    Clerk = {k1, k2}
    None = None
    MaxSelections = 2
SYMMETRY Symmetry
INVARIANTS
    OneOrderPerSelection
    HandoffWhole
    NoStepSkipped
PROPERTIES
    ImplementsAccount
CHECK_DEADLOCK FALSE
