SPECIFICATION AccSpec
CONSTANTS
    p1 = p1
    r1 = r1
    c1 = c1
    c2 = c2
    Acc = {p1, r1}
    Receivable = {r1}
    Payable = {p1}
    Amount = {0, 1, 2}
    Payment = {1, 2}
    Call = {c1, c2}
    NoAcc = NoAcc
    MaxReceived = 3
SYMMETRY Symmetry
INVARIANTS
    StatusTellsPaid
    LostOnlyByRace
CHECK_DEADLOCK FALSE
