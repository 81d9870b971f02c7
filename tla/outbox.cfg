SPECIFICATION FairSpec
CONSTANTS
    n1 = n1
    n2 = n2
    Node = {n1, n2}
    NoNode = NoNode
    NumEvents = 1
    Producer <- BothFromN1
    MaxAttempts = 3
    BatchSize = 1
    MaxStalled = 1
    PollerEnabled = TRUE
    SyncDev = FALSE
    Faults <- AllFaults
    MaxFaults = 3
INVARIANTS
    ExclusiveClaim
    AttemptsBounded
    OnlyCommittedProjected
    RepeatsHaveCause
PROPERTIES
    SettledIsFinal
    ImplementsContract
    ClaimedSettles
    DeadReachesDlq
CHECK_DEADLOCK FALSE
