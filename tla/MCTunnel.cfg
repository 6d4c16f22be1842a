SPECIFICATION FairSpec
CONSTANTS
    MaxSent <- Backlog
    QueueCap = 2
    CheckEvery = 2
    MaxPackets = 3
INVARIANTS
    InOrder
    CountersInStep
    ExpiryNotMissed
PROPERTY
    BothEndsClose
CHECK_DEADLOCK FALSE
