SPECIFICATION FairSpec
CONSTANTS
    MaxConn = 2
    FailLimit = 1
    Options <- Typical
INVARIANTS
    OverIsOver
    StaleReaderBounded
PROPERTIES
    StopEnds
    ChangeDropsConnection
CHECK_DEADLOCK FALSE
