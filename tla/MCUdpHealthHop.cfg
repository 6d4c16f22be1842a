SPECIFICATION HealthSpec
CONSTANTS
    TickPeriod = 2
    ProbeAfter = 3
    DeadAfter = 8
    FreshFor = 3
    KeepaliveTicks = 5
    UdpFailLimit = 2
    MaxRtt = 1
    PathStates = {"up"}
    LossRun = 1
INVARIANT
    HopReachesPool
CHECK_DEADLOCK FALSE
