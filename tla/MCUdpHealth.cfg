SPECIFICATION HealthFairSpec
CONSTANTS
    TickPeriod = 2
    ProbeAfter = 3
    DeadAfter = 8
    FreshFor = 3
    KeepaliveTicks = 5
    UdpFailLimit = 2
    MaxRtt = 1
    PathStates = {"up", "down", "noroute"}
    LossRun = 1
INVARIANTS
    NoFalseAlarm
    DeadPathNoticed
PROPERTY
    UdpRecovers
CHECK_DEADLOCK FALSE
