SPECIFICATION MCSpec
CONSTANTS
    c1 = c1
    c2 = c2
    a1 = a1
    a2 = a2
    k1 = k1
    k2 = k2
    None = None
    Conns = {c1, c2}
    Addrs = {a1, a2}
    ClientKeys = {k1, k2}
    Keys = {k1}
    StaticKeys = {}
    Allowed = {k1}
    MaxWrites = 1
    Second = 2
    RatePerSecond = 1
    Burst = 1
    CleanupInterval = 2
    EntryTTL = 2
    MaxTime = 3
    MaxSlots = 1
    Window = 1
    SidTTL = 2
    HelloTTL = 4
    CacheLimit = 0
    Skews = {0, 1}
INVARIANTS
    SlotsExact
    OneSessionPerHello
    RevokedRefused
    StreamIntact
PROPERTIES
    EveryConnectionDecided
    ImplementsTokenBucket
CHECK_DEADLOCK FALSE
