SPECIFICATION RouterFairSpec
CONSTANTS
    Sessions = {s1, s2}
    IPs = {a, b}
    NoSession = NoSession
    Unparsed = Unparsed
    QueueCap = 1
    MaxPieces = 2
INVARIANTS
    LatestTalkerOwns
PROPERTIES
    NeverMisrouted
    ClosedSessionsEnd
CHECK_DEADLOCK FALSE
