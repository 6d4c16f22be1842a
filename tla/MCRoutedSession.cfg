SPECIFICATION FairSpec
CONSTANTS
    Buffers = {b1, b2, b3, b4}
    Producers = {run, sink}
    NoBuf = NoBuf
    PrioCap = 1
    OutCap = 2
    BatchCap = 2
    PrioBurst = 2
INVARIANTS
    BuffersAccounted
    BulkNotStarved
PROPERTIES
    LoopEnds
CHECK_DEADLOCK FALSE
