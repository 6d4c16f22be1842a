SPECIFICATION Spec
CONSTANTS
    Base = 4
    ExtMSS = 12
    MinMTU = 5
    MaxTunMTU = 10
    Configured = {0, 3, 8, 11}
    Unit = 2
    SeqSpace = 32
    IdSpace = 8
    MaxLen = 21
    Burst = 1
    Overhead = 3
    MaxScan = 13
    MaxPayload = 2
    JunkCount = 2
    JunkMin = 1
    JunkMax = 4
INVARIANTS
    ChecksumStaysValid
    PiecesReassemble
    RejectsEnd
    HelloFoundInScan
