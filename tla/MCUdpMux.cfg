SPECIFICATION Spec
CONSTANTS
    Sessions = {s1}
    Listeners = {l1, l2}
    Addrs = {a1, a2}
    Nil = Nil
    Main = l1
    MaxCtr = 2
    MaxSend = 2
    QueueCap = 1
SYMMETRY Symmetry
INVARIANTS
    DeliveredOnce
    AddressAuthentic
    NonceUnique
CHECK_DEADLOCK FALSE
