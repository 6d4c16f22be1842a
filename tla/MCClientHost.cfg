SPECIFICATION Spec
CONSTANTS
    s4 = s4
    s6 = s6
    dnsIP = dnsIP
    ipA = ipA
    net6 = net6
    site = site
    Def4 = Def4
    Def6 = Def6
    Hosts = {site}
    V6 = {s6, net6, Def6}
    Entries <- MCEntries
    Answers <- MCAnswers
    Options <- MCOptions
    MaxTicks = 1
INVARIANTS
    ServerBypassed
    RoutesRemoved
    DnsRestored
PROPERTIES
    ShutdownEnds
    GoroutinesEnd
CHECK_DEADLOCK FALSE
