SPECIFICATION WindowSpec
CONSTANTS
    WindowSize = 4
    Seqs <- MCSeqs
INVARIANTS
    WindowExact
PROPERTY
    ImplementsAntiReplay
