SPECIFICATION Spec
CONSTANTS
    t1 = t1
    t2 = t2
    t3 = t3
    reader = reader
    Turns <- MCTurns
    Readers <- MCReaders
    MaxReplies = 2
    Settings <- MCSettings
SYMMETRY MCSymmetry
INVARIANTS
    TypeOK
    CacheHoldsAcknowledged
    CacheHoldsWholeTurns
PROPERTIES
    ImplementsStore
