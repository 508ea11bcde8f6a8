SPECIFICATION FairSpec

CONSTANTS
    W = 2
    N = 3
    B = 2
    Depth = 1

INVARIANTS
    TypeOK
    EveryWriteArrivesOnce
    AnEndedLoopIsComplete

PROPERTIES
    TheLoopEnds
