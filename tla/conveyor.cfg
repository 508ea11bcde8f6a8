SPECIFICATION FairSpec

CONSTANTS
    W = 2
    S = 2
    N = 3
    B = 1
    P = 2
    MayFail <- AnythingFails
    MayHang <- Nobody

INVARIANTS
    TypeOK
    BufferHasOneUser
    DecodesTheUnitRead
    TodoNeverRunsDry
    InFlightFitsTheBuffers

PROPERTIES
    KeepsItsPromise
    EveryoneEnds
