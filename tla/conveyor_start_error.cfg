SPECIFICATION Spec

CONSTANTS
    W = 2
    S = 2
    N = 1
    B = 1
    P = 1
    MayFail <- BeginFails
    MayHang <- Nobody

INVARIANTS
    StartErrorReachesTheCaller
