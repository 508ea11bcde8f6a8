SPECIFICATION Spec

CONSTANTS
    F = 2
    NB = 2
    NIJ = 25
    Unshuffle = TRUE
    Default = 32
    Int32Max = 100
    Limit = 3
    Chunks <- SomeChunks

INVARIANTS
    TypeOK
    ReadsInside
    DecodersAgree
    StartsAreTheBlocks
    AcceptedFramesAreWhole
