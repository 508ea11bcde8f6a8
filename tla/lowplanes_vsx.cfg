SPECIFICATION MCSpec

CONSTANTS
    Nbins = 4
    BlockElems = 4
    FloatExact = 7
    Wrap = 16
    Pipes <- OddVsxPipes
    Frames <- MCFrames
    Masks <- MCMasks
    Mats <- MCMats
    Cap = 12
    Slacks = {0, 3, 8}
    MemoryEnd = 24
    Literals <- MCLiterals
    Offsets = {0, 1, 2, 3, 4, 6}
    Lengths = {1, 2, 3, 5}
    Sizes = {}
    Dirt = {9}
    LitChunk = 5
    MatchChunk = 3
    ShortMatch = 6
    ZeroChunk = 6
    ZeroMax = 6
    Mflimit = 4
    LastLits = 2
    InLimit = 5

INVARIANTS
    ListIsTheSelection
