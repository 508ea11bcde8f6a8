SPECIFICATION FairSpec

CONSTANTS
    LongSize = 8
    IntMax = 100
    Threads = {"t1", "t2"}
    Cases <- MCCases
    Movable = {"out"}
    MaxResizes = 1

INVARIANTS
    PinsAreAccounted
    StaysInPlace
    ArgumentsAreFlat
    WritesAreItsOwn
    SizesFit
    LayoutIsWhole
    GilIsHeld
    GoodCallsGetThrough

PROPERTIES
    CallsReturn
