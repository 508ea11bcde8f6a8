SPECIFICATION Spec

CONSTANTS
    F = 2
    NIJ = 5
    Elems = 2
    Values <- OneOrTwo
    Masked <- OneMasked
    Requests <- EveryRequest

INVARIANTS
    AnswerIsTheSelection
    PowderHasEveryPixel
    ListStaysShort
