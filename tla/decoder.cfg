SPECIFICATION Spec

CONSTANTS
    Ctx = {one, two}
    one = one
    two = two
    Matrices <- SomeMatrices
    Dots <- SomeDots
    Starved <- SomeStarved
    Batches <- SomeBatches
    DataCodec = "zstd"
    MaxCalls <- SomeCalls

INVARIANTS
    PipelineFitsLayout
    BuffersHoldTheBatch
    LayoutsAreShared
    GoodBatchDecodes

PROPERTIES
    MaskChoiceStays
    CallsReturn
