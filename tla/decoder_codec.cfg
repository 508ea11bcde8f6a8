SPECIFICATION Spec

CONSTANTS
    Ctx = {one}
    one = one
    two = two
    Matrices <- SomeMatrices
    Dots <- SomeDots
    Starved = {}
    Batches <- SomeBatches
    DataCodec = "zstd"
    MaxCalls <- SomeCalls

INVARIANTS
    GoodChunkDecodes
