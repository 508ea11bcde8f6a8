----------------------------- MODULE MCDecoder -----------------------------
(* An instance of Decoder for TLC: one object with every kind of batch, three calls of it, and one *)
(* being made on the same plan meanwhile; matrices of each case of auto_dot that depends on the    *)
(* block size, and one that does not.  The third call is for what memory running out in the second *)
(* leaves behind.                                                                                  *)
EXTENDS Decoder

CONSTANTS one, two

Wide      == [nosplit |-> FALSE, runs |-> TRUE, maxBins |-> 20, few |-> FALSE, avx2 |-> FALSE,
              intPixels |-> TRUE]
Rings     == [Wide EXCEPT !.few = TRUE]
Narrow    == [Wide EXCEPT !.maxBins = 3, !.avx2 = TRUE]
Histogram == [Wide EXCEPT !.nosplit = TRUE, !.maxBins = 1, !.intPixels = FALSE]

SomeMatrices == {Wide, Rings, Narrow, Histogram}
SomeDots     == [c \in Ctx |-> IF c = one THEN {"auto", "bsb-csr"} ELSE {"bsb-csr"}]

Frames(n) == [kind |-> "frames", n |-> n, be |-> DefaultElems, first |-> "good", rest |-> "good"]
Chunks(n, be, f, r) == [kind |-> "chunks", n |-> n, be |-> be, first |-> f, rest |-> r]

\* Blocks of the default size, of more than padded and of more than bsb-csr takes.
Blocks == {DefaultElems, 16384, 131072}

EveryBatch ==
    {Frames(1), Chunks(2, DefaultElems, "cut", "good"), Chunks(2, DefaultElems, "damaged", "good"),
     Chunks(1, DefaultElems, "good", "good"), Chunks(1, 16384, "good", "good"),
     Chunks(2, 131072, "good", "good"), Chunks(2, 131072, "good", "bad")}

\* One object may run out of memory.
SomeStarved == {one}

SomeBatches == [c \in Ctx |-> IF c = one THEN EveryBatch ELSE {}]
SomeCalls   == [c \in Ctx |-> IF c = one THEN 3 ELSE 0]
=============================================================================
