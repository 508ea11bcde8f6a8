----------------------------- MODULE MCFraming -----------------------------
(* An instance of Framing for TLC, of pixels of 2 bytes: frames of a full block, a tail block and  *)
(* a raw pixel, of a full block and a raw pixel, and of a full and a tail block; chunks that fit   *)
(* and chunks that do not; and block sizes that are not whole groups of 8 pixels.                  *)
EXTENDS Framing

ChunkOf(total, bs, len, w, good) ==
    [total |-> total, bs |-> bs, len |-> len,
     word |-> [i \in 0 .. Limit |-> IF i = 0 THEN w[1] ELSE w[2]],
     good |-> [i \in 0 .. Limit |-> i = 0 \/ good]]

\* 34 = 32 and 2 raw; 48 = 32 and a tail block of 16; 50 = 32, 16 and 2 raw, as the caller expects.
Totals  == {34, 48, 50}
Lengths == {11, 15, 19, 22, 24, 28}
\* A size word promises 1 byte, or more than some chunks hold, or more than any.
Words   == {<<1, 1>>, <<1, 3>>, <<3, 1>>, <<1, 99>>, <<99, 1>>}

\* Blocks of 12 pixels and of 16 and a half; one of 36 pixels, larger than the frame; one of 32, too.
OtherBlocks == {<<24, 24>>, <<33, 23>>, <<72, 19>>, <<64, 19>>, <<16, 29>>, <<32, 24>>}

SomeChunks ==
    {ChunkOf(t, 0, n, w, g) : t \in Totals, n \in Lengths, w \in Words, g \in BOOLEAN}
        \cup {ChunkOf(50, x[1], x[2] + d, <<1, 1>>, g) : x \in OtherBlocks, d \in {0, 1}, g \in BOOLEAN}
        \cup {ChunkOf(t, 0, 41, <<1, 1>>, TRUE) : t \in {51, 110}}
=============================================================================
