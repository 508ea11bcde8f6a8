------------------------------ MODULE Framing ------------------------------
(***************************************************************************)
(* How the bytes of a chunk are found: the framing of a bitshuffle chunk,  *)
(* walked by three entry points of src/src/pipeline/driver.c.  A chunk is  *)
(* a header (12 bytes: the size of the frame and of its blocks), then the  *)
(* blocks, each a 4 byte size word and that many compressed bytes, then    *)
(* the raw end of the frame, less than a group of 8 pixels.                *)
(*                                                                         *)
(*   "starts"      bslz4_driver_block_starts: where the blocks are; walks  *)
(*                 every chunk, a bad one does not stop the others         *)
(*   "run"         bslz4_driver_run: block by block, all the chunks of a   *)
(*                 block first; the first error ends the call              *)
(*   "decompress"  bslz4_driver_decompress: chunk by chunk                 *)
(*                                                                         *)
(* They share no state, so the model calls them one after the other on the *)
(* same chunks.  block_starts walks 8 chunks at a time, which is all of    *)
(* them here.  What a block holds is left out (it decodes or it does not), *)
(* and so are the bounds of the outputs, which the caller sizes.  A header *)
(* may hold any block size, whole groups of 8 pixels or not: decompress    *)
(* refuses to unshuffle such blocks, the others walk them.                 *)
(***************************************************************************)
EXTENDS Integers, FiniteSets

CONSTANTS F,           \* chunks of a call
          NB,          \* bytes of a pixel
          NIJ,         \* pixels of the frame the caller expects
          Unshuffle,   \* is decompress to give pixels, or the blocks as stored?
          Default,     \* the block size a header of 0 stands for
          Int32Max,    \* the largest frame a decoder takes, in bytes
          Limit,       \* bound on the blocks of a chunk
          Chunks       \* what a chunk may be

Frames   == 0 .. F - 1
Header   == 12
SizeWord == 4
Group      == 8 * NB      \* bytes of a group of 8 pixels
FrameBytes == NIJ * NB
Ops      == {"starts", "run", "decompress"}

\* total, bs: the header.  len: the bytes there are.  word[b]: the b-th size word along the walk,
\* if it is inside the chunk.  good[b]: does block b decode to its size.
Chunk == [total : Nat, bs : Nat, len : Nat,
          word : [0 .. Limit -> Nat], good : [0 .. Limit -> BOOLEAN]]
BlockSize(c) == IF c.bs = 0 THEN Default ELSE c.bs

ASSUME FramingAssumption ==
    /\ F \in Nat \ {0} /\ NB \in Nat \ {0} /\ NIJ \in Nat /\ Unshuffle \in BOOLEAN
    /\ Default \in Nat \ {0} /\ Int32Max \in Nat /\ Limit \in Nat
    /\ Chunks \subseteq Chunk
    /\ \A c \in Chunks : c.total \div BlockSize(c) <= Limit

VARIABLES chunk,   \* chunk[f]
          op, pc,  \* the entry point, and where it is
          f, b,    \* the chunk and the block it is at
          pos,     \* pos[f]: how far the walk of the chunk is (cursors)
          bad,     \* the chunks "starts" has given up (st)
          found,   \* found[o]: where entry point o found the blocks, <<chunk, block, position>>
          filled,  \* filled[f]: the bytes of the frame that were given out so far
          read,    \* the bytes read last: chunk, first and one past the last
          result   \* result[o]: what entry point o returned

vars == <<chunk, op, pc, f, b, pos, bad, found, filled, read, result>>

Total        == chunk[0].total
Size         == BlockSize(chunk[0])
Full         == Total \div Size
Remaining    == Total - Full * Size
TailBlock    == Group * (Remaining \div Group)
Raw          == Remaining - TailBlock
Blocks       == Full + (IF TailBlock > 0 THEN 1 ELSE 0)
SizeOf(i)    == IF i < Full THEN Size ELSE TailBlock
Nothing      == [f |-> 0, from |-> 0, to |-> 0]

Init ==
    /\ chunk \in [Frames -> Chunks]
    /\ op = "starts" /\ pc = "call" /\ f = 0 /\ b = 0
    /\ pos = [g \in Frames |-> Header] /\ bad = {}
    /\ found = [o \in Ops |-> {}] /\ filled = [g \in Frames |-> 0]
    /\ read = Nothing /\ result = [o \in Ops |-> "none"]

Return(rc) ==
    /\ pc' = "returned"
    /\ result' = [result EXCEPT ![op] = rc]

-----------------------------------------------------------------------------
\* bslz4_driver_check_frames: every chunk has a header, and all the same one.
Short    == \E g \in Frames : chunk[g].len < Header
Mismatch == \E g \in Frames : chunk[g].total # Total \/ BlockSize(chunk[g]) # Size

\* The bit transpose needs whole groups: decompress looks at the block size, also at one no block has.
Ungrouped == Size % Group # 0
Refused   == op = "decompress" /\ Unshuffle /\ Ungrouped

Verdict ==
    IF Short THEN "corrupt"
    ELSE IF Mismatch THEN "mismatch"
    ELSE IF op = "run" /\ Total \div NB > NIJ THEN "too many pixels"
    ELSE IF op = "run" /\ Total # FrameBytes THEN "too few pixels"
    ELSE IF op # "starts" /\ Total > Int32Max THEN "too large"
    ELSE IF Refused THEN "corrupt"
    ELSE "ok"

Check ==
    /\ pc = "call"
    /\ IF Verdict # "ok" THEN Return(Verdict)
                         ELSE pc' = "walk" /\ UNCHANGED result
    /\ f' = 0 /\ b' = 0 /\ bad' = {}
    /\ pos' = [g \in Frames |-> Header] /\ filled' = [g \in Frames |-> 0]
    /\ UNCHANGED <<chunk, op, found, read>>

\* The size word of the block is inside the chunk, and so is the block it promises.
WordInside    == chunk[f].len - pos[f] >= SizeWord
BlockAtTheEnd == chunk[f].word[b] <= chunk[f].len - pos[f]
BlockInside   == chunk[f].word[b] <= chunk[f].len - pos[f] - SizeWord

Locate ==
    /\ found' = [found EXCEPT ![op] = @ \cup {<<f, b, pos[f]>>}]
    /\ pos' = [pos EXCEPT ![f] = @ + chunk[f].word[b] + SizeWord]

\* The order of the walk: "decompress" takes the blocks of a chunk first, the others the chunks of
\* a block.  The stage after the full blocks is the tail, block and raw bytes.
NextAtNoTail(stages) ==
    IF op = "decompress"
    THEN /\ b' = IF b >= stages - 2 THEN 0 ELSE b + 1
         /\ f' = IF b >= stages - 2 THEN f + 1 ELSE f
    ELSE /\ f' = IF f = F - 1 THEN 0 ELSE f + 1
         /\ b' = IF f = F - 1 THEN b + 1 ELSE b
NextAt(stages) ==
    IF op = "decompress"
    THEN /\ b' = IF b = stages - 1 THEN 0 ELSE b + 1
         /\ f' = IF b = stages - 1 THEN f + 1 ELSE f
    ELSE /\ f' = IF f = F - 1 THEN 0 ELSE f + 1
         /\ b' = IF f = F - 1 THEN b + 1 ELSE b
Decoders       == {"run", "decompress"}
AtTheTail      == b = Full
HasFullBlock   == ~AtTheTail
HasBlock       == ~AtTheTail \/ TailBlock > 0
WalkIsOverLate == IF op = "decompress" THEN f = F ELSE b > Full + 1
WalkIsOver     == IF op = "decompress" THEN f = F ELSE b > Full

-----------------------------------------------------------------------------
(* The decoders *)

Corrupt ==
    /\ pc = "walk" /\ op \in Decoders /\ ~WalkIsOver /\ HasBlock
    /\ ~(WordInside /\ BlockInside)
    /\ Return("corrupt")
    /\ read' = IF WordInside THEN [f |-> f, from |-> pos[f], to |-> pos[f] + SizeWord] ELSE read
    /\ UNCHANGED <<chunk, op, f, b, pos, bad, found, filled>>

\* run gives out whole pixels; what decompress writes are bytes.
GivenOut(n) == IF op = "run" THEN NB * (n \div NB) ELSE n

\* A block of pixels that are not whole groups: a transpose (they are other projects') may refuse it.
MayNotTranspose == op = "run" /\ ~AtTheTail /\ (Size \div NB) % 8 # 0

\* A block is found and decoded: on to the next one, or to the raw end of the frame.
DecodeBlock ==
    /\ pc = "walk" /\ op \in Decoders /\ ~WalkIsOver /\ HasBlock
    /\ WordInside /\ BlockInside
    /\ Locate
    /\ read' = [f |-> f, from |-> pos[f], to |-> pos[f] + SizeWord + chunk[f].word[b]]
    /\ \/ ~chunk[f].good[b] /\ Return("decompress") /\ UNCHANGED <<f, b, filled>>
       \/ chunk[f].good[b] /\ MayNotTranspose /\ Return("untranspose") /\ UNCHANGED <<f, b, filled>>
       \/ /\ chunk[f].good[b]
          /\ filled' = [filled EXCEPT ![f] = @ + GivenOut(SizeOf(b))]
          /\ IF AtTheTail THEN pc' = "raw" /\ UNCHANGED <<f, b>>
                          ELSE NextAt(Full + 1) /\ UNCHANGED pc
          /\ UNCHANGED result
    /\ UNCHANGED <<chunk, op, bad>>

NoTailBlock ==
    /\ pc = "walk" /\ op \in Decoders /\ ~WalkIsOver /\ ~HasBlock
    /\ pc' = "raw"
    /\ UNCHANGED <<chunk, op, f, b, pos, bad, found, filled, read, result>>

\* The raw bytes are the last of the chunk, at or after the end of the walk.
RawInside == chunk[f].len >= Raw /\ pos[f] <= chunk[f].len - Raw
CopyRaw ==
    /\ pc = "raw"
    /\ IF Raw > 0 /\ ~RawInside
       THEN Return("corrupt") /\ UNCHANGED <<f, b, filled, read>>
       ELSE /\ pc' = "walk" /\ NextAt(Full + 1)
            /\ filled' = [filled EXCEPT ![f] = @ + GivenOut(Raw)]
            /\ read' = IF Raw > 0 THEN [f |-> f, from |-> chunk[f].len - Raw, to |-> chunk[f].len]
                                  ELSE read
            /\ UNCHANGED result
    /\ UNCHANGED <<chunk, op, pos, bad, found>>

Finish ==
    /\ pc = "walk" /\ op \in Decoders /\ WalkIsOver
    /\ Return("ok")
    /\ UNCHANGED <<chunk, op, f, b, pos, bad, found, filled, read>>

-----------------------------------------------------------------------------
(* block_starts *)

\* One chunk, one block; a chunk already given up is passed over.
FindStart ==
    /\ pc = "walk" /\ op = "starts" /\ b < Blocks
    /\ IF f \in bad \/ ~WordInside \/ ~BlockInside
       THEN bad' = bad \cup {f} /\ UNCHANGED <<pos, found>>
       ELSE Locate /\ UNCHANGED bad
    /\ read' = IF f \notin bad /\ WordInside
               THEN [f |-> f, from |-> pos[f], to |-> pos[f] + SizeWord] ELSE read
    /\ NextAt(Blocks)
    /\ UNCHANGED <<chunk, op, pc, filled, result>>

\* A chunk must end exactly with its raw bytes.
PastTheEnd(g) == pos[g] > chunk[g].len
Untiled(g)    == pos[g] + Raw # chunk[g].len
FinishStarts ==
    /\ pc = "walk" /\ op = "starts" /\ b = Blocks
    /\ bad' = bad \cup {g \in Frames : Untiled(g)}
    /\ Return(IF bad' = {} THEN "ok" ELSE "corrupt")
    /\ UNCHANGED <<chunk, op, f, b, pos, found, filled, read>>

\* The next entry point on the same chunks.
NextCall ==
    /\ pc = "returned" /\ op # "decompress"
    /\ op' = IF op = "starts" THEN "run" ELSE "decompress"
    /\ pc' = "call"
    /\ UNCHANGED <<chunk, f, b, pos, bad, found, filled, read, result>>

Done == pc = "returned" /\ op = "decompress" /\ UNCHANGED vars

Next == \/ Check \/ Corrupt \/ DecodeBlock \/ NoTailBlock \/ CopyRaw \/ Finish
        \/ FindStart \/ FinishStarts \/ NextCall \/ Done

Spec == Init /\ [][Next]_vars
-----------------------------------------------------------------------------
(* Properties *)

Results == {"none", "ok", "corrupt", "mismatch", "decompress", "untranspose",
            "too many pixels", "too few pixels", "too large"}

TypeOK ==
    /\ chunk \in [Frames -> Chunks]
    /\ op \in Ops /\ pc \in {"call", "walk", "raw", "returned"}
    /\ f \in 0 .. F /\ b \in 0 .. Full + 1
    /\ pos \in [Frames -> Nat] /\ bad \subseteq Frames
    /\ found \in [Ops -> SUBSET (Frames \X (0 .. Full) \X Nat)]
    /\ filled \in [Frames -> Nat]
    /\ read \in [f : Frames, from : Nat, to : Nat]
    /\ result \in [Ops -> Results]

\* Whatever the size words say, nothing outside a chunk is read (driver.c: "a block runs past the
\* chunk").
ReadsInside == read.from <= read.to /\ (read.to = 0 \/ read.to <= chunk[read.f].len)

AllReturned == pc = "returned" /\ op = "decompress"

\* The two decoders, which walk the chunks in different orders and stop at the first error, accept
\* the same chunks of the size the caller expects, with one difference: blocks that are not whole
\* groups of 8 pixels.  decompress refuses to unshuffle them; run goes on as far as the transpose does.
DecodersAgree ==
    AllReturned /\ Total = FrameBytes =>
        /\ result["run"] = "ok" => (result["decompress"] = "ok" <=> ~(Unshuffle /\ Ungrouped))
        /\ result["decompress"] = "ok" =>
              result["run"] = "ok" \/ (Full > 0 /\ Ungrouped /\ result["run"] = "untranspose")

\* "The walk is the decoders'" (driver.c): the blocks of chunks that block_starts accepts are where
\* the decoders look for them, and no decoder finds a chunk corrupt then, except for a block size that
\* is not whole groups, which block_starts does not look at and decompress refuses.
StartsAreTheBlocks ==
    AllReturned /\ result["starts"] = "ok" => \A o \in Decoders :
        /\ found[o] \subseteq found["starts"]
        /\ result[o] = "corrupt" => o = "decompress" /\ Unshuffle /\ Ungrouped
        /\ result[o] = "ok" => found[o] = found["starts"]

\* A decoder that returns 0 has filled every frame, no more and no less.  Of run this needs a block
\* size of whole pixels: it accepts any, and gives out the whole pixels of each block.
AcceptedFramesAreWhole ==
    pc = "returned" /\ op \in Decoders /\ result[op] = "ok" /\ (op = "run" => Size % NB = 0) =>
        \A g \in Frames : filled[g] = Total
=============================================================================
