----------------------------- MODULE BlockLoop -----------------------------
(***************************************************************************)
(* The frame / block loop of the decoder, bslz4_driver_run of              *)
(* src/src/pipeline/driver.c, with top_pixels inside it: a call decodes    *)
(* the chunks of a batch of frames, block by block and all the frames of a *)
(* block before the next block, lists the pixels above a threshold, sums   *)
(* the powder, and raises the threshold of a frame whose list is over the  *)
(* limit.                                                                  *)
(*                                                                         *)
(* Lists are in pixel order from the first to the last, so a list is the   *)
(* set of its pixels.  Where the bytes of a block lie in a chunk is left   *)
(* out (any block may fail to decode), and so are the kernels, which       *)
(* compute the same in every variant: a block is listed and dotted whole.  *)
(***************************************************************************)
EXTENDS Integers, Sequences, FiniteSets

CONSTANTS F,         \* frames of a call
          NIJ,       \* pixels of a frame
          Elems,     \* pixels of a block (block_elems)
          Values,    \* what a pixel may hold
          Masked,    \* the pixels the mask excludes
          Requests   \* the arguments a call may have, see Request

Frames   == 0 .. F - 1
Pixels   == 0 .. NIJ - 1
Unmasked == Pixels \ Masked
Blocks   == NIJ \div Elems   \* full blocks; what is left is the tail

\* cut: every pixel returned is above it.  top: is there a howmany.  thr: the thresholds as the
\* caller gives them, in halves, since they are floats and the pixels are not.  dot: is there a
\* powder to sum.
Request == [cut : Nat, top : BOOLEAN, howmany : Nat, thr : Seq(Int), dot : BOOLEAN]

ASSUME BlockLoopAssumption ==
    /\ F \in Nat \ {0} /\ NIJ \in Nat /\ Elems \in Nat \ {0}
    /\ Values \subseteq Int /\ Masked \subseteq Pixels
    /\ Requests \subseteq Request
    /\ \A a \in Requests : \A i, j \in 1 .. Len(a.thr) : i <= j => a.thr[i] <= a.thr[j]

VARIABLES pc,      \* where the loop is
          args,    \* the arguments of the call
          pixel,   \* pixel[f][p]: the pixels of the frames it was given, 0 until decoded
          block,   \* the block the loop is at; Blocks is the tail
          frame,   \* the frame it is at
          list,    \* list[f]: the pixels listed (output_adr, npx_out)
          level,   \* level[f]: the threshold the list is at, -1 the cut
          nabove,  \* nabove[f]: the length of the list before it was cut short
          powder   \* powder[f][p]: how often pixel p was added to its bins

vars == <<pc, args, pixel, block, frame, list, level, nabove, powder>>

BlockOf(p)  == p \div Elems
PixelsOf(b) == {p \in Pixels : BlockOf(p) = b}
Columns     == Unmasked   \* the pixels the matrix has entries for: the mask is folded into it

\* The threshold of a level as the loop compares it, an integer not below the cut.
Effective(t) == IF t \div 2 > args.cut THEN t \div 2 ELSE args.cut
ThrAt(l)     == IF l < 0 THEN args.cut ELSE Effective(args.thr[l + 1])

\* Is a list of n pixels at level l over the limit?
OverAsAtTheCut(l, n) == n > args.howmany
Over(l, n)           == IF l < 0 THEN n > args.howmany ELSE n >= args.howmany

\* The first n pixels of a list.
First(n, S) == {p \in S : Cardinality({q \in S : q < p}) < n}

NoPixels == [p \in Pixels |-> 0]
NoCall   == [cut |-> 0, top |-> FALSE, howmany |-> 0, thr |-> <<>>, dot |-> FALSE]

Init ==
    /\ pc = "idle" /\ args = NoCall
    /\ pixel = [f \in Frames |-> NoPixels]
    /\ block = 0 /\ frame = 0
    /\ list   = [f \in Frames |-> {}]
    /\ level  = [f \in Frames |-> -1]
    /\ nabove = [f \in Frames |-> 0]
    /\ powder = [f \in Frames |-> NoPixels]

-----------------------------------------------------------------------------
\* A call with arguments a.  The outputs may hold those of an earlier call.
Call(a) ==
    /\ pc \in {"idle", "returned", "failed"}
    /\ pc' = "decode" /\ args' = a
    /\ pixel' = [f \in Frames |-> NoPixels]
    /\ block' = 0 /\ frame' = 0
    /\ list'   = [f \in Frames |-> {}]
    /\ level'  = [f \in Frames |-> -1]
    /\ nabove' = [f \in Frames |-> 0]
    /\ powder' = [f \in Frames |-> NoPixels]

\* The block of the frame decodes to the pixels px.
Decode(px) ==
    /\ pc = "decode"
    /\ pc' = "raise"
    /\ pixel' = [pixel EXCEPT ![frame] = [p \in Pixels |-> IF BlockOf(p) = block THEN px[p] ELSE @[p]]]
    /\ UNCHANGED <<args, block, frame, list, level, nabove, powder>>

\* A corrupt block ends the call, with the outputs as they are.
DecodeFails ==
    /\ pc = "decode"
    /\ pc' = "failed"
    /\ UNCHANGED <<args, pixel, block, frame, list, level, nabove, powder>>

\* One turn of the loop of top_raise: the next level, and the list filtered in place.
MayRaise ==
    /\ args.top /\ level[frame] + 1 < Len(args.thr)
    /\ Over(level[frame], Cardinality(list[frame]))
Raise ==
    /\ pc \in {"raise", "settle"} /\ MayRaise
    /\ level' = [level EXCEPT ![frame] = @ + 1]
    /\ list' = [list EXCEPT ![frame] = {p \in @ : pixel[frame][p] > ThrAt(level[frame] + 1)}]
    /\ UNCHANGED <<pc, args, pixel, block, frame, nabove, powder>>

\* The pixels of the block the dot adds: on the sparse route the unmasked ones that are not 0
\* (not only those above the threshold), on the dense one all the matrix has.
DottedAboveTheCut(sparse) ==
    {p \in PixelsOf(block) \cap Unmasked : pixel[frame][p] > ThrAt(level[frame])}
Dotted(sparse) ==
    IF sparse THEN {p \in PixelsOf(block) \cap Unmasked : pixel[frame][p] # 0}
              ELSE PixelsOf(block) \cap Columns

NextFrame ==
    /\ frame' = IF frame = F - 1 THEN 0 ELSE frame + 1
    /\ block' = IF frame = F - 1 THEN block + 1 ELSE block

\* List the pixels of the block above the frame's threshold and dot it; then the next frame, and
\* after the last one the next block.  In the tail the frame is settled first.
CollectBlock(sparse) ==
    /\ list' = [list EXCEPT ![frame] =
           @ \cup {p \in PixelsOf(block) \cap Unmasked : pixel[frame][p] > ThrAt(level[frame])}]
    /\ powder' = IF ~args.dot THEN powder ELSE
           [powder EXCEPT ![frame] =
               [p \in Pixels |-> @[p] + IF p \in Dotted(sparse) THEN pixel[frame][p] ELSE 0]]
    /\ IF block < Blocks THEN pc' = "decode" /\ NextFrame
                         ELSE pc' = "settle" /\ UNCHANGED <<frame, block>>
    /\ UNCHANGED <<args, pixel, level, nabove>>
CollectUnraised(sparse) == pc = "raise" /\ CollectBlock(sparse)
Collect(sparse)         == pc = "raise" /\ ~MayRaise /\ CollectBlock(sparse)

\* The end of a frame: the last moves to a threshold, then at most the first howmany pixels.
SettleFrame ==
    /\ nabove' = IF args.top THEN [nabove EXCEPT ![frame] = Cardinality(list[frame])] ELSE nabove
    /\ list' = IF args.top THEN [list EXCEPT ![frame] = First(args.howmany, @)] ELSE list
    /\ pc' = IF frame = F - 1 THEN "returned" ELSE "decode"
    /\ NextFrame
    /\ UNCHANGED <<args, pixel, level, powder>>
Settle == pc = "settle" /\ ~MayRaise /\ SettleFrame

Next ==
    \/ \E a \in Requests : Call(a)
    \/ \E px \in [PixelsOf(block) -> Values] : Decode(px)
    \/ DecodeFails \/ Raise \/ Settle
    \/ \E sparse \in BOOLEAN : Collect(sparse)

Spec == Init /\ [][Next]_vars
-----------------------------------------------------------------------------
(* The answer, from the frames alone (src/src/_toppix.py, top_pixels and     *)
(* apply): all the pixels above the cut first, then the selection.           *)

AboveTheCut(f) == {p \in Unmasked : pixel[f][p] > args.cut}
Passing(f, i)  == {p \in AboveTheCut(f) : 2 * pixel[f][p] > args.thr[i]}
Enough(f)      == {i \in 1 .. Len(args.thr) : Cardinality(Passing(f, i)) < args.howmany}

\* Which threshold the selection applies, 0 for none.
Chosen(f) ==
    IF ~args.top \/ Cardinality(AboveTheCut(f)) <= args.howmany THEN 0
    ELSE IF Enough(f) = {} THEN Len(args.thr)
    ELSE CHOOSE i \in Enough(f) : \A j \in Enough(f) : i <= j
Selected(f) == IF Chosen(f) = 0 THEN AboveTheCut(f) ELSE Passing(f, Chosen(f))
Kept(f)     == IF args.top THEN First(args.howmany, Selected(f)) ELSE Selected(f)

-----------------------------------------------------------------------------
(* Properties *)

TypeOK ==
    /\ pc \in {"idle", "decode", "raise", "settle", "returned", "failed"}
    /\ args \in Request
    /\ pixel \in [Frames -> [Pixels -> Int]]
    /\ block \in 0 .. Blocks + 1 /\ frame \in Frames
    /\ list \in [Frames -> SUBSET Pixels]
    /\ level \in [Frames -> -1 .. Len(args.thr) - 1]
    /\ nabove \in [Frames -> 0 .. NIJ]
    /\ powder \in [Frames -> [Pixels -> Int]]

\* Raising the threshold within the loop and filtering what is already listed gives the answer of
\* selecting afterwards (pipeline.h: "The answer equals ...").
AnswerIsTheSelection ==
    pc = "returned" => \A f \in Frames :
        /\ list[f] = Kept(f)
        /\ level[f] = Chosen(f) - 1
        /\ args.top => nabove[f] = Cardinality(Selected(f))

\* The powder has every unmasked pixel once, on either route, however many pixels are returned.
PowderHasEveryPixel ==
    pc = "returned" /\ args.dot => \A f \in Frames, p \in Pixels :
        powder[f][p] = IF p \in Unmasked THEN pixel[f][p] ELSE 0

\* Until a frame is at its last level, its list is never longer than the limit and one block.
ListStaysShort ==
    \A f \in Frames : args.top /\ level[f] + 1 < Len(args.thr) =>
        Cardinality(list[f]) <= args.howmany + Elems
=============================================================================
