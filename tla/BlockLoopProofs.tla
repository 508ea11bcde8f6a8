-------------------------- MODULE BlockLoopProofs --------------------------
(***************************************************************************)
(* Proofs about BlockLoop, for every number of frames, pixels and pixels   *)
(* of a block, every mask, every list of thresholds and every value of the *)
(* pixels: TypeOK, and the answers.  The inductive invariant says what has *)
(* been answered at any point of the loop:                                 *)
(*   ListAt     the list of a frame is the seen pixels above its level;    *)
(*   LevelAt    every lower level had too many of them already, and more   *)
(*              pixels only make more;                                     *)
(*   SettledAt  once a frame is settled its level is the last or has few   *)
(*              enough, and its list was cut short;                        *)
(*   PowderAt   the powder of a frame has the seen pixels, once.           *)
(***************************************************************************)
EXTENDS BlockLoop, FiniteSetTheorems, TLAPS

\* The unmasked pixels of frame f that were collected, and those of them above level l.
Seen(f) ==
    {p \in Unmasked : \/ BlockOf(p) < block
                      \/ BlockOf(p) = block /\ (f < frame \/ (f = frame /\ pc = "settle"))}
Sel(f, l)  == {p \in Seen(f) : pixel[f][p] > ThrAt(l)}
Settled(f) == block = Blocks + 1 \/ (block = Blocks /\ f < frame)

Sorted == \A i, j \in 1 .. Len(args.thr) : i <= j => args.thr[i] <= args.thr[j]

PlaceInv ==
    /\ pc \in {"idle", "decode", "raise", "settle", "failed"} => block <= Blocks
    /\ pc = "settle" => block = Blocks
    /\ pc = "idle" => block = 0 /\ frame = 0
    /\ pc = "returned" => block = Blocks + 1 /\ frame = 0

\* The list of a frame that is not settled.
ListAt(f) == ~Settled(f) => list[f] = Sel(f, level[f])

\* Why the level of a frame is not a lower one.
LevelAt(f) ==
    /\ ~args.top => level[f] = -1
    /\ \A l \in -1 .. level[f] - 1 : Over(l, Cardinality(Sel(f, l)))

\* The answer for a frame that is settled, and why its level is not a higher one.
SettledAt(f) ==
    Settled(f) =>
        /\ list[f] = IF args.top THEN First(args.howmany, Sel(f, level[f])) ELSE Sel(f, level[f])
        /\ args.top => /\ nabove[f] = Cardinality(Sel(f, level[f]))
                       /\ level[f] + 1 < Len(args.thr) => ~Over(level[f], nabove[f])

\* The powder of a frame.
PowderAt(f) ==
    args.dot => \A p \in Pixels : powder[f][p] = IF p \in Seen(f) THEN pixel[f][p] ELSE 0

\* No list is long before the last level.
ShortAt(f) ==
    args.top /\ level[f] + 1 < Len(args.thr) => Cardinality(list[f]) <= args.howmany + Elems

FrameInv(f) == ListAt(f) /\ LevelAt(f) /\ SettledAt(f) /\ PowderAt(f) /\ ShortAt(f)

IInv == TypeOK /\ Sorted /\ PlaceInv /\ \A f \in Frames : FrameInv(f)

-----------------------------------------------------------------------------
(* Blocks and sets of pixels *)

\* What integer division does.
LEMMA Division ==
    ASSUME NEW r \in Nat, NEW g \in Nat \ {0}
    PROVE  r \div g \in Nat /\ g * (r \div g) <= r /\ r < g * (r \div g) + g /\ g * (r \div g) \in Nat
  BY SMT

\* Later pixels are in later blocks.
LEMMA DivisionGrows ==
    ASSUME NEW q \in Nat, NEW r \in Nat, q <= r, NEW g \in Nat \ {0}
    PROVE  q \div g <= r \div g
<1>1. q \div g \in Nat /\ g * (q \div g) <= q /\ g * (q \div g) \in Nat
  BY Division
<1>2. r \div g \in Nat /\ r < g * (r \div g) + g /\ g * (r \div g) \in Nat
  BY Division
<1>3. SUFFICES ASSUME q \div g > r \div g PROVE FALSE
  BY <1>1, <1>2
<1> DEFINE a == q \div g
<1> DEFINE b == r \div g
<1>4. a \in Nat /\ b \in Nat /\ a >= b + 1
  BY <1>1, <1>2, <1>3
<1> HIDE DEF a, b
<1>5. g * a >= g * (b + 1)
  BY <1>4
<1>6. g * (b + 1) = g * b + g
  BY <1>4
<1> QED
  BY <1>1, <1>2, <1>5, <1>6 DEF a, b

\* Every pixel is in one of the blocks or in the tail.
LEMMA BlockOfPixel ==
    /\ Blocks \in Nat
    /\ \A p \in Pixels : BlockOf(p) \in Nat /\ BlockOf(p) <= Blocks
  BY BlockLoopAssumption, Division, DivisionGrows DEF Blocks, Pixels, BlockOf

\* Sets of pixels are finite.
LEMMA PixelSets ==
    ASSUME NEW S, S \subseteq Pixels
    PROVE  IsFiniteSet(S) /\ Cardinality(S) \in Nat /\ Cardinality(S) <= NIJ
<1>1. NIJ \in Nat /\ NIJ - 1 \in Int
  BY BlockLoopAssumption
<1>2. IsFiniteSet(Pixels) /\ Cardinality(Pixels) = NIJ
  BY <1>1, FS_Interval DEF Pixels
<1>3. IsFiniteSet(S) /\ Cardinality(S) <= Cardinality(Pixels)
  BY <1>2, FS_Subset
<1> QED
  BY <1>2, <1>3, FS_CardinalityType

\* More pixels are more.
LEMMA Monotone ==
    ASSUME NEW T, T \subseteq Pixels, NEW S, S \subseteq T
    PROVE  Cardinality(S) <= Cardinality(T)
  BY PixelSets, FS_Subset

\* A block has no more pixels than block_elems.
LEMMA BlockIsSmall ==
    ASSUME NEW b \in Nat, NEW S, S \subseteq PixelsOf(b)
    PROVE  Cardinality(S) <= Elems
<1>1. Elems \in Nat \ {0} /\ Elems * b \in Nat
  BY BlockLoopAssumption
<1> DEFINE I == Elems * b .. Elems * b + Elems - 1
<1>2. IsFiniteSet(I) /\ Cardinality(I) = Elems
  <2> DEFINE lo == Elems * b
  <2>1. lo \in Int /\ lo + Elems - 1 \in Int
    BY <1>1
  <2>2. lo <= lo + Elems - 1
    BY <1>1
  <2> HIDE DEF lo
  <2>3. IsFiniteSet(lo .. lo + Elems - 1) /\ Cardinality(lo .. lo + Elems - 1) = (lo + Elems - 1) - lo + 1
    BY <2>1, <2>2, FS_Interval
  <2> QED
    BY <1>1, <2>1, <2>3 DEF lo
<1>3. ASSUME NEW p \in S PROVE p \in I
  <2>1. p \in Nat /\ p \div Elems = b
    BY BlockLoopAssumption DEF PixelsOf, BlockOf, Pixels
  <2>2. Elems * (p \div Elems) <= p /\ p < Elems * (p \div Elems) + Elems
    BY <1>1, <2>1, Division
  <2> QED
    BY <1>1, <2>1, <2>2
<1> QED
  BY <1>1, <1>2, <1>3, FS_Subset

\* A list cut short has no pixels of its own.
LEMMA FirstIsSubset ==
    ASSUME NEW n, NEW S
    PROVE  First(n, S) \subseteq S
  BY DEF First

-----------------------------------------------------------------------------
(* Thresholds *)

\* A pixel is above the integer part of a threshold exactly if it is above the threshold.
LEMMA Halves ==
    ASSUME NEW v \in Int, NEW t \in Int
    PROVE  v > t \div 2 <=> 2 * v > t
  BY SMT

\* The arguments of a call.
LEMMA Arguments ==
    ASSUME args \in Request
    PROVE  /\ args.cut \in Nat /\ args.howmany \in Nat /\ args.thr \in Seq(Int) /\ Len(args.thr) \in Nat
           /\ args.top \in BOOLEAN
           /\ \A i \in 1 .. Len(args.thr) : args.thr[i] \in Int
  BY DEF Request

\* The loop compares with integers, not below the cut and not below those of lower levels.
LEMMA Levels ==
    ASSUME args \in Request, Sorted, NEW l \in -1 .. Len(args.thr) - 1
    PROVE  /\ ThrAt(l) \in Int /\ ThrAt(l) >= args.cut
           /\ l + 1 < Len(args.thr) => ThrAt(l) <= ThrAt(l + 1)
<1> DEFINE t == args.thr
<1>1. /\ args.cut \in Nat /\ Len(t) \in Nat /\ \A i \in 1 .. Len(t) : t[i] \in Int
  BY Arguments
<1>2. \A i, j \in 1 .. Len(t) : i <= j => t[i] <= t[j]
  BY DEF Sorted
<1> HIDE DEF t
<1>3. ASSUME NEW i \in 1 .. Len(t)
      PROVE  Effective(t[i]) \in Int /\ Effective(t[i]) >= args.cut
  BY <1>1 DEF Effective
<1>4. ASSUME NEW i \in 1 .. Len(t), NEW j \in 1 .. Len(t), i <= j
      PROVE  Effective(t[i]) <= Effective(t[j])
  <2>1. t[i] \in Int /\ t[j] \in Int /\ t[i] <= t[j]
    BY <1>1, <1>2, <1>4
  <2>2. t[i] \div 2 <= t[j] \div 2
    BY <2>1, SMT
  <2> QED
    BY <1>1, <2>1, <2>2 DEF Effective
<1>5. ASSUME l = -1 PROVE ThrAt(l) = args.cut
  BY <1>5 DEF ThrAt
<1>6. ASSUME NEW k \in 0 .. Len(t) - 1 PROVE ThrAt(k) = Effective(t[k + 1]) /\ k + 1 \in 1 .. Len(t)
  BY <1>1 DEF ThrAt, t
<1>7. CASE l = -1
  <2>1. l + 1 < Len(t) => 0 \in 0 .. Len(t) - 1 /\ l + 1 = 0
    BY <1>1, <1>7
  <2> QED
    BY <1>1, <1>3, <1>5, <1>6, <1>7, <2>1 DEF t
<1>8. CASE l >= 0
  <2>1. l \in 0 .. Len(t) - 1 /\ (l + 1 < Len(t) => l + 1 \in 0 .. Len(t) - 1) /\ l + 1 <= l + 2
    BY <1>1, <1>8 DEF t
  <2>2. /\ ThrAt(l) = Effective(t[l + 1]) /\ l + 1 \in 1 .. Len(t)
    BY <1>6, <2>1
  <2>3. l + 1 < Len(t) => /\ ThrAt(l + 1) = Effective(t[l + 2]) /\ l + 2 \in 1 .. Len(t)
    BY <1>6, <2>1
  <2> QED
    BY <1>3, <1>4, <2>1, <2>2, <2>3 DEF t
<1> QED
  BY <1>1, <1>7, <1>8 DEF t

\* A list that is too long stays so when it grows.
LEMMA OverGrows ==
    ASSUME args \in Request, NEW l \in Int, NEW m \in Nat, NEW n \in Nat, m <= n, Over(l, m)
    PROVE  Over(l, n)
  BY Arguments DEF Over

-----------------------------------------------------------------------------
(* What has been seen *)

\* Where the loop is.
LEMMA Where ==
    ASSUME TypeOK
    PROVE  /\ F \in Nat \ {0} /\ Blocks \in Nat /\ Elems \in Nat \ {0}
           /\ block \in Nat /\ frame \in Nat /\ frame <= F - 1
           /\ \A f \in Frames : f \in Nat /\ f <= F - 1
           /\ \A p \in Unmasked : p \in Pixels /\ BlockOf(p) \in Nat /\ BlockOf(p) <= Blocks
  BY BlockLoopAssumption, BlockOfPixel DEF TypeOK, Frames, Unmasked

\* What a frame has seen are pixels of it.
LEMMA SeenArePixels ==
    ASSUME NEW f
    PROVE  Seen(f) \subseteq Pixels /\ \A l : Sel(f, l) \subseteq Seen(f)
  BY DEF Seen, Sel, Unmasked

\* Decoding, raising and settling see no more pixels.
LEMMA SeenStays ==
    ASSUME TypeOK, PlaceInv, NEW f \in Frames,
           \/ \E px \in [PixelsOf(block) -> Values] : Decode(px)
           \/ DecodeFails \/ Raise \/ Settle
    PROVE  Seen(f)' = Seen(f)
<1>1. ASSUME NEW px \in [PixelsOf(block) -> Values], Decode(px) PROVE Seen(f)' = Seen(f)
  BY <1>1 DEF Decode, Seen
<1>2. CASE DecodeFails
  BY <1>2 DEF DecodeFails, Seen
<1>3. CASE Raise
  BY <1>3 DEF Raise, Seen
<1>4. CASE Settle
  <2>1. pc = "settle" /\ pc' # "settle" /\ block = Blocks /\ NextFrame
    BY <1>4 DEF Settle, SettleFrame, PlaceInv
  <2>2. Seen(f) = {p \in Unmasked : BlockOf(p) < block \/ (BlockOf(p) = block /\ f <= frame)}
    BY <2>1, Where DEF Seen
  <2>3. Seen(f)' = {p \in Unmasked : BlockOf(p) < block' \/ (BlockOf(p) = block' /\ f < frame')}
    BY <2>1 DEF Seen
  <2>4. CASE frame = F - 1
    <3>1. frame' = 0 /\ block' = block + 1
      BY <2>1, <2>4 DEF NextFrame
    <3> QED
      BY <2>1, <2>2, <2>3, <2>4, <3>1, Where
  <2>5. CASE frame # F - 1
    <3>1. frame' = frame + 1 /\ block' = block
      BY <2>1, <2>5 DEF NextFrame
    <3> QED
      BY <2>1, <2>2, <2>3, <3>1, Where
  <2> QED
    BY <2>4, <2>5
<1> QED
  BY <1>1, <1>2, <1>3, <1>4

\* Collecting a block sees the pixels of it, of the frame the loop is at.
LEMMA SeenGrows ==
    ASSUME TypeOK, PlaceInv, NEW f \in Frames, NEW sparse \in BOOLEAN, Collect(sparse)
    PROVE  /\ Seen(f)' = IF f = frame THEN Seen(f) \cup (PixelsOf(block) \cap Unmasked) ELSE Seen(f)
           /\ Seen(frame) \cap PixelsOf(block) = {}
<1>1. pc = "raise" /\ block <= Blocks
  BY DEF Collect, PlaceInv
<1>2. Seen(f) = {p \in Unmasked : BlockOf(p) < block \/ (BlockOf(p) = block /\ f < frame)}
  BY <1>1 DEF Seen
<1>3. PixelsOf(block) \cap Unmasked = {p \in Unmasked : BlockOf(p) = block}
  BY DEF PixelsOf, Unmasked
<1>4. Seen(frame) \cap PixelsOf(block) = {}
  BY <1>1, Where DEF Seen, PixelsOf
<1>5. CASE block < Blocks
  <2>1. pc' = "decode" /\ NextFrame
    BY <1>5 DEF Collect, CollectBlock
  <2>2. Seen(f)' = {p \in Unmasked : BlockOf(p) < block' \/ (BlockOf(p) = block' /\ f < frame')}
    BY <2>1 DEF Seen
  <2>3. CASE frame = F - 1
    <3>1. frame' = 0 /\ block' = block + 1
      BY <2>1, <2>3 DEF NextFrame
    <3>2. Seen(f)' = {p \in Unmasked : BlockOf(p) < block \/ BlockOf(p) = block}
      BY <2>2, <3>1, Where
    <3>3. f < frame \/ f = frame
      BY <2>3, Where
    <3> QED
      BY <1>2, <1>3, <1>4, <3>2, <3>3, Where
  <2>4. CASE frame # F - 1
    <3>1. frame' = frame + 1 /\ block' = block
      BY <2>1, <2>4 DEF NextFrame
    <3>2. Seen(f)' = {p \in Unmasked : BlockOf(p) < block \/ (BlockOf(p) = block /\ (f < frame \/ f = frame))}
      BY <2>2, <3>1, Where
    <3> QED
      BY <1>2, <1>3, <1>4, <3>2, Where
  <2> QED
    BY <2>3, <2>4
<1>6. CASE ~(block < Blocks)
  <2>1. pc' = "settle" /\ frame' = frame /\ block' = block
    BY <1>6 DEF Collect, CollectBlock
  <2>2. Seen(f)' = {p \in Unmasked : BlockOf(p) < block \/ (BlockOf(p) = block /\ (f < frame \/ f = frame))}
    BY <2>1 DEF Seen
  <2> QED
    BY <1>2, <1>3, <1>4, <2>2, Where
<1> QED
  BY <1>5, <1>6

\* Only Settle settles a frame, the one the loop is at.
LEMMA SettledStays ==
    ASSUME TypeOK, PlaceInv, NEW f \in Frames,
           \/ \E px \in [PixelsOf(block) -> Values] : Decode(px)
           \/ \E sparse \in BOOLEAN : Collect(sparse)
           \/ DecodeFails \/ Raise
    PROVE  Settled(f)' <=> Settled(f)
<1>1. CASE (\E px \in [PixelsOf(block) -> Values] : Decode(px)) \/ DecodeFails \/ Raise
  BY <1>1 DEF Decode, DecodeFails, Raise, Settled
<1>2. ASSUME NEW sparse \in BOOLEAN, Collect(sparse) PROVE Settled(f)' <=> Settled(f)
  <2>1. pc = "raise" /\ block <= Blocks
    BY <1>2 DEF Collect, PlaceInv
  <2>2. CASE block < Blocks
    <3>1. NextFrame
      BY <1>2, <2>2 DEF Collect, CollectBlock
    <3>2. block' = block \/ (block' = block + 1 /\ frame' = 0)
      BY <3>1 DEF NextFrame
    <3> QED
      BY <2>2, <3>2, Where DEF Settled
  <2>3. CASE ~(block < Blocks)
    BY <1>2, <2>3 DEF Collect, CollectBlock, Settled
  <2> QED
    BY <2>2, <2>3
<1> QED
  BY <1>1, <1>2

-----------------------------------------------------------------------------
(* The invariant of one frame *)

\* A frame the step does not touch keeps its invariant.
LEMMA QuietFrame ==
    ASSUME NEW f \in Frames, FrameInv(f), args' = args, Seen(f)' = Seen(f), Settled(f)' <=> Settled(f),
           \A p \in Seen(f) : pixel'[f][p] = pixel[f][p],
           list'[f] = list[f], level'[f] = level[f], nabove'[f] = nabove[f], powder'[f] = powder[f]
    PROVE  FrameInv(f)'
<1>1. ASSUME NEW l PROVE Sel(f, l)' = Sel(f, l)
  BY DEF Sel, ThrAt, Effective
<1>2. Sel(f, level[f])' = Sel(f, level[f])
  BY <1>1 DEF Sel, ThrAt, Effective
<1>3. ASSUME NEW l, NEW n PROVE Over(l, n)' <=> Over(l, n)
  BY DEF Over
<1>4. ListAt(f)'
  BY <1>2 DEF FrameInv, ListAt
<1>5. LevelAt(f)'
  BY <1>1, <1>3 DEF FrameInv, LevelAt
<1>6. SettledAt(f)'
  BY <1>2, <1>3 DEF FrameInv, SettledAt, First, Over
<1>7. PowderAt(f)'
  BY DEF FrameInv, PowderAt
<1>8. ShortAt(f)'
  BY DEF FrameInv, ShortAt
<1> QED
  BY <1>4, <1>5, <1>6, <1>7, <1>8 DEF FrameInv

\* Nothing is listed, raised or summed before the first block.
LEMMA EmptyFrame ==
    ASSUME NEW f \in Frames, args \in Request, block = 0, frame = 0, pc # "settle",
           list[f] = {}, level[f] = -1, powder[f] = NoPixels
    PROVE  FrameInv(f)
<1>1. Blocks \in Nat /\ ~Settled(f)
  BY BlockOfPixel DEF Settled, Frames
<1>2. Seen(f) = {}
  BY BlockOfPixel DEF Seen, Frames, Unmasked
<1>3. ListAt(f)
  BY <1>2 DEF ListAt, Sel
<1>4. LevelAt(f)
  BY DEF LevelAt
<1>5. SettledAt(f)
  BY <1>1 DEF SettledAt
<1>6. PowderAt(f)
  BY <1>2 DEF PowderAt, NoPixels
<1>7. ShortAt(f)
  BY FS_EmptySet, Arguments, BlockLoopAssumption DEF ShortAt
<1> QED
  BY <1>3, <1>4, <1>5, <1>6, <1>7 DEF FrameInv

-----------------------------------------------------------------------------
(* The steps *)

\* The loop starts with nothing listed.
LEMMA Starts == Init => IInv
<1>1. SUFFICES ASSUME Init PROVE IInv
  OBVIOUS
<1>2. args \in Request /\ args.thr = <<>>
  BY <1>1 DEF Init, NoCall, Request
<1>3. NoPixels \in [Pixels -> Int] /\ F \in Nat \ {0} /\ Blocks \in Nat /\ NIJ \in Nat
  BY BlockLoopAssumption, BlockOfPixel DEF NoPixels
<1>4. TypeOK
  BY <1>1, <1>2, <1>3 DEF Init, TypeOK, Frames
<1>5. Sorted /\ PlaceInv
  BY <1>1, <1>2, <1>3 DEF Init, Sorted, PlaceInv
<1>6. ASSUME NEW f \in Frames PROVE FrameInv(f)
  BY <1>1, <1>2, <1>6, EmptyFrame DEF Init
<1> QED
  BY <1>4, <1>5, <1>6 DEF IInv

\* A call starts over.
LEMMA CallKeeps ==
    ASSUME NEW a \in Requests, Call(a)
    PROVE  IInv'
<1>1. /\ args' \in Request /\ args' = a
      /\ \A i, j \in 1 .. Len(a.thr) : i <= j => a.thr[i] <= a.thr[j]
  BY BlockLoopAssumption DEF Call
<1>2. NoPixels \in [Pixels -> Int] /\ F \in Nat \ {0} /\ Blocks \in Nat /\ NIJ \in Nat
  BY BlockLoopAssumption, BlockOfPixel DEF NoPixels
<1>3. a.thr \in Seq(Int) /\ -1 \in -1 .. Len(a.thr) - 1
  BY <1>1 DEF Request
<1>4. TypeOK'
  BY <1>1, <1>2, <1>3 DEF Call, TypeOK, Frames
<1>5. Sorted' /\ PlaceInv'
  BY <1>1, <1>2 DEF Call, Sorted, PlaceInv
<1>6. ASSUME NEW f \in Frames PROVE FrameInv(f)'
  <2>1. /\ block' = 0 /\ frame' = 0 /\ pc' # "settle"
        /\ list'[f] = {} /\ level'[f] = -1 /\ powder'[f] = NoPixels
    BY <1>6 DEF Call
  <2>2. Blocks \in Nat /\ ~Settled(f)'
    BY <2>1, BlockOfPixel DEF Settled, Frames
  <2>3. Seen(f)' = {}
    BY <2>1, BlockOfPixel DEF Seen, Frames, Unmasked
  <2>4. ListAt(f)'
    BY <2>1, <2>3 DEF ListAt, Sel
  <2>5. LevelAt(f)'
    BY <2>1 DEF LevelAt
  <2>6. SettledAt(f)'
    BY <2>2 DEF SettledAt
  <2>7. PowderAt(f)'
    BY <2>1, <2>3 DEF PowderAt, NoPixels
  <2>8. args'.howmany \in Nat /\ Elems \in Nat
    BY <1>1, BlockLoopAssumption DEF Request
  <2>9. ShortAt(f)'
    BY <2>1, <2>8, FS_EmptySet DEF ShortAt
  <2> QED
    BY <2>4, <2>5, <2>6, <2>7, <2>9 DEF FrameInv
<1> QED
  BY <1>4, <1>5, <1>6 DEF IInv

\* A block is decoded into pixels nothing was listed or summed from.
LEMMA DecodeKeeps ==
    ASSUME IInv, NEW px \in [PixelsOf(block) -> Values], Decode(px)
    PROVE  IInv'
<1>1. TypeOK /\ PlaceInv /\ pc = "decode"
  BY DEF IInv, Decode
<1>2. /\ \A f \in Frames : pixel'[f] \in [Pixels -> Int]
      /\ DOMAIN pixel' = Frames /\ pixel' = [f \in Frames |-> pixel'[f]]
  <2>1. pixel' = [pixel EXCEPT ![frame] = [p \in Pixels |-> IF BlockOf(p) = block THEN px[p] ELSE @[p]]]
    BY DEF Decode
  <2>2. \A p \in Pixels : BlockOf(p) = block => px[p] \in Int
    BY BlockLoopAssumption DEF PixelsOf
  <2> QED
    BY <1>1, <2>1, <2>2 DEF TypeOK
<1>3. pixel' \in [Frames -> [Pixels -> Int]]
  BY <1>2
<1>4. TypeOK'
  BY <1>1, <1>3 DEF Decode, TypeOK
<1>5. Sorted' /\ PlaceInv'
  BY <1>1 DEF IInv, Decode, Sorted, PlaceInv
<1>6. ASSUME NEW f \in Frames PROVE FrameInv(f)'
  <2>1. FrameInv(f) /\ Seen(f)' = Seen(f) /\ (Settled(f)' <=> Settled(f))
    BY <1>1, SeenStays, SettledStays DEF IInv
  <2>2. ASSUME NEW p \in Seen(f) PROVE pixel'[f][p] = pixel[f][p]
    <3>1. p \in Pixels
      BY SeenArePixels
    <3>2. CASE f = frame
      <4>1. BlockOf(p) # block
        BY <1>1, <3>2, Where DEF Seen
      <4> QED
        BY <1>1, <3>1, <3>2, <4>1 DEF Decode, TypeOK
    <3>3. CASE f # frame
      BY <1>1, <3>3 DEF Decode, TypeOK
    <3> QED
      BY <3>2, <3>3
  <2> QED
    BY <2>1, <2>2, QuietFrame DEF Decode
<1> QED
  BY <1>4, <1>5, <1>6 DEF IInv

\* A call that ends at a corrupt block leaves what was answered.
LEMMA DecodeFailsKeeps ==
    ASSUME IInv, DecodeFails
    PROVE  IInv'
<1>1. TypeOK /\ PlaceInv /\ pc = "decode"
  BY DEF IInv, DecodeFails
<1>2. TypeOK' /\ Sorted' /\ PlaceInv'
  BY <1>1 DEF IInv, DecodeFails, TypeOK, Sorted, PlaceInv
<1>3. ASSUME NEW f \in Frames PROVE FrameInv(f)'
  <2>1. FrameInv(f) /\ Seen(f)' = Seen(f) /\ (Settled(f)' <=> Settled(f))
    BY <1>1, SeenStays, SettledStays DEF IInv
  <2> QED
    BY <2>1, QuietFrame DEF DecodeFails
<1> QED
  BY <1>2, <1>3 DEF IInv

\* The frame the loop is at is not settled.
LEMMA NotSettledHere ==
    ASSUME TypeOK, PlaceInv, pc \in {"raise", "settle"}
    PROVE  ~Settled(frame)
  BY Where DEF PlaceInv, Settled

\* The next level filters the list to what is above it, and the one before had too many.
LEMMA RaiseKeeps ==
    ASSUME IInv, Raise
    PROVE  IInv'
<1> DEFINE l == level[frame]
<1>1. /\ TypeOK /\ PlaceInv /\ Sorted /\ pc \in {"raise", "settle"} /\ frame \in Frames /\ args \in Request
      /\ FrameInv(frame) /\ ~Settled(frame) /\ list[frame] = Sel(frame, l) /\ list[frame] \subseteq Pixels
      /\ l \in -1 .. Len(args.thr) - 1 /\ Len(args.thr) \in Nat
      /\ args.top /\ l + 1 < Len(args.thr) /\ Over(l, Cardinality(list[frame]))
  BY NotSettledHere, Arguments DEF IInv, FrameInv, ListAt, Raise, MayRaise, TypeOK
<1>2. /\ level' = [level EXCEPT ![frame] = l + 1] /\ args' = args /\ pc' = pc /\ pixel' = pixel
      /\ block' = block /\ frame' = frame /\ nabove' = nabove /\ powder' = powder
      /\ list' = [list EXCEPT ![frame] = {p \in list[frame] : pixel[frame][p] > ThrAt(l + 1)}]
  BY DEF Raise
<1>3. TypeOK'
  BY <1>1, <1>2 DEF TypeOK
<1>4. Sorted' /\ PlaceInv'
  BY <1>1, <1>2 DEF Sorted, PlaceInv
<1>5. ASSUME NEW g \in Frames, g # frame PROVE FrameInv(g)'
  <2>1. FrameInv(g) /\ Seen(g)' = Seen(g) /\ (Settled(g)' <=> Settled(g))
    BY <1>1, SeenStays, SettledStays DEF IInv
  <2>2. list'[g] = list[g] /\ level'[g] = level[g]
    BY <1>1, <1>2, <1>5 DEF TypeOK
  <2> QED
    BY <1>2, <2>1, <2>2, QuietFrame
<1>6. ASSUME NEW f \in Frames, f = frame PROVE FrameInv(f)'
  <2>1. Seen(f)' = Seen(f) /\ (Settled(f)' <=> Settled(f))
    BY <1>1, <1>6, SeenStays, SettledStays
  <2>2. /\ level'[f] = l + 1 /\ list'[f] = {p \in list[f] : pixel[f][p] > ThrAt(l + 1)}
    BY <1>1, <1>6, <1>2 DEF TypeOK
  <2>3. ASSUME NEW k PROVE Sel(f, k)' = Sel(f, k) /\ ThrAt(k)' = ThrAt(k)
    BY <1>2, <2>1 DEF Sel, ThrAt, Effective
  <2>4. ASSUME NEW k, NEW n PROVE Over(k, n)' <=> Over(k, n)
    BY <1>2 DEF Over
  <2>5. list'[f] = Sel(f, l + 1)
    <3>1. ThrAt(l) \in Int /\ ThrAt(l + 1) \in Int /\ ThrAt(l) <= ThrAt(l + 1)
      <4>1. l + 1 \in -1 .. Len(args.thr) - 1
        BY <1>1, <1>6
      <4> QED
        BY <1>1, <1>6, <4>1, Levels
    <3>2. \A p \in Seen(f) : pixel[f][p] \in Int
      BY <1>1, <1>6, SeenArePixels DEF TypeOK
    <3> QED
      BY <1>1, <1>6, <2>2, <3>1, <3>2 DEF Sel
  <2>6. (ListAt(f) /\ SettledAt(f))'
    BY <1>1, <1>6, <1>2, <2>1, <2>2, <2>3, <2>5 DEF ListAt, SettledAt, Sel, ThrAt, Effective
  <2>7. LevelAt(f)'
    <3>1. \A k \in -1 .. l - 1 : Over(k, Cardinality(Sel(f, k)))
      BY <1>1, <1>6 DEF FrameInv, LevelAt
    <3>2. \A k \in -1 .. l : Over(k, Cardinality(Sel(f, k)))
      BY <1>1, <1>6, <3>1
    <3>3. \A k \in -1 .. l : Over(k, Cardinality(Sel(f, k)))'
      BY <2>3, <2>4, <3>2 DEF Over
    <3>4. level'[f] - 1 = l
      BY <1>1, <1>6, <2>2
    <3> QED
      BY <1>1, <1>6, <1>2, <3>3, <3>4 DEF LevelAt
  <2>8. PowderAt(f)'
    BY <1>1, <1>6, <1>2, <2>1 DEF FrameInv, PowderAt
  <2>9. ShortAt(f)'
    <3>1. Cardinality(list[f]) <= args.howmany + Elems
      BY <1>1, <1>6 DEF FrameInv, ShortAt
    <3>2. Cardinality(list'[f]) <= Cardinality(list[f])
      BY <1>1, <1>6, <2>2, Monotone
    <3>3. Cardinality(list[f]) \in Nat /\ Cardinality(list'[f]) \in Nat /\ args.howmany \in Nat /\ Elems \in Nat
      BY <1>1, <1>6, <2>2, PixelSets, Arguments, BlockLoopAssumption
    <3>4. Cardinality(list'[f]) <= args.howmany + Elems
      BY <3>1, <3>2, <3>3
    <3> QED
      BY <1>2, <3>4 DEF ShortAt
  <2> QED
    BY <1>2, <2>6, <2>7, <2>8, <2>9 DEF FrameInv
<1> QED
  BY <1>3, <1>4, <1>5, <1>6 DEF IInv

\* Collecting a block moves the loop on and nothing else.
LEMMA CollectTypes ==
    ASSUME IInv, NEW sparse \in BOOLEAN, Collect(sparse)
    PROVE  /\ TypeOK' /\ Sorted' /\ PlaceInv'
           /\ list' = [list EXCEPT ![frame] =
                  list[frame] \cup {p \in PixelsOf(block) \cap Unmasked : pixel[frame][p] > ThrAt(level[frame])}]
           /\ args.dot => powder' = [powder EXCEPT ![frame] = [p \in Pixels |->
                  powder[frame][p] + IF p \in Dotted(sparse) THEN pixel[frame][p] ELSE 0]]
           /\ ~args.dot => powder' = powder
           /\ args' = args /\ pixel' = pixel /\ level' = level /\ nabove' = nabove
<1>1. TypeOK /\ PlaceInv /\ Sorted /\ pc = "raise" /\ CollectBlock(sparse) /\ block <= Blocks
  BY DEF IInv, PlaceInv, Collect
<1>2. /\ list' = [list EXCEPT ![frame] =
             list[frame] \cup {p \in PixelsOf(block) \cap Unmasked : pixel[frame][p] > ThrAt(level[frame])}]
      /\ args' = args /\ pixel' = pixel /\ level' = level /\ nabove' = nabove
  BY <1>1 DEF CollectBlock
<1>3. args.dot => powder' = [powder EXCEPT ![frame] = [p \in Pixels |->
          powder[frame][p] + IF p \in Dotted(sparse) THEN pixel[frame][p] ELSE 0]]
  BY <1>1 DEF CollectBlock
<1>4. ~args.dot => powder' = powder
  BY <1>1 DEF CollectBlock
<1>5. list' \in [Frames -> SUBSET Pixels]
  <2>1. list[frame] \cup {p \in PixelsOf(block) \cap Unmasked : pixel[frame][p] > ThrAt(level[frame])}
            \in SUBSET Pixels
    BY <1>1 DEF TypeOK, PixelsOf
  <2> QED
    BY <1>1, <1>2, <2>1 DEF TypeOK
<1>6. powder' \in [Frames -> [Pixels -> Int]]
  <2>1. [p \in Pixels |-> powder[frame][p] + IF p \in Dotted(sparse) THEN pixel[frame][p] ELSE 0]
            \in [Pixels -> Int]
    <3>1. \A p \in Pixels : powder[frame][p] \in Int /\ pixel[frame][p] \in Int
      BY <1>1 DEF TypeOK
    <3> QED
      BY <3>1
  <2> QED
    BY <1>1, <1>3, <1>4, <2>1 DEF TypeOK
<1>7. /\ block' \in 0 .. Blocks + 1 /\ frame' \in Frames /\ block' <= Blocks
      /\ pc' \in {"decode", "settle"} /\ (pc' = "settle" => block' = Blocks)
  <2>1. CASE block < Blocks
    <3>1. pc' = "decode" /\ NextFrame
      BY <1>1, <2>1 DEF CollectBlock
    <3> QED
      BY <2>1, <3>1, <1>1, Where DEF NextFrame, Frames
  <2>2. CASE ~(block < Blocks)
    BY <1>1, <2>2, Where DEF CollectBlock, TypeOK
  <2> QED
    BY <2>1, <2>2
<1>8. TypeOK'
  BY <1>1, <1>2, <1>5, <1>6, <1>7 DEF TypeOK
<1>9. Sorted' /\ PlaceInv'
  BY <1>1, <1>2, <1>7 DEF Sorted, PlaceInv
<1> QED
  BY <1>2, <1>3, <1>4, <1>8, <1>9

\* A block is listed whole and summed whole, once.
LEMMA CollectKeeps ==
    ASSUME IInv, NEW sparse \in BOOLEAN, Collect(sparse)
    PROVE  IInv'
<1> DEFINE l == level[frame]
<1> DEFINE new == PixelsOf(block) \cap Unmasked
<1>1. /\ TypeOK /\ PlaceInv /\ Sorted /\ pc = "raise" /\ frame \in Frames /\ args \in Request /\ ~MayRaise
      /\ FrameInv(frame) /\ ~Settled(frame) /\ list[frame] = Sel(frame, l) /\ list[frame] \subseteq Pixels
      /\ l \in -1 .. Len(args.thr) - 1 /\ Len(args.thr) \in Nat
  <2>1. TypeOK /\ PlaceInv /\ Sorted /\ pc = "raise" /\ ~MayRaise
    BY DEF IInv, Collect
  <2>2. /\ frame \in Frames /\ args \in Request /\ FrameInv(frame) /\ list[frame] \subseteq Pixels
        /\ l \in -1 .. Len(args.thr) - 1
    BY <2>1 DEF IInv, TypeOK
  <2> QED
    BY <2>1, <2>2, NotSettledHere, Arguments DEF FrameInv, ListAt
<1>2. /\ list' = [list EXCEPT ![frame] = list[frame] \cup {p \in new : pixel[frame][p] > ThrAt(l)}]
      /\ args.dot => powder' = [powder EXCEPT ![frame] = [p \in Pixels |->
             powder[frame][p] + IF p \in Dotted(sparse) THEN pixel[frame][p] ELSE 0]]
      /\ ~args.dot => powder' = powder
      /\ args' = args /\ pixel' = pixel /\ level' = level /\ nabove' = nabove
  BY CollectTypes
<1>3. TypeOK' /\ Sorted' /\ PlaceInv'
  BY CollectTypes
<1>4. ASSUME NEW g \in Frames, g # frame PROVE FrameInv(g)'
  <2>1. FrameInv(g) /\ Seen(g)' = Seen(g) /\ (Settled(g)' <=> Settled(g))
    BY <1>1, <1>4, SeenGrows, SettledStays DEF IInv
  <2>2. list'[g] = list[g] /\ powder'[g] = powder[g]
    BY <1>1, <1>2, <1>4 DEF TypeOK
  <2> QED
    BY <1>2, <2>1, <2>2, QuietFrame
<1>5. ASSUME NEW f \in Frames, f = frame PROVE FrameInv(f)'
  <2>1. /\ Seen(f)' = Seen(f) \cup new /\ Seen(f) \cap PixelsOf(block) = {} /\ ~Settled(f)'
        /\ new \subseteq PixelsOf(block) /\ new \subseteq Pixels
    BY <1>1, <1>5, SeenGrows, SettledStays DEF Unmasked
  <2>2. list'[f] = list[f] \cup {p \in new : pixel[f][p] > ThrAt(l)}
    BY <1>1, <1>2, <1>5 DEF TypeOK
  <2>3. ASSUME NEW k PROVE ThrAt(k)' = ThrAt(k)
    BY <1>2 DEF ThrAt, Effective
  <2>4. ASSUME NEW k PROVE Sel(f, k)' = Sel(f, k) \cup {p \in new : pixel[f][p] > ThrAt(k)}
    BY <1>2, <2>1, <2>3 DEF Sel
  <2>5. ListAt(f)'
    <3>1. list'[f] = Sel(f, level[f])'
      <4>1. Sel(f, level[f])' = {p \in Seen(f) \cup new : pixel[f][p] > ThrAt(l)}
        BY <1>2, <1>5, <2>1 DEF Sel, ThrAt, Effective
      <4> QED
        BY <1>1, <1>5, <2>2, <4>1 DEF Sel
    <3> QED
      BY <3>1 DEF ListAt
  <2>6. LevelAt(f)'
    <3>1. ASSUME NEW k \in -1 .. l - 1 PROVE Over(k, Cardinality(Sel(f, k)))'
      <4>1. Over(k, Cardinality(Sel(f, k)))
        BY <1>1, <1>5 DEF FrameInv, LevelAt
      <4> DEFINE more == Sel(f, k) \cup {p \in new : pixel[f][p] > ThrAt(k)}
      <4>2. more \subseteq Pixels /\ Sel(f, k) \subseteq more
        BY <2>1, SeenArePixels
      <4>3. Cardinality(Sel(f, k)) \in Nat /\ Cardinality(more) \in Nat /\ Cardinality(Sel(f, k)) <= Cardinality(more)
        BY <4>2, PixelSets, Monotone
      <4>4. Over(k, Cardinality(more))
        BY <1>1, <4>1, <4>3, OverGrows
      <4>5. Sel(f, k)' = more
        BY <2>4
      <4> QED
        BY <1>2, <4>4, <4>5 DEF Over
    <3>2. ~args.top => level[f] = -1
      BY <1>1, <1>5 DEF FrameInv, LevelAt
    <3> QED
      BY <1>2, <1>5, <3>1, <3>2 DEF LevelAt
  <2>7. SettledAt(f)'
    BY <2>1 DEF SettledAt
  <2>8. PowderAt(f)'
    <3>1. SUFFICES ASSUME args.dot, NEW p \in Pixels
                   PROVE  powder'[f][p] = IF p \in Seen(f)' THEN pixel[f][p] ELSE 0
      BY <1>2 DEF PowderAt
    <3>2. /\ powder'[f][p] = powder[f][p] + (IF p \in Dotted(sparse) THEN pixel[f][p] ELSE 0)
          /\ powder[f][p] = IF p \in Seen(f) THEN pixel[f][p] ELSE 0
          /\ pixel[f][p] \in Int
      BY <1>1, <1>2, <1>5, <3>1 DEF TypeOK, FrameInv, PowderAt
    <3>3. p \in Dotted(sparse) => p \in new
      BY DEF Dotted, Columns
    <3>4. p \in new /\ p \notin Dotted(sparse) => pixel[f][p] = 0
      BY <1>5 DEF Dotted, Columns
    <3> QED
      BY <2>1, <3>2, <3>3, <3>4
  <2>9. ShortAt(f)'
    <3>1. SUFFICES ASSUME args.top, level[f] + 1 < Len(args.thr)
                   PROVE  Cardinality(list'[f]) <= args.howmany + Elems
      BY <1>2 DEF ShortAt
    <3> DEFINE more == {p \in new : pixel[f][p] > ThrAt(l)}
    <3>2. more \subseteq Pixels /\ more \subseteq PixelsOf(block) /\ list[f] \subseteq Pixels
      BY <1>1, <1>5, <2>1
    <3>3. IsFiniteSet(more) /\ IsFiniteSet(list[f]) /\ Cardinality(more) \in Nat /\ Cardinality(list[f]) \in Nat
      BY <3>2, PixelSets
    <3>4. Cardinality(more) <= Elems
      BY <1>1, <3>2, BlockIsSmall, Where
    <3>5. args.howmany \in Nat /\ ~Over(l, Cardinality(list[f])) /\ Elems \in Nat
      BY <1>1, <1>5, <3>1, Arguments, BlockLoopAssumption DEF MayRaise
    <3>6. Cardinality(list[f]) <= args.howmany
      BY <1>1, <3>3, <3>5 DEF Over
    <3>7. /\ Cardinality(list[f] \cup more)
                = Cardinality(list[f]) + Cardinality(more) - Cardinality(list[f] \cap more)
          /\ Cardinality(list[f] \cap more) \in Nat
      <4> HIDE DEF more
      <4>1. Cardinality(list[f] \cap more) \in Nat
        BY <3>2, PixelSets
      <4> QED
        BY <3>3, <4>1, FS_Union
    <3>8. Cardinality(list[f] \cup more) <= args.howmany + Elems
      <4> HIDE DEF more
      <4> QED
        BY <3>3, <3>4, <3>5, <3>6, <3>7
    <3> QED
      BY <2>2, <3>8
  <2> QED
    BY <2>5, <2>6, <2>7, <2>8, <2>9 DEF FrameInv
<1> QED
  BY <1>3, <1>4, <1>5 DEF IInv

\* Settling a frame settles no other.
LEMMA SettleSettles ==
    ASSUME TypeOK, PlaceInv, Settle, NEW f \in Frames
    PROVE  Settled(f)' <=> (f = frame \/ Settled(f))
<1>1. pc = "settle" /\ block = Blocks /\ NextFrame
  BY DEF Settle, SettleFrame, PlaceInv
<1>2. CASE frame = F - 1
  <2>1. block' = Blocks + 1
    BY <1>1, <1>2 DEF NextFrame
  <2>2. f = frame \/ f < frame
    BY <1>2, Where
  <2> QED
    BY <1>1, <2>1, <2>2 DEF Settled
<1>3. CASE frame # F - 1
  <2>1. block' = Blocks /\ frame' = frame + 1
    BY <1>1, <1>3 DEF NextFrame
  <2>2. f < frame' <=> (f = frame \/ f < frame)
    BY <2>1, Where
  <2>3. Blocks # Blocks + 1
    BY Where
  <2> QED
    BY <1>1, <2>1, <2>2, <2>3 DEF Settled
<1> QED
  BY <1>2, <1>3

\* Settling cuts the list and moves the loop on.
LEMMA SettleTypes ==
    ASSUME IInv, Settle
    PROVE  /\ TypeOK' /\ Sorted' /\ PlaceInv'
           /\ list' = [list EXCEPT ![frame] = IF args.top THEN First(args.howmany, list[frame]) ELSE list[frame]]
           /\ nabove' = [nabove EXCEPT ![frame] =
                            IF args.top THEN Cardinality(list[frame]) ELSE nabove[frame]]
           /\ args' = args /\ pixel' = pixel /\ level' = level /\ powder' = powder
<1>1. TypeOK /\ PlaceInv /\ Sorted /\ pc = "settle" /\ SettleFrame /\ block = Blocks /\ NextFrame
  BY DEF IInv, PlaceInv, Settle, SettleFrame
<1>2. args' = args /\ pixel' = pixel /\ level' = level /\ powder' = powder
  BY <1>1 DEF SettleFrame
<1>3. /\ list' = [list EXCEPT ![frame] = IF args.top THEN First(args.howmany, list[frame]) ELSE list[frame]]
      /\ nabove' = [nabove EXCEPT ![frame] = IF args.top THEN Cardinality(list[frame]) ELSE nabove[frame]]
  <2>1. CASE args.top
    BY <1>1, <2>1 DEF SettleFrame
  <2>2. CASE ~args.top
    BY <1>1, <2>2 DEF SettleFrame, TypeOK
  <2> QED
    BY <2>1, <2>2
<1>4. list[frame] \subseteq Pixels /\ First(args.howmany, list[frame]) \subseteq Pixels
  BY <1>1, FirstIsSubset DEF TypeOK
<1>5. Cardinality(list[frame]) \in 0 .. NIJ
  BY <1>4, PixelSets, BlockLoopAssumption
<1>6. list' \in [Frames -> SUBSET Pixels] /\ nabove' \in [Frames -> 0 .. NIJ]
  BY <1>1, <1>3, <1>4, <1>5 DEF TypeOK
<1>7. CASE frame = F - 1
  <2>1. pc' = "returned" /\ block' = Blocks + 1 /\ frame' = 0
    BY <1>1, <1>7 DEF NextFrame, SettleFrame
  <2>2. block' \in 0 .. Blocks + 1 /\ frame' \in Frames
    BY <1>1, <2>1, Where DEF Frames
  <2> QED
    BY <1>1, <1>2, <1>3, <1>6, <2>1, <2>2 DEF TypeOK, Sorted, PlaceInv
<1>8. CASE frame # F - 1
  <2>1. pc' = "decode" /\ block' = block /\ frame' = frame + 1
    BY <1>1, <1>8 DEF NextFrame, SettleFrame
  <2>2. frame' \in Frames /\ block' <= Blocks
    BY <1>1, <1>8, <2>1, Where DEF Frames
  <2> QED
    BY <1>1, <1>2, <1>3, <1>6, <2>1, <2>2 DEF TypeOK, Sorted, PlaceInv
<1> QED
  BY <1>2, <1>3, <1>7, <1>8

\* A frame is settled at the last level, or at one that has few enough.
LEMMA SettleKeeps ==
    ASSUME IInv, Settle
    PROVE  IInv'
<1> DEFINE l == level[frame]
<1>1. /\ TypeOK /\ PlaceInv /\ pc = "settle" /\ frame \in Frames /\ args \in Request /\ ~MayRaise
      /\ FrameInv(frame) /\ ~Settled(frame) /\ list[frame] = Sel(frame, l) /\ list[frame] \subseteq Pixels
  <2>1. TypeOK /\ PlaceInv /\ pc = "settle" /\ ~MayRaise
    BY DEF IInv, Settle
  <2>2. frame \in Frames /\ args \in Request /\ FrameInv(frame) /\ list[frame] \subseteq Pixels
    BY <2>1 DEF IInv, TypeOK
  <2> QED
    BY <2>1, <2>2, NotSettledHere DEF FrameInv, ListAt
<1>2. /\ list' = [list EXCEPT ![frame] = IF args.top THEN First(args.howmany, list[frame]) ELSE list[frame]]
      /\ nabove' = [nabove EXCEPT ![frame] = IF args.top THEN Cardinality(list[frame]) ELSE nabove[frame]]
      /\ args' = args /\ pixel' = pixel /\ level' = level /\ powder' = powder
  BY SettleTypes
<1>3. TypeOK' /\ Sorted' /\ PlaceInv'
  BY SettleTypes
<1>4. ASSUME NEW g \in Frames, g # frame PROVE FrameInv(g)'
  <2>1. FrameInv(g) /\ Seen(g)' = Seen(g) /\ (Settled(g)' <=> Settled(g))
    BY <1>1, <1>4, SeenStays, SettleSettles DEF IInv
  <2>2. list'[g] = list[g] /\ nabove'[g] = nabove[g]
    BY <1>1, <1>2, <1>4 DEF TypeOK
  <2> QED
    BY <1>2, <2>1, <2>2, QuietFrame
<1>5. ASSUME NEW f \in Frames, f = frame PROVE FrameInv(f)'
  <2>1. Seen(f)' = Seen(f) /\ Settled(f)' = TRUE
    BY <1>1, <1>5, SeenStays, SettleSettles DEF Settled
  <2>2. /\ list'[f] = IF args.top THEN First(args.howmany, list[f]) ELSE list[f]
        /\ args.top => nabove'[f] = Cardinality(list[f])
    BY <1>1, <1>2, <1>5 DEF TypeOK
  <2>3. ASSUME NEW k PROVE Sel(f, k)' = Sel(f, k)
    BY <1>2, <2>1 DEF Sel, ThrAt, Effective
  <2>4. ASSUME NEW k, NEW n PROVE Over(k, n)' <=> Over(k, n)
    BY <1>2 DEF Over
  <2>5. ListAt(f)'
    BY <2>1 DEF ListAt
  <2>6. LevelAt(f)'
    BY <1>1, <1>2, <1>5, <2>3, <2>4 DEF FrameInv, LevelAt
  <2>7. SettledAt(f)'
    <3>1. Sel(f, level[f])' = list[f]
      <4>1. Sel(f, level[f])' = Sel(f, level[f])
        BY <1>2, <2>1 DEF Sel, ThrAt, Effective
      <4> QED
        BY <1>1, <1>5, <4>1
    <3>2. args.top /\ level[f] + 1 < Len(args.thr) => ~Over(level[f], Cardinality(list[f]))
      BY <1>1, <1>5 DEF MayRaise
    <3>3. args.top /\ level[f] + 1 < Len(args.thr) => Over(level[f], nabove[f])' = FALSE
      BY <1>2, <2>2, <3>2 DEF Over
    <3> QED
      BY <1>2, <2>2, <3>1, <3>3 DEF SettledAt, First
  <2>8. PowderAt(f)'
    BY <1>1, <1>2, <1>5, <2>1 DEF FrameInv, PowderAt
  <2>9. ShortAt(f)'
    <3>1. SUFFICES ASSUME args.top, level[f] + 1 < Len(args.thr)
                   PROVE  Cardinality(list'[f]) <= args.howmany + Elems
      BY <1>2 DEF ShortAt
    <3>2. Cardinality(list[f]) <= args.howmany + Elems
      BY <1>1, <1>5, <3>1 DEF FrameInv, ShortAt
    <3>3. list'[f] \subseteq list[f] /\ list[f] \subseteq Pixels
      BY <1>1, <1>5, <2>2, FirstIsSubset
    <3>4. Cardinality(list[f]) \in Nat /\ Cardinality(list'[f]) \in Nat /\ args.howmany \in Nat /\ Elems \in Nat
      BY <1>1, <3>3, PixelSets, Arguments, BlockLoopAssumption
    <3> QED
      BY <3>2, <3>3, <3>4, Monotone
  <2> QED
    BY <2>5, <2>6, <2>7, <2>8, <2>9 DEF FrameInv
<1> QED
  BY <1>3, <1>4, <1>5 DEF IInv

-----------------------------------------------------------------------------
(* The answer *)

\* When the call returns, every frame is settled and has seen all its unmasked pixels.
LEMMA AllSeen ==
    ASSUME IInv, pc = "returned", NEW f \in Frames
    PROVE  Seen(f) = Unmasked /\ Settled(f)
<1>1. TypeOK /\ block = Blocks + 1
  BY DEF IInv, PlaceInv
<1>2. ASSUME NEW p \in Unmasked PROVE BlockOf(p) < block
  BY <1>1, Where
<1> QED
  BY <1>1, <1>2 DEF Seen, Settled

\* Filtering at a level is selecting with its threshold.
LEMMA LevelsAreSelections ==
    ASSUME IInv, pc = "returned", NEW f \in Frames
    PROVE  /\ Sel(f, -1) = AboveTheCut(f)
           /\ \A i \in 1 .. Len(args.thr) : Sel(f, i - 1) = Passing(f, i)
<1>1. /\ Seen(f) = Unmasked /\ args \in Request /\ pixel[f] \in [Pixels -> Int]
      /\ \A p \in Unmasked : p \in Pixels
  BY AllSeen DEF IInv, TypeOK, Unmasked
<1>2. Sel(f, -1) = AboveTheCut(f)
  BY <1>1 DEF Sel, ThrAt, AboveTheCut
<1>3. ASSUME NEW i \in 1 .. Len(args.thr) PROVE Sel(f, i - 1) = Passing(f, i)
  <2>1. args.cut \in Nat /\ args.thr[i] \in Int /\ Len(args.thr) \in Nat
    BY <1>1, Arguments
  <2>2. ThrAt(i - 1) = Effective(args.thr[i])
    <3>1. ~(i - 1 < 0) /\ (i - 1) + 1 = i
      BY <2>1
    <3> QED
      BY <3>1 DEF ThrAt
  <2>3. ASSUME NEW p \in Unmasked
        PROVE  pixel[f][p] > ThrAt(i - 1) <=> pixel[f][p] > args.cut /\ 2 * pixel[f][p] > args.thr[i]
    <3>1. pixel[f][p] \in Int
      BY <1>1
    <3>2. pixel[f][p] > args.thr[i] \div 2 <=> 2 * pixel[f][p] > args.thr[i]
      BY <2>1, <3>1, Halves
    <3>3. args.thr[i] \div 2 \in Int
      BY <2>1
    <3>4. pixel[f][p] > Effective(args.thr[i])
            <=> pixel[f][p] > args.cut /\ pixel[f][p] > args.thr[i] \div 2
      BY <2>1, <3>1, <3>3 DEF Effective
    <3> QED
      BY <2>2, <3>2, <3>4
  <2> QED
    BY <1>1, <2>3 DEF Sel, Passing, AboveTheCut
<1> QED
  BY <1>2, <1>3

\* The level the loop ends at is the threshold the selection chooses.
LEMMA LevelIsChosen ==
    ASSUME IInv, pc = "returned", NEW f \in Frames
    PROVE  level[f] = Chosen(f) - 1 /\ Sel(f, level[f]) = Selected(f)
<1> DEFINE l == level[f]
<1> DEFINE N == Len(args.thr)
<1>1. /\ args \in Request /\ N \in Nat /\ args.howmany \in Nat /\ l \in -1 .. N - 1
      /\ FrameInv(f) /\ Settled(f) /\ LevelAt(f) /\ SettledAt(f)
  <2>1. args \in Request /\ l \in -1 .. N - 1 /\ FrameInv(f)
    BY DEF IInv, TypeOK
  <2> QED
    BY <2>1, Arguments, AllSeen DEF FrameInv
<1>2. /\ Sel(f, -1) = AboveTheCut(f)
      /\ \A i \in 1 .. N : Sel(f, i - 1) = Passing(f, i)
  BY LevelsAreSelections
<1>3. \A k : Cardinality(Sel(f, k)) \in Nat
  BY SeenArePixels, PixelSets
<1>4. ~args.top => l = -1
  BY <1>1 DEF LevelAt
<1>5. \A k \in -1 .. l - 1 : Over(k, Cardinality(Sel(f, k)))
  BY <1>1 DEF LevelAt
<1>6. args.top /\ l + 1 < N => ~Over(l, Cardinality(Sel(f, l)))
  BY <1>1 DEF SettledAt
<1> HIDE DEF l, N
<1>7. Chosen(f) = l + 1
  <2>1. CASE ~args.top
    BY <1>4, <2>1 DEF Chosen
  <2>2. CASE args.top /\ Cardinality(AboveTheCut(f)) <= args.howmany
    <3>1. ~Over(-1, Cardinality(Sel(f, -1)))
      BY <1>1, <1>2, <1>3, <2>2 DEF Over
    <3>2. l = -1
      BY <1>1, <1>5, <3>1
    <3> QED
      BY <2>2, <3>2 DEF Chosen
  <2>3. CASE args.top /\ ~(Cardinality(AboveTheCut(f)) <= args.howmany)
    <3>1. Over(-1, Cardinality(Sel(f, -1)))
      BY <1>1, <1>2, <1>3, <2>3 DEF Over
    <3>2. Enough(f) \subseteq 1 .. N
      BY DEF Enough, N
    <3>3. \A i \in Enough(f) : i >= l + 1
      <4>1. SUFFICES ASSUME NEW i \in 1 .. N, i < l + 1 PROVE i \notin Enough(f)
        BY <1>1, <3>2
      <4>2. i - 1 \in -1 .. l - 1 /\ ~(i - 1 < 0)
        BY <1>1, <4>1
      <4>3. Cardinality(Passing(f, i)) >= args.howmany
        BY <1>2, <1>5, <4>2 DEF Over
      <4>4. Cardinality(Passing(f, i)) \in Nat
        BY <1>2, <1>3
      <4> QED
        BY <1>1, <4>3, <4>4 DEF Enough
    <3>4. l + 1 < N => l >= 0 /\ l + 1 \in Enough(f)
      <4>1. SUFFICES ASSUME l + 1 < N PROVE l >= 0 /\ l + 1 \in Enough(f)
        OBVIOUS
      <4>2. ~Over(l, Cardinality(Sel(f, l)))
        BY <1>6, <2>3, <4>1
      <4>3. l # -1
        BY <3>1, <4>2
      <4>4. l >= 0 /\ l + 1 \in 1 .. N /\ (l + 1) - 1 = l /\ ~(l < 0)
        BY <1>1, <4>1, <4>3
      <4>5. Cardinality(Passing(f, l + 1)) = Cardinality(Sel(f, l))
        BY <1>2, <4>4
      <4>6. Cardinality(Passing(f, l + 1)) < args.howmany
        BY <1>1, <1>3, <4>2, <4>4, <4>5 DEF Over
      <4> QED
        BY <4>4, <4>6 DEF Enough, N
    <3>5. CASE Enough(f) = {}
      <4>1. l + 1 = N
        BY <1>1, <3>4, <3>5
      <4> QED
        BY <2>3, <3>5, <4>1 DEF Chosen, N
    <3>6. CASE Enough(f) # {}
      <4>1. l + 1 \in Enough(f)
        <5>1. PICK i \in Enough(f) : i >= l + 1 /\ i \in 1 .. N
          BY <3>2, <3>3, <3>6
        <5>2. CASE l + 1 < N
          BY <3>4, <5>2
        <5>3. CASE ~(l + 1 < N)
          BY <1>1, <5>1, <5>3
        <5> QED
          BY <5>2, <5>3
      <4>2. ASSUME NEW i \in Enough(f), \A j \in Enough(f) : i <= j PROVE i = l + 1
        <5>1. i \in 1 .. N /\ i <= l + 1 /\ i >= l + 1
          BY <3>2, <3>3, <4>1, <4>2
        <5> QED
          BY <1>1, <5>1
      <4>3. \A j \in Enough(f) : l + 1 <= j
        BY <1>1, <3>2, <3>3
      <4>4. (CHOOSE i \in Enough(f) : \A j \in Enough(f) : i <= j) = l + 1
        BY <4>1, <4>2, <4>3
      <4> QED
        BY <2>3, <3>6, <4>4 DEF Chosen
    <3> QED
      BY <3>5, <3>6
  <2> QED
    BY <2>1, <2>2, <2>3
<1>8. Sel(f, l) = Selected(f)
  <2>1. CASE l = -1
    BY <1>2, <1>7, <2>1 DEF Selected
  <2>2. CASE l # -1
    <3>1. l + 1 \in 1 .. N /\ (l + 1) - 1 = l /\ l + 1 # 0
      BY <1>1, <2>2
    <3> QED
      BY <1>2, <1>7, <3>1 DEF Selected
  <2> QED
    BY <2>1, <2>2
<1> QED
  BY <1>1, <1>7, <1>8 DEF l

\* The answers of a call that returned are those of selecting afterwards.
LEMMA InvariantAnswers == IInv => AnswerIsTheSelection /\ PowderHasEveryPixel /\ ListStaysShort
<1>1. SUFFICES ASSUME IInv PROVE AnswerIsTheSelection /\ PowderHasEveryPixel /\ ListStaysShort
  OBVIOUS
<1>2. ASSUME pc = "returned", NEW f \in Frames
      PROVE  /\ list[f] = Kept(f)
             /\ level[f] = Chosen(f) - 1
             /\ args.top => nabove[f] = Cardinality(Selected(f))
  <2>1. Settled(f) /\ SettledAt(f)
    BY <1>1, <1>2, AllSeen DEF IInv, FrameInv
  <2>2. level[f] = Chosen(f) - 1 /\ Sel(f, level[f]) = Selected(f)
    BY <1>1, <1>2, LevelIsChosen
  <2> QED
    BY <2>1, <2>2 DEF SettledAt, Kept
<1>3. ASSUME pc = "returned", args.dot, NEW f \in Frames, NEW p \in Pixels
      PROVE  powder[f][p] = IF p \in Unmasked THEN pixel[f][p] ELSE 0
  <2>1. PowderAt(f) /\ Seen(f) = Unmasked
    BY <1>1, <1>3, AllSeen DEF IInv, FrameInv
  <2> QED
    BY <1>3, <2>1 DEF PowderAt
<1>4. ListStaysShort
  BY <1>1 DEF IInv, FrameInv, ShortAt, ListStaysShort
<1> QED
  BY <1>2, <1>3, <1>4 DEF AnswerIsTheSelection, PowderHasEveryPixel

-----------------------------------------------------------------------------
(* The theorems *)

\* The invariant holds before and after every step of the loop (bslz4_driver_run).
THEOREM Correct == Spec => []IInv
<1>1. Init => IInv
  BY Starts
<1>2. IInv /\ [Next]_vars => IInv'
  <2>1. SUFFICES ASSUME IInv, [Next]_vars PROVE IInv'
    OBVIOUS
  <2>2. ASSUME NEW a \in Requests, Call(a) PROVE IInv'
    BY <2>2, CallKeeps
  <2>3. ASSUME NEW px \in [PixelsOf(block) -> Values], Decode(px) PROVE IInv'
    BY <2>1, <2>3, DecodeKeeps
  <2>4. CASE DecodeFails
    BY <2>1, <2>4, DecodeFailsKeeps
  <2>5. CASE Raise
    BY <2>1, <2>5, RaiseKeeps
  <2>6. CASE Settle
    BY <2>1, <2>6, SettleKeeps
  <2>7. ASSUME NEW sparse \in BOOLEAN, Collect(sparse) PROVE IInv'
    BY <2>1, <2>7, CollectKeeps
  <2>8. CASE UNCHANGED vars
    <3>1. TypeOK' /\ Sorted' /\ PlaceInv'
      BY <2>1, <2>8 DEF IInv, vars, TypeOK, Sorted, PlaceInv
    <3>2. ASSUME NEW f \in Frames PROVE FrameInv(f)'
      <4>1. Seen(f)' = Seen(f) /\ (Settled(f)' <=> Settled(f))
        BY <2>8 DEF vars, Seen, Settled
      <4> QED
        BY <2>1, <2>8, <4>1, QuietFrame DEF IInv, vars
    <3> QED
      BY <3>1, <3>2 DEF IInv
  <2> QED
    BY <2>1, <2>2, <2>3, <2>4, <2>5, <2>6, <2>7, <2>8 DEF Next
<1> QED
  BY <1>1, <1>2, PTL DEF Spec

\* The state of the loop has its type: the block and the frame stay in the batch (bslz4_driver_run).
THEOREM TypeCorrect == Spec => []TypeOK
<1>1. IInv => TypeOK
  BY DEF IInv
<1> QED
  BY <1>1, Correct, PTL

\* Raising the threshold within the loop and filtering what is already listed gives, for every list of
\* thresholds and every howmany, the pixels, the threshold and the number above it that selecting from
\* the whole list afterwards gives (pipeline.h: "The answer equals ...").
THEOREM RaisingIsSelecting == Spec => []AnswerIsTheSelection
  BY Correct, InvariantAnswers, PTL

\* The powder of a call that returned has every unmasked pixel of every frame exactly once, whichever of
\* the two routes each block took and however many pixels are returned (bslz4_driver_run).
THEOREM PowderIsWhole == Spec => []PowderHasEveryPixel
  BY Correct, InvariantAnswers, PTL

\* Until a frame is at its last level, its list is not longer than the limit and one block (top_raise).
THEOREM ListsAreShort == Spec => []ListStaysShort
  BY Correct, InvariantAnswers, PTL
=============================================================================
