------------------------------ MODULE Collect ------------------------------
(***************************************************************************)
(* The collect step of src/src/steps/collect.hpp: the pixels of a decoded  *)
(* block that are above the cut and not masked, with their addresses in    *)
(* the frame.  There is a scalar loop, and five vector tiers for 16 and 32 *)
(* bit pixels which reach the same list by different means: a compress and *)
(* a full width store, a table of lanes, a walk over set bits, windows     *)
(* that change between a vector and a scalar loop.                         *)
(*                                                                         *)
(* Vectors have a quarter of their real lanes, and the window of VSX four  *)
(* pixels of 128; the ratios of widths within a tier are kept.  A pixel is *)
(* a number below Word.  A signed or floating pixel exists for the scalar  *)
(* loops only: there it may be negative, or NaN.                           *)
(***************************************************************************)
EXTENDS Integers, Sequences, FiniteSets, SequencesExt

Word == 8     \* pixels of the vector tiers are 0 .. Word - 1
NaN  == -99   \* stands for a NaN, in blocks of floats
Junk == -1    \* what a full width store leaves past the last pixel

\* A call: n pixels px[0 .. n - 1] which start at pixel i0 of the frame, the cut, and the masked
\* pixels of the frame ({} also where the mask is NULL).
Calls == [n : Nat, px : UNION {[0 .. n - 1 -> Int] : n \in 0 .. 16}, i0 : Nat,
          mask : SUBSET Nat, cut : Int]

\* The buffers a call fills, as far as they have been written, and the count it returns.
Empty == [vals |-> <<>>, adr |-> <<>>, n |-> 0]
Listed(o) == [k \in 1 .. o.n |-> <<o.adr[k], o.vals[k]>>]

-----------------------------------------------------------------------------
(* Selecting and storing. *)

Greater(v, cut) == v # NaN /\ v > cut
mask_ok(c, j) == c.i0 + j \notin c.mask

\* x86 before AVX-512 compares signed lanes only: both sides have their sign bit flipped first.
Signed(v)    == IF v >= Word \div 2 THEN v - Word ELSE v
Flip(v)      == (v + Word \div 2) % Word
GreaterUnbiased(v, cut) == Signed(v) > Signed(cut)
GreaterByBias(v, cut) == Signed(Flip(v)) > Signed(Flip(cut))

\* What is in S, in the order of seq.
Picked(seq, S) == FoldLeft(LAMBDA kept, x : IF x \in S THEN Append(kept, x) ELSE kept, <<>>, seq)

\* The selected ones of the w pixels from j on, in order.
Lanes(j, w)         == [k \in 1 .. w |-> j + k - 1]
Bits(c, j, w)       == Picked(Lanes(j, w), {i \in j .. j + w - 1 : mask_ok(c, i) /\ Greater(c.px[i], c.cut)})
BiasedBits(c, j, w) == Picked(Lanes(j, w), {i \in j .. j + w - 1 : mask_ok(c, i) /\ GreaterByBias(c.px[i], c.cut)})

Values(c, is)    == [k \in DOMAIN is |-> c.px[is[k]]]
Addresses(c, is) == [k \in DOMAIN is |-> c.i0 + is[k]]
Wide(s, w)       == s \o [k \in 1 .. w - Len(s) |-> Junk]
Store(buf, at, s) ==
    SubSeq(buf, 1, at) \o s \o SubSeq(buf, at + Len(s) + 1, Len(buf))

\* One pixel after the other.
Push(o, c, is) == [vals |-> Store(o.vals, o.n, Values(c, is)),
                   adr  |-> Store(o.adr, o.n, Addresses(c, is)), n |-> o.n + Len(is)]

\* A register of w lanes, the selected ones moved to its front; the count moves past those only.
PushWide(o, c, is, w) ==
    [vals |-> Store(o.vals, o.n, Wide(Values(c, is), w)),
     adr  |-> Store(o.adr, o.n, Wide(Addresses(c, is), w)), n |-> o.n + Len(is)]

\* The same for the w pixels from j on, whose addresses leave in parts, each stored in so many lanes.
PushLanes(o, c, j, w, part, lanes) ==
    LET Part(a, k) == LET is == Bits(c, k, part)
                      IN  [buf |-> Store(a.buf, a.at, Wide(Addresses(c, is), lanes)),
                           at  |-> a.at + Len(is)]
        adr == FoldLeft(Part, [buf |-> o.adr, at |-> o.n], [q \in 1 .. w \div part |-> j + part * (q - 1)])
    IN  [vals |-> Store(o.vals, o.n, Wide(Values(c, Bits(c, j, w)), w)), adr |-> adr.buf, n |-> adr.at]
PushPartsWhole(o, c, j, w, part) == PushLanes(o, c, j, w, part, w)
PushParts(o, c, j, w, part) == PushLanes(o, c, j, w, part, part)

\* Whole vectors of w pixels by Group, the rest of the block by the scalar loop.
ByVectors(c, w, Group(_, _)) ==
    LET rest == c.n % w
    IN  Push(FoldLeft(Group, Empty, [q \in 1 .. c.n \div w |-> w * (q - 1)]),
             c, Bits(c, c.n - rest, rest))

-----------------------------------------------------------------------------
(* The tiers. *)

\* AVX-512, 32 (here 8) lanes: the values leave in one store, the addresses in two halves.
collect_avx512cs_u16(c) ==
    LET Group(o, j) == IF Bits(c, j, 8) = <<>> THEN o ELSE PushParts(o, c, j, 8, 4)
    IN  ByVectors(c, 8, Group)

collect_avx512cs_u32(c) ==
    LET Group(o, j) == IF Bits(c, j, 4) = <<>> THEN o ELSE PushWide(o, c, Bits(c, j, 4), 4)
    IN  ByVectors(c, 4, Group)

\* lane[m]: the set bits of a selection byte (here of 2 bits), packed to the front.
avx2cs_lut == [m \in SUBSET (0 .. 1) |-> Picked(Lanes(0, 2), m)]

\* AVX2, 16 (here 4) lanes in two halves: a lone pixel is taken out by the bit loop, more of them by
\* the table, half by half.
ScalarMax == 1
collect_avx2cs_u16(c) ==
    LET Half(o, j, all) ==
          LET lanes == avx2cs_lut[{b \in 0 .. 1 : \E k \in DOMAIN all : all[k] = j + b}]
          IN  PushWide(o, c, [k \in DOMAIN lanes |-> j + lanes[k]], 2)
        Group(o, j) ==
          LET all == BiasedBits(c, j, 4)
          IN  IF Len(all) <= ScalarMax THEN Push(o, c, all)
              ELSE Half(Half(o, j, all), j + 2, all)
    IN  ByVectors(c, 4, Group)

collect_avx2cs_u32(c) ==
    LET Group(o, j) == Push(o, c, BiasedBits(c, j, 2)) IN ByVectors(c, 2, Group)
collect_sse2_u16(c) ==
    LET Group(o, j) == Push(o, c, BiasedBits(c, j, 2)) IN ByVectors(c, 2, Group)
\* The one lane left of 4 by the scale.
collect_sse2_u32(c) ==
    LET Group(o, j) == Push(o, c, BiasedBits(c, j, 1)) IN ByVectors(c, 1, Group)

\* NEON: a vector with no pixel above the cut is passed over, whatever the mask.
Gated(c, j, w) == \E i \in j .. j + w - 1 : Greater(c.px[i], c.cut)
collect_neon_u16(c) ==
    LET Group(o, j) == IF Gated(c, j, 2) THEN Push(o, c, Bits(c, j, 2)) ELSE o
    IN  ByVectors(c, 2, Group)
collect_neon_u32(c) ==
    LET Group(o, j) == IF Gated(c, j, 1) THEN Push(o, c, Bits(c, j, 1)) ELSE o
    IN  ByVectors(c, 1, Group)

\* VSX: windows, each by the gated vectors or by the scalar loop; how many pixels a window kept
\* decides for the next, with hysteresis: more than 1/20 (here 1/3) of it, to dense; fewer than 1/50
\* (here 1/4), back to sparse.
Window == 4
vsx_next_dense(dense, kept) == IF dense THEN kept * 4 >= Window ELSE kept * 3 > Window
Windows(c, w) ==
    LET nv == c.n - (c.n % w)
        Vector(kept, i) == IF Gated(c, i, w) THEN kept \o Bits(c, i, w) ELSE kept
        Sparse(j, len)  == FoldLeft(Vector, <<>>, [q \in 1 .. len \div w |-> j + w * (q - 1)])
        Next(s, q) == LET j    == Window * (q - 1)
                          len  == IF j + Window < nv THEN Window ELSE nv - j
                          kept == IF s.dense THEN Bits(c, j, len) ELSE Sparse(j, len)
                      IN  [o |-> Push(s.o, c, kept), dense |-> vsx_next_dense(s.dense, Len(kept))]
        done == FoldLeft(Next, [o |-> Empty, dense |-> FALSE],
                         [q \in 1 .. (nv + Window - 1) \div Window |-> q])
    IN  Push(done.o, c, Bits(c, nv, c.n % w))
collect_vsx_u16(c) == Windows(c, 2)
collect_vsx_u32(c) == Windows(c, 1)

-----------------------------------------------------------------------------
(* The two entry points.  A pixel type is "u16", "u32" or "any", the types without vectors. *)

Tiers == {"scalar", "avx512cs", "avx2cs", "sse2", "vsx", "neon"}

collect_scalar(c) == Push(Empty, c, Bits(c, 0, c.n))

collect_gt_u16(c, tier) ==
    CASE tier = "avx512cs" -> collect_avx512cs_u16(c) [] tier = "avx2cs" -> collect_avx2cs_u16(c)
      [] tier = "sse2"     -> collect_sse2_u16(c)     [] tier = "vsx"    -> collect_vsx_u16(c)
      [] tier = "neon"     -> collect_neon_u16(c)     [] OTHER           -> collect_scalar(c)
collect_gt_u32(c, tier) ==
    CASE tier = "avx512cs" -> collect_avx512cs_u32(c) [] tier = "avx2cs" -> collect_avx2cs_u32(c)
      [] tier = "sse2"     -> collect_sse2_u32(c)     [] tier = "vsx"    -> collect_vsx_u32(c)
      [] tier = "neon"     -> collect_neon_u32(c)     [] OTHER           -> collect_scalar(c)

\* mask and value above the cut.
collect_gt(c, type, tier) ==
    CASE type = "u16" -> collect_gt_u16(c, tier)
      [] type = "u32" -> collect_gt_u32(c, tier)
      [] OTHER        -> collect_scalar(c)

\* mask and value not 0, negative ones and NaN included: a comparison with 0 for unsigned pixels only.
collect_nz_any(c) == Push(Empty, c, Picked(Lanes(0, c.n), {i \in 0 .. c.n - 1 : mask_ok(c, i) /\ c.px[i] # 0}))
collect_nz_u16(c, tier) == collect_gt_u16([c EXCEPT !.cut = 0], tier)
collect_nz_u32(c, tier) == collect_gt_u32([c EXCEPT !.cut = 0], tier)
collect_nz(c, type, tier) ==
    CASE type = "u16" -> collect_nz_u16(c, tier)
      [] type = "u32" -> collect_nz_u32(c, tier)
      [] OTHER        -> collect_nz_any(c)
=============================================================================
