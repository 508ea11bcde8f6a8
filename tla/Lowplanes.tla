----------------------------- MODULE Lowplanes -----------------------------
(***************************************************************************)
(* From the decoded planes of a block to its pixels, and from 16 bit       *)
(* blocks whose high byte is all zero straight to the list of the selected *)
(* pixels: src/src/steps/lowplanes.h, lowplanes_avx2.hpp, mask.h and       *)
(* untranspose.h, as src/src/pipeline/driver.c calls them for a full block.*)
(*                                                                         *)
(* A block is a function of positions to bits: plane p of ne pixels is at  *)
(* p * ne.  There are two low planes and one high one, for 8 and 8; a byte *)
(* of a plane, which is 8 pixels, is one pixel here.  So a group of 64     *)
(* pixels is 4 pixels, and a block has any number of pixels, as the real   *)
(* one has any number of bytes per plane.  The decoder says how far it has *)
(* written (nz_end): what lies past is zero for the reader, but the buffer *)
(* still holds what an earlier block left there.                           *)
(***************************************************************************)
EXTENDS Collect

LowBits  == 2            \* planes of the low byte
AllBits  == 3
GroupPx  == 4            \* 64 pixels: 8 bytes of each plane
TilePx   == 8            \* BSLZ4_LOWPLANES_TILE
OrPx     == 8            \* the pixels whose planes are ORed in one step
MaxByte  == 2^LowBits - 1

Lowest(a, b) == IF a < b THEN a ELSE b
Bit(v, p)    == (v \div 2^p) % 2

\* The planes of a block of pixels, and the buffer after a decoder that wrote up to nz_end only.
PlanesOf(px, ne)         == [i \in 0 .. AllBits * ne - 1 |-> Bit(px[i % ne], i \div ne)]
LeftBy(planes, nz, raw)  == [i \in DOMAIN planes |-> IF i < nz THEN planes[i] ELSE raw[i]]
Fill(raw, from, to)      == [i \in DOMAIN raw |-> IF i >= from /\ i < to THEN 0 ELSE raw[i]]

-----------------------------------------------------------------------------
(* mask.h: the mask packed as a plane, and ANDed into every plane that was written. *)

pack_mask(mask, i0, ne) == [i \in 0 .. ne - 1 |-> IF i0 + i \in mask THEN 0 ELSE 1]
and_mask_changes(bits)  == \E i \in DOMAIN bits : bits[i] = 0

mask_planes(raw, bits, ne, nz_end) ==
    [i \in DOMAIN raw |-> IF i < nz_end THEN raw[i] * bits[i % ne] ELSE raw[i]]

-----------------------------------------------------------------------------
(* The low planes alone. *)

\* Pixels from the first bits planes; of those only the first np are read, zeros for the others.
\* A plane is at p * ne however far past its end the reader goes.
Pixels(raw, ne, np, bits, upto) ==
    [e \in 0 .. upto - 1 |->
        FoldLeft(+, 0, [k \in 1 .. bits |->
            LET p == k - 1 IN IF p < np /\ p * ne + e \in DOMAIN raw THEN 2^p * raw[p * ne + e] ELSE 0])]

untrans_lowplanes_u16(raw, ne) == Pixels(raw, ne, LowBits, LowBits, ne - (ne % GroupPx))

\* The high planes of a block are zero: known at once if nothing was written there; otherwise
\* looked at, after the end has been filled.  raw is the buffer afterwards.
all_zero(raw, from, to) == \A i \in from .. to - 1 : raw[i] = 0
high_planes_zero(raw, ne, nz_end) ==
    IF nz_end <= LowBits * ne THEN [zero |-> TRUE, raw |-> raw]
    ELSE LET full == Fill(raw, nz_end, AllBits * ne)
         IN  [zero |-> all_zero(full, LowBits * ne, AllBits * ne), raw |-> full]
\* As above; the low planes are filled as well, for a reader of all of them.
high_planes_zero_c(raw, ne, nz_end) ==
    IF nz_end <= LowBits * ne THEN [zero |-> TRUE, raw |-> Fill(raw, nz_end, LowBits * ne)]
    ELSE high_planes_zero(raw, ne, nz_end)

\* The planes a fused collect reads: those that hold data; the rest of the last one is filled.
PlanesWritten(ne, nz_end) == LET nz == Lowest(nz_end, LowBits * ne) IN (nz + ne - 1) \div ne
FillLast(raw, ne, nz_end) ==
    LET nz == Lowest(nz_end, LowBits * ne) IN Fill(raw, nz, PlanesWritten(ne, nz_end) * ne)

\* A block as the fused collects see it; upto: where their last group ends.
Fused(raw, j, upto) ==
    [n |-> j.ne, i0 |-> j.i0, mask |-> j.mask, cut |-> j.cut,
     px |-> Pixels(FillLast(raw, j.ne, j.nz_end), j.ne, PlanesWritten(j.ne, j.nz_end), LowBits, upto)]

TileGroups(ne, t) == [q \in 1 .. Lowest(ne - t, TilePx) \div GroupPx |-> t + GroupPx * (q - 1)]
Tiles(ne)         == [q \in 1 .. (ne + TilePx - 1) \div TilePx |-> TilePx * (q - 1)]
HoldsData(c, g)   == \E e \in g .. g + GroupPx - 1 : c.px[e] # 0

\* VBMI: every group, or those with data, is transposed and its selection recorded; then the groups
\* with a selection are emitted, the values in one store and the addresses in four.
lowplanes_group(c, g)   == Bits(c, g, GroupPx)
lowplanes_emit(o, c, g) == PushParts(o, c, g, GroupPx, GroupPx \div 4)
lowplanes_collect_u16(raw, j) ==
    LET c == Fused(raw, j, j.ne)
        Tile(o, t) ==
          LET gs  == TileGroups(j.ne, t)
              gnz == IF j.sparse /\ Len(gs) * GroupPx % OrPx = 0
                     THEN Picked(gs, {g \in ToSet(gs) : HoldsData(c, g)}) ELSE gs
              hit == Picked(gnz, {g \in ToSet(gnz) : lowplanes_group(c, g) # <<>>})
          IN  FoldLeft(LAMBDA a, g : lowplanes_emit(a, c, g), o, hit)
    IN  FoldLeft(Tile, Empty, Tiles(j.ne))

\* AVX2: only the groups with data; a lone pixel is stored alone, more of them part by part through
\* the table of lanes (8 parts, here 2).
avx2_emit(o, c, g) ==
    LET k    == Bits(c, g, GroupPx)
        part == GroupPx \div 2
    IN  IF Len(k) <= ScalarMax THEN Push(o, c, k)
        ELSE PushWide(PushWide(o, c, Bits(c, g, part), part), c, Bits(c, g + part, part), part)
lowplanes_collect_avx2_impl(raw, j) ==
    LET c == Fused(raw, j, j.ne)
        Tile(o, t) ==
          LET gs == TileGroups(j.ne, t)
              km == Picked(gs, {g \in ToSet(gs) : HoldsData(c, g) /\ lowplanes_group(c, g) # <<>>})
          IN  FoldLeft(LAMBDA a, g : avx2_emit(a, c, g), o, km)
    IN  FoldLeft(Tile, Empty, Tiles(j.ne))

\* VSX: a group at every 8 bytes of a plane (4 pixels), the last one whole even where the plane is
\* not.  (A block of more pixels than its zero plane has it declines; none here.)  In well compressed blocks every pixel of a word that is not zero is stored, and the
\* count moves past the selected ones.
StoreEach(o, c, e) ==
    LET at == [o EXCEPT !.vals = Store(o.vals, o.n, <<c.px[e]>>), !.adr = Store(o.adr, o.n, <<c.i0 + e>>)]
    IN  IF Bits(c, e, 1) # <<>> THEN [at EXCEPT !.n = @ + 1] ELSE at
lowplanes_collect_vsx(raw, j) ==
    LET groups == (j.ne + GroupPx - 1) \div GroupPx
        c      == Fused(raw, j, groups * GroupPx)
        Group(o, g) ==
          FoldLeft(LAMBDA a, e : IF c.px[e] = 0 THEN a
                                 ELSE IF j.sparse THEN StoreEach(a, c, e) ELSE Push(a, c, Bits(c, e, 1)),
                   o, [k \in 1 .. GroupPx |-> g + k - 1])
    IN  FoldLeft(Group, Empty, [q \in 1 .. groups |-> GroupPx * (q - 1)])

\* Portable C: the low planes untransposed as bytes, words of zeros skipped.
collect_u8_swar(c) == Push(Empty, c, Bits(c, 0, c.n))

-----------------------------------------------------------------------------
(* What the driver calls.  u: the value of the untranspose step. *)

FusedValues == {"vbmi", "avx2", "vsx", "c"}
Untransposes == FusedValues \cup {"kcb", "neon", "scalar"}

\* Planes to list.  handled is FALSE where the block does not qualify; raw is the buffer afterwards.
Takes(u, ne) == CASE u = "vbmi" -> ne % GroupPx = 0
                  [] u = "avx2" -> ne % OrPx = 0
                  [] OTHER      -> u \in FusedValues
lowplanes_list(u, raw, j) ==
    LET look == IF u = "c" THEN high_planes_zero_c(raw, j.ne, j.nz_end)
                ELSE high_planes_zero(raw, j.ne, j.nz_end)
    IN  IF ~Takes(u, j.ne) THEN [handled |-> FALSE, raw |-> raw, o |-> Empty]
        ELSE IF ~look.zero THEN [handled |-> FALSE, raw |-> look.raw, o |-> Empty]
        ELSE [handled |-> TRUE, raw |-> look.raw,
              o |-> CASE j.cut >= MaxByte -> Empty
                      [] j.cut < MaxByte /\ u = "vbmi" -> lowplanes_collect_u16(look.raw, j)
                      [] j.cut < MaxByte /\ u = "avx2" -> lowplanes_collect_avx2_impl(look.raw, j)
                      [] j.cut < MaxByte /\ u = "vsx"  -> lowplanes_collect_vsx(look.raw, j)
                      [] OTHER -> collect_u8_swar([n |-> j.ne, i0 |-> j.i0, mask |-> j.mask, cut |-> j.cut,
                                    px |-> Pixels(look.raw, j.ne, LowBits, LowBits, j.ne)])]

\* Planes to block.  written is FALSE where kcb has to do it, from a buffer filled to its end.
FastBlock(u, raw, ne) ==
    IF u = "vbmi" THEN untrans_lowplanes_u16(raw, ne) ELSE Pixels(raw, ne, LowBits, LowBits, ne)
lowplanes_block(u, raw, ne, nz_end) ==
    LET full == Fill(raw, nz_end, AllBits * ne)
        none == [written |-> FALSE, raw |-> full, px |-> <<>>]
        fast == u \in {"vbmi", "avx2"} /\ ne % GroupPx = 0
    IN  IF fast /\ all_zero(full, LowBits * ne, AllBits * ne)
        THEN [written |-> TRUE, raw |-> full, px |-> FastBlock(u, full, ne)]
        ELSE none

untranspose_backend(raw, ne) == Pixels(raw, ne, AllBits, AllBits, ne)

\* bslz4_untranspose_full.
untranspose_unfilled(u, raw, ne, nz_end) == untranspose_backend(raw, ne)
untranspose_full(u, raw, ne, nz_end) ==
    IF u \in FusedValues
    THEN LET b == lowplanes_block(u, raw, ne, nz_end)
         IN  IF b.written THEN b.px ELSE untranspose_backend(b.raw, ne)
    ELSE untranspose_backend(Fill(raw, nz_end, AllBits * ne), ne)
=============================================================================
