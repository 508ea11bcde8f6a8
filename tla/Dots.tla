-------------------------------- MODULE Dots --------------------------------
(***************************************************************************)
(* The dot step: what the pixels of a block add to the powder of a frame,  *)
(* by src/src/steps/dot_csc.hpp, dot_padded.hpp, dot_bsbcsr.hpp and        *)
(* dot_fixed.hpp, from the layouts src/src/_matrix.py makes of a matrix.   *)
(*                                                                         *)
(* A layout adds weight times value to bins, one update after the other:   *)
(* a route of a layout is its sequence of updates <<bin, weight, value>>.  *)
(* Pixels and weights are small integers, so sums are exact in whatever    *)
(* order; what floats do is there in two places: a NaN takes over its sum  *)
(* (0 * NaN is NaN), and a float holds integers up to FloatExact only.     *)
(* The fixed-point sums are modulo Wrap (2^64).  Tiles have 4 pixels of    *)
(* 128, two apart in a pass for 16; a staging chunk has 2 pixels of 128,   *)
(* with 2 slots each for 8.                                                *)
(***************************************************************************)
EXTENDS Collect

CONSTANTS Nbins, BlockElems,  \* the powder of a frame; the pixels of a block
          FloatExact, Wrap

ASSUME DotsAssumption ==
    /\ Nbins \in Nat \ {0} /\ BlockElems \in Nat \ {0} /\ FloatExact \in Nat /\ Wrap \in Nat \ {0}

Bins         == 0 .. Nbins - 1
NO_BIN       == -1
Npix(mat)    == Cardinality(DOMAIN mat)
Nblocks(mat) == (Npix(mat) + BlockElems - 1) \div BlockElems
Counting(from, n) == [k \in 1 .. n |-> from + k - 1]
Joined(seq, Of(_)) == FlattenSeq([k \in DOMAIN seq |-> Of(seq[k])])

Times(w, v) == IF v = NaN THEN NaN ELSE w * v
Plus(a, b)  == IF a = NaN \/ b = NaN THEN NaN ELSE a + b
\* An integer as a float: above FloatExact, the even ones only.
AsFloat(v)  == IF v > FloatExact THEN v - (v % 2) ELSE v

Zeros == [b \in Bins |-> 0]
Apply(powder, updates) ==
    FoldLeft(LAMBDA acc, u : [acc EXCEPT ![u[1]] = Plus(@, Times(u[2], u[3]))], powder, updates)
Wrapped(powder) == [b \in Bins |-> powder[b] % Wrap]

-----------------------------------------------------------------------------
(* The layouts (_matrix.py) of a matrix: to each pixel of the frame, a sequence of <<bin, weight>>. *)

\* The mask is folded in: nothing is left of a masked pixel.
fold_mask(mat, mask) == [p \in DOMAIN mat |-> IF p \in mask THEN <<>> ELSE mat[p]]

First(mat, p) == IF mat[p] = <<>> THEN 0 ELSE mat[p][1][1]
IsRuns(mat)   == \A p \in DOMAIN mat : \A k \in 1 .. Len(mat[p]) - 1 : mat[p][k + 1][1] = mat[p][k][1] + 1

\* csc-run: the first bin of every pixel.  csc-nosplit: the one bin of every pixel, its weight 1.
run_starts(mat)   == [p \in DOMAIN mat |-> First(mat, p)]
IsNosplit(mat)    == \A p \in DOMAIN mat : Len(mat[p]) <= 1 /\ \A k \in DOMAIN mat[p] : mat[p][k][2] = 1
nosplit_bins(mat) == [p \in DOMAIN mat |-> IF mat[p] = <<>> THEN NO_BIN ELSE First(mat, p)]

\* padded: a row has a first bin and width weights; the rows are the pixels or, if fewer than half
\* have entries, those that have (listed).  A run at the last bins is shifted within its row.
padded_from_csc(mat) ==
    LET has       == {p \in DOMAIN mat : mat[p] # <<>>}
        listed    == 2 * Cardinality(has) < Npix(mat)
        pixels    == IF listed THEN SetToSortSeq(has, <) ELSE Counting(0, Npix(mat))
        width     == FoldSet(LAMBDA n, most : IF n > most THEN n ELSE most, 1, {Len(mat[p]) : p \in has})
        base(p)   == IF First(mat, p) > Nbins - width THEN Nbins - width ELSE First(mat, p)
        row(p)    == [c \in 1 .. width |->
                        LET k == c - (First(mat, p) - base(p))
                        IN  IF k \in DOMAIN mat[p] THEN mat[p][k][2] ELSE 0]
    IN  [width   |-> width,
         pixels  |-> pixels,
         base    |-> [r \in DOMAIN pixels |-> base(pixels[r])],
         weights |-> Joined(pixels, row),
         rowmap  |-> [p \in DOMAIN mat |-> {r \in DOMAIN pixels : pixels[r] = p}],
         row_ptr |-> [b \in 0 .. Nblocks(mat) |-> Cardinality({r \in DOMAIN pixels : pixels[r] < b * BlockElems})]]

\* bsb-csr: to a block, the bins it touches; to such a bin, its <<pixel in the block, weight>>.
bsb_csr_from_csc(mat) ==
    LET Entries(b, bin) ==
          Joined(SelectSeq(Counting(b * BlockElems, BlockElems), LAMBDA p : p < Npix(mat)),
                 LAMBDA p : LET own == SelectSeq(mat[p], LAMBDA e : e[1] = bin)
                            IN  [k \in DOMAIN own |-> <<p % BlockElems, own[k][2]>>])
    IN  [b \in 0 .. Nblocks(mat) - 1 |->
            SelectSeq([i \in 1 .. Nbins |-> [bin |-> i - 1, of |-> Entries(b, i - 1)]],
                      LAMBDA g : g.of # <<>>)]

Layouts == {"csc", "csc-run", "csc-nosplit", "padded", "padded-avx2", "bsb-csr", "bsb-csr-nosplit",
            "csc-permute", "csc-int", "csc-run-int", "csc-nosplit-int"}
Fits(mat, layout) ==
    CASE layout \in {"csc-run", "csc-run-int", "padded", "padded-avx2"} -> IsRuns(mat)
      [] layout \in {"csc-nosplit", "csc-nosplit-int", "bsb-csr-nosplit"} -> IsNosplit(mat)
      [] layout = "csc-permute" ->
            IsNosplit(mat) /\ \A p, q \in DOMAIN mat : p # q /\ mat[p] # <<>> => mat[p] # mat[q]
      [] OTHER -> TRUE

-----------------------------------------------------------------------------
(* What one pixel of value v adds. *)

CscEntries(mat, p, v)  == [k \in DOMAIN mat[p] |-> <<mat[p][k][1], mat[p][k][2], v>>]
RunEntries(mat, p, v)  == [k \in DOMAIN mat[p] |-> <<run_starts(mat)[p] + k - 1, mat[p][k][2], v>>]
BinEntry(mat, p, v)    == LET b == nosplit_bins(mat)[p] IN IF b = NO_BIN THEN <<>> ELSE <<<<b, 1, v>>>>
RowEntries(m, r, v)    == [c \in 1 .. m.width |-> <<m.base[r] + c - 1, m.weights[(r - 1) * m.width + c], v>>]

\* AVX2 does the columns four, then two, then one at a time, while as many are left.
AnyStore(left, lanes)   == left >= 1
WholeStore(left, lanes) == left >= lanes
RowAvx2(m, r, v) ==
    LET four == IF WholeStore(m.width, 4) THEN 4 ELSE 0
        two  == IF WholeStore(m.width - four, 2) THEN four + 2 ELSE four
        upto == IF two > m.width THEN two ELSE m.width
        weight(c) == LET i == (r - 1) * m.width + c IN IF i \in DOMAIN m.weights THEN m.weights[i] ELSE 0
    IN  [c \in 1 .. upto |-> <<m.base[r] + c - 1, weight(c), v>>]

-----------------------------------------------------------------------------
(* The routes.  w: a work item: i0, n, px[0 .. n - 1], mask, cut, type, tier; mat is mask folded.  *)
(* A list is a sequence of <<pixel of the frame, value>>.                                          *)

BlockOf(w)    == w.i0 \div BlockElems
AllPixels(w)  == [k \in 1 .. w.n |-> <<w.i0 + k - 1, w.px[k - 1]>>]
csc_sparse(list, mat)          == Joined(list, LAMBDA e : CscEntries(mat, e[1], e[2]))
run_sparse(list, mat)          == Joined(list, LAMBDA e : RunEntries(mat, e[1], e[2]))
nosplit_sparse_core(list, mat) == Joined(list, LAMBDA e : BinEntry(mat, e[1], e[2]))
dense_dot(w, mat)     == csc_sparse(AllPixels(w), mat)
run_dense(w, mat)     == run_sparse(AllPixels(w), mat)
nosplit_dense(w, mat) == nosplit_sparse_core(AllPixels(w), mat)
\* Two apart in a tile: the even pixels of it, then the odd ones.
Strided(from, n) ==
    Joined(Counting(0, (n + 3) \div 4), LAMBDA t :
        SelectSeq(<<from + 4 * t, from + 4 * t + 2, from + 4 * t + 1, from + 4 * t + 3>>, LAMBDA i : i < from + n))

\* csc, sparse route: in blocks of 1.5 to 4 entries per pixel the pixels are staged, each in as many
\* slots as it may fill; one of more entries than slots first flushes those before it.
Slots == 2
Chunk == 2
Staged(w, mat) ==
    LET entries == Len(Joined(Counting(w.i0, w.n), LAMBDA p : mat[p]))
    IN  2 * entries > 3 * w.n /\ entries < 4 * w.n
Stage(s, mat, e) ==
    IF Len(mat[e[1]]) <= Slots THEN [s EXCEPT !.slots = @ \o CscEntries(mat, e[1], AsFloat(e[2]))]
    ELSE [done |-> s.done \o s.slots \o CscEntries(mat, e[1], e[2]), slots |-> <<>>]
StagedChunk(list, mat) ==
    LET s == FoldLeft(LAMBDA acc, e : Stage(acc, mat, e), [done |-> <<>>, slots |-> <<>>], list)
    IN  s.done \o s.slots
sparse_dot_core(w, mat, list) ==
    IF Staged(w, mat)
    THEN Joined(Counting(0, (Len(list) + Chunk - 1) \div Chunk), LAMBDA c :
            StagedChunk(SubSeq(list, Chunk * c + 1, IF Chunk * (c + 1) < Len(list) THEN Chunk * (c + 1) ELSE Len(list)), mat))
    ELSE csc_sparse(list, mat)

\* padded: the rows of the block, from the first to before that of the next; an empty tail has none.
padded_dense(w, mat, avx2) ==
    LET m  == padded_from_csc(mat)
        r0 == m.row_ptr[BlockOf(w)] + 1
        n  == m.row_ptr[BlockOf(w) + 1] + 1 - r0
        value(r) == w.px[m.pixels[r] - w.i0]
    IN  IF w.n = 0 THEN <<>>
        ELSE IF avx2 THEN Joined(Strided(r0, n), LAMBDA r : RowAvx2(m, r, value(r)))
        ELSE Joined(Counting(r0, n), LAMBDA r : RowEntries(m, r, value(r)))
padded_sparse(list, mat) ==
    LET m == padded_from_csc(mat)
    IN  Joined(list, LAMBDA e : Joined(SetToSeq(m.rowmap[e[1]]), LAMBDA r : RowEntries(m, r, e[2])))

\* bsb-csr: bin by bin of the block.
bsbcsr_dense(w, mat) ==
    IF w.n = 0 THEN <<>>
    ELSE Joined(bsb_csr_from_csc(mat)[BlockOf(w)], LAMBDA g :
            [k \in DOMAIN g.of |-> <<g.bin, g.of[k][2], w.px[g.of[k][1]]>>])
bsbcsr_nosplit_dense(w, mat) ==
    IF w.n = 0 THEN <<>>
    ELSE Joined(bsb_csr_from_csc(mat)[BlockOf(w)], LAMBDA g :
            [k \in DOMAIN g.of |-> <<g.bin, 1, w.px[g.of[k][1]]>>])

\* csc-nosplit-int, dense: in tiles, with stride.
nosplit_int_dense(w, mat) ==
    Joined(Strided(0, w.n), LAMBDA j : BinEntry(mat, w.i0 + j, w.px[j]))

\* csc-permute stores the value.
Permute(powder, updates) == FoldLeft(LAMBDA acc, u : [acc EXCEPT ![u[1]] = u[3]], powder, updates)

-----------------------------------------------------------------------------
(* One block: the powder after it, and its list. *)

Call(w) == [n |-> w.n, i0 |-> w.i0, px |-> w.px, mask |-> w.mask, cut |-> w.cut]
cut_above_max(w) == w.type \in {"u16", "u32"} /\ w.cut > Word - 1
\* Sparsify, alone or after a dense route.
sparse_block(w) == IF cut_above_max(w) THEN Empty ELSE collect_gt(Call(w), w.type, w.tier)
SparseList(w, list) ==
    IF cut_above_max(w) THEN <<>> ELSE Picked(list, {e \in ToSet(list) : Greater(e[2], w.cut)})

DenseUpdates(w, mat) ==
    CASE w.layout = "padded"          -> padded_dense(w, mat, FALSE)
      [] w.layout = "padded-avx2"     -> padded_dense(w, mat, TRUE)
      [] w.layout \in {"csc-run", "csc-run-int"} -> run_dense(w, mat)
      [] w.layout \in {"csc-nosplit", "csc-permute"} -> nosplit_dense(w, mat)
      [] w.layout = "csc-nosplit-int" -> nosplit_int_dense(w, mat)
      [] w.layout = "bsb-csr"         -> bsbcsr_dense(w, mat)
      [] w.layout = "bsb-csr-nosplit" -> bsbcsr_nosplit_dense(w, mat)
      [] OTHER                        -> dense_dot(w, mat)
SparseUpdates(w, mat, list) ==
    CASE w.layout \in {"padded", "padded-avx2"}  -> padded_sparse(list, mat)
      [] w.layout \in {"csc-run", "csc-run-int"} -> run_sparse(list, mat)
      [] w.layout \in {"csc-nosplit", "csc-nosplit-int", "bsb-csr-nosplit", "csc-permute"} ->
            nosplit_sparse_core(list, mat)
      [] w.layout = "csc-int" -> csc_sparse(list, mat)
      [] OTHER                -> sparse_dot_core(w, mat, list)

Summed(w, powder, updates) ==
    CASE w.layout = "csc-permute" -> Permute(powder, updates)
      [] w.layout \in {"csc-int", "csc-run-int"} -> Wrapped(Apply(powder, updates))
      [] OTHER -> Apply(powder, updates)

\* The sparse route, from a list of the pixels that are not 0; the dense route.
sparse_dot(w, mat, powder, list) ==
    [powder |-> Summed(w, powder, SparseUpdates(w, mat, list)), list |-> SparseList(w, list)]
dense_route(w, mat, powder) ==
    [powder |-> Summed(w, powder, DenseUpdates(w, mat)), out |-> sparse_block(w)]
=============================================================================
