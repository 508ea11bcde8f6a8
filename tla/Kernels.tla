------------------------------ MODULE Kernels ------------------------------
(***************************************************************************)
(* One frame through the steps of a pipeline, block by block, as           *)
(* bslz4_driver_run calls them (src/src/pipeline/driver.c, the body of its *)
(* block loop and its tail): decode, mask, untranspose, collect and dot.   *)
(* Lowplanes, Collect and Dots say what the steps compute; here are the    *)
(* buffer they share from block to block and the ways through them.        *)
(*                                                                         *)
(* A decoder may leave the end of raw as an earlier block left it.  Which  *)
(* blocks are sparse for the route, or well compressed, depends on their   *)
(* compressed size: any block may be either.                               *)
(***************************************************************************)
EXTENDS Lowplanes, Dots

CONSTANTS Pipes,                         \* the pipelines, see pipe
          Frames(_), Masks(_), Mats(_, _) \* to a pipeline (and frame): pixels, masks, matrices

\* A frame is an array; a pixel of planes, or of a type with vectors, is below Word.  The driver
\* refuses a negative cut (driver.c:124), and a block has a pixel.
ASSUME KernelsAssumption ==
    \A p \in Pipes :
        /\ p \in [inplace : BOOLEAN, u : Untransposes, masking : {"pixel", "planes"},
                  type : {"u16", "u32", "any"}, tier : Tiers, cut : Nat, ne : Nat \ {0},
                  layout : Layouts \cup {"none"}, route : {"rule", "sparse", "dense"}]
        /\ \A f \in Frames(p) :
              LET n == Cardinality(DOMAIN f)
              IN  /\ IsFiniteSet(DOMAIN f)
                  /\ f \in [0 .. n - 1 -> IF p.inplace /\ p.type = "any" THEN Int ELSE 0 .. Word - 1]

VARIABLES pipe,   \* [inplace, u, masking, type, tier, cut, ne, layout, route]
          frame, mask, mat,
          stage,  \* "start", "block", "decoded", "unlisted", "pixels", "tail", "done"
          i0,     \* the pixels done
          raw, nz_end, block,
          sparse, \* the route of the block
          list,   \* the frame's output: <<pixel, value>>
          powder,
          call    \* the buffers of the last collect, and their room

vars == <<pipe, frame, mask, mat, stage, i0, raw, nz_end, block, sparse, list, powder, call>>

Total == Cardinality(DOMAIN frame)
Raw   == AllBits * pipe.ne

Init ==
    /\ pipe \in Pipes
    /\ frame = <<>> /\ mask = {} /\ mat = <<>> /\ stage = "start" /\ i0 = 0
    /\ raw = [i \in 0 .. Raw - 1 |-> 1]
    /\ nz_end = 0 /\ block = <<>> /\ sparse = FALSE /\ list = <<>>
    /\ powder = Zeros
    /\ call = [room |-> 0, o |-> Empty]

\* The caller's input.
Call_run(f, k, m) ==
    /\ stage = "start"
    /\ frame' = f /\ mask' = k /\ mat' = m /\ stage' = "block"
    /\ UNCHANGED <<pipe, i0, raw, nz_end, block, sparse, list, powder, call>>

-----------------------------------------------------------------------------
(* A full block. *)

is_dot     == pipe.layout # "none"
lowplanes  == pipe.u \in FusedValues
maskplanes == ~pipe.inplace /\ pipe.masking = "planes" /\ pipe.ne % GroupPx = 0
Slice(n)   == [j \in 0 .. n - 1 |-> frame[i0 + j]]

\* The rules choose by compressed size; pixels in place have none.
Routes == CASE ~is_dot \/ pipe.route = "sparse" -> {TRUE}
            [] is_dot /\ pipe.route = "rule" -> IF pipe.inplace THEN {FALSE} ELSE BOOLEAN
            [] OTHER -> {FALSE}

\* Where a decoder may have stopped writing: nothing but zeros follows.
Stops(planes) ==
    LET Clear(n) == \A i \in DOMAIN planes : i >= n => planes[i] = 0
    IN  {n \in 0 .. Raw : Clear(n) /\ (n \in {0, 1, Raw} \/ ~Clear(n - 2))}

DecodeBlock ==
    /\ stage = "block" /\ ~pipe.inplace /\ i0 + pipe.ne <= Total
    /\ LET planes == PlanesOf(Slice(pipe.ne), pipe.ne)
           bits   == pack_mask(mask, i0, pipe.ne)
       IN  \E nz \in Stops(planes) :
             LET decoded == LeftBy(planes, nz, raw)
             IN  /\ nz_end' = nz
                 /\ raw' = IF maskplanes /\ and_mask_changes(bits)
                           THEN mask_planes(decoded, bits, pipe.ne, nz) ELSE decoded
    /\ sparse' \in Routes
    /\ stage' = "decoded"
    /\ UNCHANGED <<pipe, frame, mask, mat, i0, block, list, powder, call>>

TakeInPlace ==
    /\ stage = "block" /\ pipe.inplace /\ i0 + pipe.ne <= Total
    /\ block' = Slice(pipe.ne)
    /\ sparse' \in Routes
    /\ stage' = "pixels"
    /\ UNCHANGED <<pipe, frame, mask, mat, i0, raw, nz_end, list, powder, call>>

\* What a kernel is given.
Work(n, px, no_mask) ==
    [n |-> n, i0 |-> i0, px |-> px, mask |-> IF no_mask THEN {} ELSE mask,
     cut |-> pipe.cut, type |-> pipe.type, tier |-> pipe.tier, layout |-> pipe.layout]

\* The list of a block goes to the frame's output; on a sparse route it goes to a buffer of one block
\* first, and from there what is above the cut to the output.
Output(o)     == list' = list \o Listed(o) /\ call' = [room |-> Total - Len(list), o |-> o]
SparseDot(w, o) ==
    LET r == sparse_dot(w, fold_mask(mat, mask), powder, Listed(o))
    IN  /\ powder' = r.powder
        /\ list' = list \o r.list
        /\ call' = [room |-> pipe.ne, o |-> o]

Fusable == lowplanes /\ sparse
ListFused(tight) ==
    /\ stage = "decoded" /\ Fusable
    /\ LET w == Work(pipe.ne, <<>>, maskplanes)
           r == lowplanes_list(pipe.u, raw,
                  [ne |-> pipe.ne, nz_end |-> nz_end, i0 |-> i0, mask |-> w.mask,
                   cut |-> IF is_dot THEN 0 ELSE pipe.cut, sparse |-> tight])
       IN  /\ raw' = r.raw
           /\ \/ /\ r.handled /\ ~is_dot
                 /\ Output(r.o) /\ UNCHANGED powder
              \/ /\ r.handled /\ is_dot
                 /\ SparseDot(w, r.o)
              \/ /\ ~r.handled
                 /\ UNCHANGED <<list, powder, call>>
           /\ i0' = IF r.handled THEN i0 + pipe.ne ELSE i0
           /\ stage' = IF r.handled THEN "block" ELSE "unlisted"
    /\ UNCHANGED <<pipe, frame, mask, mat, nz_end, block, sparse>>

\* Where the block is written from its low planes the code leaves the high ones of raw unfilled: the
\* next thing that happens to raw is that a block is decoded into it, over anything.
Untranspose ==
    /\ stage = "unlisted" \/ (stage = "decoded" /\ ~Fusable)
    /\ block' = untranspose_full(pipe.u, raw, pipe.ne, nz_end)
    /\ raw' = Fill(raw, nz_end, Raw)
    /\ stage' = "pixels"
    /\ UNCHANGED <<pipe, frame, mask, mat, i0, nz_end, sparse, list, powder, call>>

\* The tail: decoded plainly and untransposed by kcb, or a raw remainder; its mask is by pixel.
TakeTail ==
    /\ stage = "block" /\ i0 + pipe.ne > Total
    /\ LET n == Total - i0
       IN  block' = IF pipe.inplace THEN Slice(n) ELSE untranspose_backend(PlanesOf(Slice(n), n), n)
    /\ sparse' \in Routes
    /\ stage' = "tail"
    /\ UNCHANGED <<pipe, frame, mask, mat, i0, raw, nz_end, list, powder, call>>

\* Collect and dot over the pixels.
CollectBlock ==
    /\ stage \in {"pixels", "tail"}
    /\ LET n == IF stage = "tail" THEN Total - i0 ELSE pipe.ne
           w == Work(n, block, stage = "pixels" /\ maskplanes)
           r == dense_route(w, fold_mask(mat, mask), powder)
       IN  /\ \/ /\ ~is_dot
                 /\ Output(sparse_block(w)) /\ UNCHANGED powder
              \/ /\ is_dot /\ ~sparse
                 /\ Output(r.out) /\ powder' = r.powder
              \/ /\ is_dot /\ sparse
                 /\ SparseDot(w, collect_nz(Call(w), w.type, w.tier))
           /\ i0' = i0 + n
    /\ stage' = IF stage = "tail" THEN "done" ELSE "block"
    /\ UNCHANGED <<pipe, frame, mask, mat, raw, nz_end, block, sparse>>

Done == stage = "done" /\ UNCHANGED vars

Next ==
    \/ \E f \in Frames(pipe), k \in Masks(pipe) :
          \E m \in {x \in Mats(pipe, f) : is_dot => Fits(x, pipe.layout)} : Call_run(f, k, m)
    \/ DecodeBlock \/ TakeInPlace
    \/ \E tight \in BOOLEAN : ListFused(tight)
    \/ Untranspose \/ TakeTail \/ CollectBlock \/ Done

Spec == Init /\ [][Next]_vars

-----------------------------------------------------------------------------
\* The output is, in order, the pixels so far that are above the cut and not masked, whatever the
\* steps: fused or not, by lanes or in a loop, masked by plane or by pixel, from a list of non-zero
\* pixels or from the block (lowplanes.h:474, collect.hpp:720: "mask[j+i0]>0 & block[j]>cut").
\* Which pixels is asked first: a pixel that is listed may not be one of the frame.
ListIsTheSelection ==
    /\ {list[k][1] : k \in DOMAIN list} = {p \in 0 .. i0 - 1 : p \notin mask /\ Greater(frame[p], pipe.cut)}
    /\ \A k \in DOMAIN list : list[k][2] = frame[list[k][1]]
    /\ \A k \in DOMAIN list, l \in DOMAIN list : k < l => list[k][1] < list[l][1]

\* The kernels that store whole registers write past the last pixel they keep, but never past the
\* buffer: the frame's output from where it stands, or the scratch of a block (collect.hpp:156).
StoresStayInside == Len(call.o.vals) <= call.room /\ Len(call.o.adr) <= call.room

\* An untransposed block holds the frame's pixels, although the decoder left the end of raw as the
\* block before it was, and masking by planes worked on the written part only: masked pixels are then 0.
BlockIsThePixels ==
    stage = "pixels" =>
        \A j \in DOMAIN block :
            block[j] = IF maskplanes /\ i0 + j \in mask THEN 0 ELSE frame[i0 + j]

\* The powder is what the matrix says of the pixels so far, whichever layout holds it and whichever
\* route each block took; a masked pixel contributes nothing (_matrix.py:83).
Entry(p, k, b) == IF mat[p][k][1] = b THEN Times(mat[p][k][2], frame[p]) ELSE 0
SumAt(b) ==
    LET pairs == {q \in (0 .. i0 - 1) \X (1 .. 4) : q[1] \notin mask /\ q[2] \in DOMAIN mat[q[1]]}
    IN  FoldFunction(Plus, 0, [q \in pairs |-> Entry(q[1], q[2], b)])
PowderIsTheSum ==
    stage # "start" /\ is_dot =>
        \A b \in Bins : powder[b] = IF pipe.layout \in {"csc-int", "csc-run-int"}
                                    THEN SumAt(b) % Wrap ELSE SumAt(b)
=============================================================================
