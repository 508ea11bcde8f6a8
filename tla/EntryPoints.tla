----------------------------- MODULE EntryPoints -----------------------------
(***************************************************************************)
(* The functions of the extension module as the generated wrapper sees     *)
(* them: the parameters in the order they are taken, which of them are     *)
(* pinned for writing, which the restrict check counts as writable, and    *)
(* what is asked of sizes and element types before the C function is       *)
(* called.                                                                 *)
(*                                                                         *)
(* An array is a record: obj and gen (which object, which memory of it),   *)
(* kind ("ndarray", "exporter" for every other object with a buffer,       *)
(* "none"), prefix and letter of its format, size of an element, shape,    *)
(* strides in bytes, writable, at (its address).                           *)
(***************************************************************************)
EXTENDS Integers, Sequences, FiniteSets, SequencesExt

CONSTANTS
    LongSize,       \* sizeof(long): 8, or 4 on Windows
    IntMax          \* the largest C int, scaled down

ASSUME EntryPointsAssumption == LongSize \in {4, 8} /\ IntMax \in Nat \ {0}

-----------------------------------------------------------------------------
(* Buffers *)

Product(s) == FoldLeft(LAMBDA product, n : product * n, 1, s)

\* the number of elements and of bytes
Count(x) == Product(x.shape)
Bytes(x) == Count(x) * x.size

\* A non-native prefix matters for elements of several bytes only; complex numbers, structs and
\* repeated elements have no type letter here, and no format at all is unsigned bytes.
OneByte == {"b", "B", "c", "?"}
FormatType(x) ==
    IF x.letter = "null" THEN "B"
    ELSE IF x.letter \in {"Zd", "2d", "T{}"} \/ (x.prefix = ">" /\ x.letter \notin OneByte) THEN "none"
    ELSE x.letter

\* 0: a type of which the fast path does not know the size
FormatItemsize(letter) ==
    CASE letter \in {"b", "B", "?"} -> 1
      [] letter \in {"h", "H", "e"} -> 2
      [] letter \in {"i", "I", "f"} -> 4
      [] letter \in {"l", "L"} -> LongSize
      [] letter \in {"q", "Q", "d"} -> 8
      [] OTHER -> 0

\* each axis is as far apart as the axes inside it are long; axes of length 1 do not matter
COrderEveryAxis(x) ==
    \A d \in DOMAIN x.shape : x.strides[d] = x.size * Product(SubSeq(x.shape, d + 1, Len(x.shape)))
COrderButTheLast(x) ==
    \A d \in DOMAIN x.shape : \/ d = Len(x.shape) \/ x.shape[d] = 1
                              \/ x.strides[d] = x.size * Product(SubSeq(x.shape, d + 1, Len(x.shape)))
COrder(x) == \A d \in DOMAIN x.shape :
                x.shape[d] = 1 \/ x.strides[d] = x.size * Product(SubSeq(x.shape, d + 1, Len(x.shape)))
FOrder(x) == \A d \in DOMAIN x.shape :
                x.shape[d] = 1 \/ x.strides[d] = x.size * Product(SubSeq(x.shape, 1, d - 1))
Contiguous(x) == Bytes(x) = 0 \/ COrder(x) \/ FOrder(x)

Overlap(x, y) == /\ Bytes(x) > 0 /\ Bytes(y) > 0
                 /\ x.at < y.at + Bytes(y) /\ y.at < x.at + Bytes(x)
\* buffers a, restrict: those the C function may write through
NoOverlapReadsOnly(a, restrict) == \A p, q \in restrict : p # q => ~Overlap(a[p], a[q])
NoOverlap(a, restrict) == \A p \in restrict, q \in DOMAIN a : p # q => ~Overlap(a[p], a[q])

-----------------------------------------------------------------------------
(* Types and ranges the checks are written in *)

OfType(x, letters) == FormatType(x) \in letters /\ (FormatType(x) \in {"l", "L"} => x.size = LongSize)
Of32(x, letters) == OfType(x, letters) /\ x.size = 4
IsInt(n) == n >= -IntMax - 1 /\ n <= IntMax
IsSize(n) == n >= 0

\* a the buffers of a call
FrameChecks(a) ==
    /\ OfType(a.mask, {"B", "b"})
    /\ OfType(a.output_adr, {"I", "L"})
    /\ OfType(a.npx_out, {"i", "l"})
    /\ OfType(a.workspace, {"B"})
    /\ a.compressed_ptrs.size = 8 /\ a.compressed_lengths.size = 4
    /\ Count(a.compressed_lengths) = Count(a.compressed_ptrs)
    /\ a.cursors.size = 8
    /\ a.top.size = 8 /\ a.top_out.size = 4
    /\ Count(a.top) = 0 \/ Count(a.top_out) >= 2 * Count(a.compressed_ptrs)
PipelineChecks(a) == OfType(a.pipeline, {"H"}) /\ Count(a.pipeline) = 6
FrameRanges(a, v) ==
    /\ IsInt(Count(a.compressed_ptrs)) /\ IsInt(Count(a.mask))
    /\ IsSize(Count(a.cut)) /\ IsSize(Bytes(a.workspace)) /\ IsSize(Count(a.top))
    /\ IsInt(v.dtype)

-----------------------------------------------------------------------------
(* The functions. Of each: order and ints, its parameters; writes, those pinned for writing; restrict,  *)
(* the writable ones of the overlap check; release, whether the GIL is released around the C function.  *)

Fn(order, ints, writes, restrict, release) ==
    [order |-> order, ints |-> ints, writes |-> writes, restrict |-> restrict, release |-> release]

FrameParams == <<"compressed_ptrs", "compressed_lengths", "mask", "outpx", "output_adr", "npx_out", "cut">>
CallParams == <<"workspace", "cursors", "top", "top_out", "pipeline">>
FrameWrites == {"outpx", "output_adr", "npx_out", "workspace", "cursors", "top_out"}

sparsify == Fn(FrameParams \o CallParams, {"dtype"}, FrameWrites,
               {"cursors", "npx_out", "output_adr", "outpx", "top_out", "workspace"}, TRUE)
sparsifyChecks(a, v) == FrameChecks(a) /\ PipelineChecks(a)
sparsifyRanges(a, v) == FrameRanges(a, v)

sparsify_and_dot ==
    Fn(FrameParams \o <<"powder", "data", "indices", "indptr">> \o CallParams, {"nout", "dtype"},
       FrameWrites \union {"powder"},
       {"cursors", "npx_out", "output_adr", "outpx", "powder", "top_out", "workspace"}, TRUE)
sparsify_and_dotChecks(a, v) ==
    /\ FrameChecks(a)
    /\ FormatType(a.powder) = "d" \/ a.powder.size \in {1, 2, 4, 8}
    /\ OfType(a.data, {"f", "H"}) \/ Of32(a.data, {"I", "L"})
    /\ Of32(a.indices, {"I", "i", "L", "l"}) /\ Of32(a.indptr, {"I", "i", "L", "l"})
    /\ Count(a.indices) \in {Count(a.data), Count(a.mask)}
    /\ Count(a.indptr) = Count(a.mask) + 1
    /\ PipelineChecks(a)
sparsify_and_dotRanges(a, v) == FrameRanges(a, v) /\ IsInt(v.nout)

sparsify_and_dot_padded ==
    Fn(FrameParams \o <<"powder", "base", "weights", "pixels", "rowmap", "row_ptr">> \o CallParams,
       {"width", "listed", "block_elems", "nout", "dtype"}, FrameWrites \union {"powder"},
       {"cursors", "npx_out", "output_adr", "outpx", "powder", "top_out", "workspace"}, TRUE)
\* the lists are used by a listed layout only; without them there is a row per pixel
PaddedShapesAnyList(a, v) ==
    /\ v.listed \in {0, 1}
    /\ Count(a.weights) = Count(a.base) * v.width
    /\ v.listed = 0 \/ Count(a.rowmap) = Count(a.mask)
    /\ v.listed = 1 \/ Count(a.base) = Count(a.mask)
    /\ v.block_elems >= 1
PaddedShapes(a, v) ==
    /\ v.listed \in {0, 1}
    /\ Count(a.weights) = Count(a.base) * v.width
    /\ v.listed = 0 \/ Count(a.pixels) = Count(a.base)
    /\ v.listed = 0 \/ Count(a.rowmap) = Count(a.mask)
    /\ v.listed = 1 \/ Count(a.base) = Count(a.mask)
    /\ v.block_elems >= 1
sparsify_and_dot_paddedChecks(a, v) ==
    /\ FrameChecks(a)
    /\ OfType(a.powder, {"d"}) /\ OfType(a.weights, {"f"})
    /\ \A p \in {"base", "pixels", "rowmap", "row_ptr"} : Of32(a[p], {"i", "l"})
    /\ v.width >= 1 /\ v.width <= 64
    /\ PaddedShapes(a, v)
    /\ PipelineChecks(a)
sparsify_and_dot_paddedRanges(a, v) ==
    /\ FrameRanges(a, v)
    /\ IsInt(v.nout) /\ IsInt(Count(a.row_ptr)) /\ IsInt(v.width) /\ IsInt(v.listed) /\ IsSize(v.block_elems)

sparsify_and_dot_bsbcsr ==
    Fn(FrameParams \o <<"powder", "blk_ptr", "bins", "bin_ptr", "idx", "data",
                        "csc_data", "csc_indices", "csc_indptr">> \o CallParams,
       {"block_elems", "nout", "dtype"}, FrameWrites \union {"powder"},
       {"cursors", "npx_out", "output_adr", "outpx", "powder", "top_out", "workspace"}, TRUE)
BsbcsrShapes(a, v) ==
    /\ Count(a.bin_ptr) = Count(a.bins) + 1
    /\ Count(a.idx) = Count(a.data)
    /\ Count(a.csc_indices) = Count(a.csc_data)
    /\ Count(a.csc_indptr) = Count(a.mask) + 1
    /\ v.block_elems >= 1 /\ v.block_elems <= 65536
sparsify_and_dot_bsbcsrChecks(a, v) ==
    /\ FrameChecks(a)
    /\ OfType(a.powder, {"d"})
    /\ \A p \in {"blk_ptr", "bins", "bin_ptr"} : Of32(a[p], {"I", "L"})
    /\ OfType(a.idx, {"H"}) /\ OfType(a.data, {"f"}) /\ OfType(a.csc_data, {"f"})
    /\ \A p \in {"csc_indices", "csc_indptr"} : Of32(a[p], {"I", "i", "L", "l"})
    /\ BsbcsrShapes(a, v)
    /\ PipelineChecks(a)
sparsify_and_dot_bsbcsrRanges(a, v) ==
    FrameRanges(a, v) /\ IsInt(v.nout) /\ IsInt(Count(a.blk_ptr)) /\ IsSize(v.block_elems)

decompress == Fn(<<"compressed_ptrs", "compressed_lengths", "out", "workspace">>,
                 {"elem_size", "decode", "untranspose", "unshuffle"},
                 {"out", "workspace"}, {"out", "workspace"}, TRUE)
decompressChecks(a, v) ==
    /\ OfType(a.out, {"B"}) /\ OfType(a.workspace, {"B"})
    /\ a.compressed_ptrs.size = 8 /\ a.compressed_lengths.size = 4
    /\ Count(a.compressed_lengths) = Count(a.compressed_ptrs)
decompressRanges(a, v) ==
    /\ IsInt(Count(a.compressed_ptrs)) /\ IsSize(Bytes(a.out)) /\ IsSize(Bytes(a.workspace))
    /\ \A i \in decompress.ints : IsInt(v[i])

block_starts == Fn(<<"compressed_ptrs", "compressed_lengths", "starts", "status", "nblocks">>, {"elem_size"},
                   {"starts", "status", "nblocks"}, {"nblocks", "starts", "status"}, TRUE)
block_startsChecks(a, v) ==
    /\ a.starts.size = 4 /\ a.status.size = 4 /\ a.nblocks.size = 8
    /\ Count(a.nblocks) >= 1
    /\ a.compressed_ptrs.size = 8 /\ a.compressed_lengths.size = 4
    /\ Count(a.compressed_lengths) = Count(a.compressed_ptrs)
    /\ Count(a.status) >= Count(a.compressed_ptrs)
block_startsRanges(a, v) == IsInt(Count(a.compressed_ptrs)) /\ IsInt(v.elem_size) /\ IsSize(Count(a.starts))

offsets_to_pointers == Fn(<<"base", "offsets", "lengths">>, {}, {"offsets"}, {"offsets"}, FALSE)
offsets_to_pointersChecks(a, v) ==
    a.offsets.size = 8 /\ a.lengths.size = 4 /\ Count(a.lengths) = Count(a.offsets)
offsets_to_pointersRanges(a, v) == IsSize(Bytes(a.base)) /\ IsInt(Count(a.offsets))

note_chunk == Fn(<<"chunk", "pointers", "lengths">>, {"index"}, {"pointers", "lengths"},
                 {"lengths", "pointers"}, FALSE)
note_chunkRanges(a, v) == IsSize(Bytes(a.chunk)) /\ IsInt(v.index)

step_available == Fn(<<>>, {"step", "value"}, {}, {}, FALSE)
step_availableRanges(a, v) == IsInt(v.step) /\ IsInt(v.value)
reset_counters == Fn(<<>>, {}, {}, {}, FALSE)
set_counters == Fn(<<>>, {"on"}, {}, {}, FALSE)
set_countersRanges(a, v) == IsInt(v.on)
read_counters == Fn(<<"out">>, {}, {"out"}, {"out"}, FALSE)
read_countersRanges(a, v) == IsInt(Count(a.out))
build_info == Fn(<<"out">>, {}, {"out"}, {"out"}, FALSE)
build_infoChecks(a, v) == OfType(a.out, {"B"})
build_infoRanges(a, v) == IsInt(Bytes(a.out))

Methods == [sparsify |-> sparsify, sparsify_and_dot |-> sparsify_and_dot,
              sparsify_and_dot_padded |-> sparsify_and_dot_padded,
              sparsify_and_dot_bsbcsr |-> sparsify_and_dot_bsbcsr,
              decompress |-> decompress, block_starts |-> block_starts,
              offsets_to_pointers |-> offsets_to_pointers, note_chunk |-> note_chunk,
              step_available |-> step_available, reset_counters |-> reset_counters,
              set_counters |-> set_counters, read_counters |-> read_counters, build_info |-> build_info]

\* what _..._impl asks before the call: every buffer contiguous, the checks, the ranges of C
Accepted(fn, a, v) ==
    /\ \A p \in DOMAIN a : Contiguous(a[p])
    /\ CASE fn = "sparsify" -> sparsifyChecks(a, v) /\ sparsifyRanges(a, v)
         [] fn = "sparsify_and_dot" -> sparsify_and_dotChecks(a, v) /\ sparsify_and_dotRanges(a, v)
         [] fn = "sparsify_and_dot_padded" -> sparsify_and_dot_paddedChecks(a, v)
                                              /\ sparsify_and_dot_paddedRanges(a, v)
         [] fn = "sparsify_and_dot_bsbcsr" -> sparsify_and_dot_bsbcsrChecks(a, v)
                                              /\ sparsify_and_dot_bsbcsrRanges(a, v)
         [] fn = "decompress" -> decompressChecks(a, v) /\ decompressRanges(a, v)
         [] fn = "block_starts" -> block_startsChecks(a, v) /\ block_startsRanges(a, v)
         [] fn = "offsets_to_pointers" -> offsets_to_pointersChecks(a, v) /\ offsets_to_pointersRanges(a, v)
         [] fn = "note_chunk" -> note_chunkRanges(a, v)
         [] fn = "step_available" -> step_availableRanges(a, v)
         [] fn = "reset_counters" -> TRUE
         [] fn = "set_counters" -> set_countersRanges(a, v)
         [] fn = "read_counters" -> read_countersRanges(a, v)
         [] fn = "build_info" -> build_infoChecks(a, v) /\ build_infoRanges(a, v)

-----------------------------------------------------------------------------
(* The C entry points *)

\* top is [howmany, the number of thresholds, thresholds]; t its first two values
TopFromArgs(ntop, t) ==
    \/ ntop = 0
    \/ /\ ntop >= 2
       /\ t[1] \in 0 .. IntMax
       /\ t[2] >= 0 /\ t[2] <= ntop - 2

\* What is written for a chunk too long for an int32 is -1, which no later check takes for a length.
NoteChunk(length) == IF length > IntMax THEN -1 ELSE length

\* Addresses in place of offsets, or -108 and the offsets as they were
Inside(baseLen, offset, length) == offset >= 0 /\ length >= 0 /\ offset <= baseLen /\ length <= baseLen - offset
OffsetsToPointers(base, baseLen, offsets, lengths) ==
    IF \A f \in DOMAIN offsets : Inside(baseLen, offsets[f], lengths[f])
    THEN [rc |-> 0, offsets |-> [f \in DOMAIN offsets |-> base + offsets[f]]]
    ELSE [rc |-> -108, offsets |-> offsets]
=============================================================================
