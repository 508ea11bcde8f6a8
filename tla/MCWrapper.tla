------------------------------ MODULE MCWrapper ------------------------------
(***************************************************************************)
(* The calls made on the extension module: of each function one that is as *)
(* its documentation says, and that call with one thing changed, for each  *)
(* argument and each kind of change.                                       *)
(***************************************************************************)
EXTENDS Wrapper, TLC

\* two frames of four pixels in two blocks, two bins, three entries of a matrix
Frames == 2
Pixels == 4

\* letter, size and shape of an argument; the lists of an unlisted layout are empty
Plain(fn, p) ==
    CASE p \in {"compressed_ptrs", "offsets", "pointers", "cursors"} -> <<"l", 8, <<Frames>>>>
      [] p \in {"compressed_lengths", "npx_out", "lengths", "status"} -> <<"i", 4, <<Frames>>>>
      [] p = "mask" -> <<"B", 1, <<Pixels>>>>
      [] p = "outpx" -> <<"H", 2, <<Frames, Pixels>>>>
      [] p = "output_adr" -> <<"I", 4, <<Frames, Pixels>>>>
      [] p = "cut" -> <<"H", 2, <<1>>>>
      [] p = "workspace" -> <<"B", 1, <<16>>>>
      [] p = "top" -> <<"l", 8, <<4>>>>
      [] p = "top_out" -> <<"i", 4, <<2, Frames>>>>
      [] p = "pipeline" -> <<"H", 2, <<6>>>>
      [] p = "powder" -> <<"d", 8, <<Frames, 2>>>>
      [] p \in {"data", "csc_data"} -> <<"f", 4, <<3>>>>
      [] p \in {"indices", "csc_indices", "bins", "row_ptr", "starts"} ->
            <<IF p = "row_ptr" THEN "i" ELSE "I", 4, <<3>>>>
      [] p = "bin_ptr" -> <<"I", 4, <<4>>>>
      [] p \in {"indptr", "csc_indptr"} -> <<"I", 4, <<Pixels + 1>>>>
      [] p = "base" /\ fn = "offsets_to_pointers" -> <<"B", 1, <<9>>>>
      [] p = "base" -> <<"i", 4, <<Pixels>>>>
      [] p = "weights" -> <<"f", 4, <<Pixels, 2>>>>
      [] p \in {"pixels", "rowmap"} -> <<"i", 4, <<Pixels>>>>
      [] p = "blk_ptr" -> <<"I", 4, <<3>>>>
      [] p = "idx" -> <<"H", 2, <<3>>>>
      [] p = "nblocks" -> <<"l", 8, <<1>>>>
      [] p = "out" /\ fn = "read_counters" -> <<"L", 8, <<3>>>>
      [] p \in {"out", "chunk"} -> <<"B", 1, <<8>>>>

\* far enough apart for the longest of them
At(fn, p) == 10000 * CHOOSE i \in DOMAIN Methods[fn].order : Methods[fn].order[i] = p
InRows(shape, size) == [d \in DOMAIN shape |-> size * Product(SubSeq(shape, d + 1, Len(shape)))]
InColumns(shape, size) == [d \in DOMAIN shape |-> size * Product(SubSeq(shape, 1, d - 1))]
Array(fn, p) ==
    LET q == Plain(fn, p)
    IN  [obj |-> p, kind |-> "ndarray", prefix |-> "", letter |-> q[1], size |-> q[2], shape |-> q[3],
         strides |-> InRows(q[3], q[2]), writable |-> p \in Methods[fn].writes, at |-> At(fn, p)]

ParamsOf(fn) == {Methods[fn].order[i] : i \in DOMAIN Methods[fn].order}
Value(i) == CASE i \in {"block_elems", "nout", "width", "elem_size", "step", "value"} -> 2
              [] i = "listed" -> 0 [] OTHER -> 1
Good(fn) == [fn |-> fn, change |-> <<"good">>, nargs |-> TRUE, junk |-> {}, a |-> [p \in ParamsOf(fn) |-> Array(fn, p)],
             v |-> [i \in Methods[fn].ints |-> Value(i)], top |-> <<1, 2>>]

Reshaped(x, shape) == [x EXCEPT !.shape = shape, !.strides = InRows(shape, x.size)]
Retyped(x, letter, size) == [x EXCEPT !.letter = letter, !.size = size, !.strides = InRows(x.shape, size)]
\* one argument changed: those that do no harm, whatever the function, and the others
Harmless(x) == [exporter |-> [x EXCEPT !.kind = "exporter"],
                prefixed |-> [x EXCEPT !.kind = "exporter", !.prefix = "<"],
                row |-> [x EXCEPT !.shape = <<1>> \o @, !.strides = <<0>> \o @],
                fortran |-> [x EXCEPT !.strides = InColumns(x.shape, x.size)],
                writable |-> [x EXCEPT !.writable = TRUE]]
Changed(x) == [readonly |-> [x EXCEPT !.writable = FALSE],
               junk |-> [x EXCEPT !.kind = "none"],
               swapped |-> [x EXCEPT !.prefix = ">"],
               complex |-> Retyped(x, "Zd", 16),
               double |-> Retyped(x, "d", 8),
               wide |-> Retyped(x, "L", 8),
               byte |-> Retyped(x, "B", 1),
               strided |-> [x EXCEPT !.strides = [d \in DOMAIN @ |-> 2 * @[d]]],
               reversed |-> [x EXCEPT !.strides = [d \in DOMAIN @ |-> -@[d]]],
               shorter |-> Reshaped(x, <<Count(x) - 1>>),
               longer |-> Reshaped(x, <<Count(x) + 1>>),
               empty |-> Reshaped(x, <<0>>),
               long |-> Reshaped(x, <<IntMax + 1>>)]

\* p where q is, where the last byte of q is, and where q ends; or p empty, in q
Moved(x, y) == [same |-> [x EXCEPT !.at = y.at, !.obj = y.obj, !.kind = y.kind],
                overlapping |-> [x EXCEPT !.at = y.at + Bytes(y) - 1],
                behind |-> [x EXCEPT !.at = y.at + Bytes(y)],
                within |-> [Reshaped(x, <<0>>) EXCEPT !.at = y.at]]
Values == {-IntMax - 2, -1, 0, 65, IntMax + 1, 65537}

With(c, p, x) == [c EXCEPT !.a = [@ EXCEPT ![p] = x]]
Kinds(f(_)) == DOMAIN f(Array("note_chunk", "chunk"))
\* what the four functions on frames have in common is changed in the first of them
Own(fn) == ParamsOf(fn) \ IF fn # "sparsify" /\ "pipeline" \in ParamsOf(fn) THEN ParamsOf("sparsify") ELSE {}
Neighbours(fn) == {<<Methods[fn].order[i], Methods[fn].order[j]>> :
                     <<i, j>> \in {x \in (DOMAIN Methods[fn].order) \X (DOMAIN Methods[fn].order) :
                                    x[1] - x[2] \in {-1, 1} /\ Methods[fn].order[x[1]] \in Own(fn)}}
\* the names of the calls: the function, the kind of change and where it is
Names ==
    UNION {{<<fn, "good">>, <<fn, "nargs">>}
           \union {<<fn, "junk", i>> : i \in Methods[fn].ints}
           \union {<<fn, "int", i, n>> : i \in Methods[fn].ints, n \in Values}
           \union {<<fn, "harmless", p, h>> : p \in Own(fn), h \in Kinds(Harmless)}
           \union {<<fn, "changed", p, h>> : p \in Own(fn), h \in Kinds(Changed)}
           \union {<<fn, "moved", p, q, h>> : p \in Own(fn), q \in ParamsOf(fn),
                                              h \in {"same"}}
           \union {<<fn, "moved", p, q, h>> : <<p, q>> \in Neighbours(fn),
                                              h \in {"overlapping", "behind", "within"}}
           : fn \in DOMAIN Methods}
    \union {<<fn, "long">> : fn \in {"sparsify", "decompress"}}
    \union {<<"sparsify_and_dot_padded", "listed", n>> : n \in 2 .. 4}
    \union {<<"sparsify", "top", n, h, k>> : n \in 0 .. 4, h \in {-1, 0, 1, IntMax + 1}, k \in -1 .. 3}

\* more frames than an int counts; a layout with lists of the right length or not; a request for the
\* strongest pixels
Long(c) == [c EXCEPT !.a = [p \in DOMAIN @ |->
                IF p \in {"compressed_ptrs", "compressed_lengths"} THEN Reshaped(@[p], <<IntMax + 1>>)
                ELSE IF p = "top" THEN Reshaped(@[p], <<0>>) ELSE @[p]]]
Listed(c, n) == [c EXCEPT !.v.listed = 1, !.a.base = Reshaped(@, <<3>>), !.a.weights = Reshaped(@, <<3, 2>>),
                          !.a.pixels = Reshaped(@, <<n>>)]
Top(c, n, h, k) == [c EXCEPT !.a.top = Reshaped(@, <<n>>), !.top = <<h, k>>]

Named(id) ==
    LET c == [Good(id[1]) EXCEPT !.change = Tail(id)]
    IN  CASE id[2] = "good" -> c
          [] id[2] = "nargs" -> [c EXCEPT !.nargs = FALSE]
          [] id[2] = "junk" -> [c EXCEPT !.junk = {id[3]}]
          [] id[2] = "int" -> [c EXCEPT !.v = [@ EXCEPT ![id[3]] = id[4]]]
          [] id[2] = "harmless" -> With(c, id[3], Harmless(c.a[id[3]])[id[4]])
          [] id[2] = "changed" -> With(c, id[3], Changed(c.a[id[3]])[id[4]])
          [] id[2] = "moved" -> With(c, id[3], Moved(c.a[id[3]], c.a[id[4]])[id[5]])
          [] id[2] = "long" -> Long(c)
          [] id[2] = "listed" -> Listed(c, id[3])
          [] id[2] = "top" -> Top(c, id[3], id[4], id[5])

\* Any call alone, in a build that tries the fast path and in one that cannot; two small calls at once,
\* on the same arrays, in every build.
CPython == [gil |-> TRUE, pypy |-> FALSE]
PyPy == [gil |-> TRUE, pypy |-> TRUE]
FreeThreaded == [gil |-> FALSE, pypy |-> FALSE]
Together == {<<"decompress", "good">>, <<"decompress", "changed", "workspace", "junk">>,
             <<"decompress", "harmless", "out", "exporter">>}
MCCases ==
    [build : {CPython}, plan : [{"t1"} -> {Named(id) : id \in Names}]]
    \union [build : {PyPy}, plan : [{"t1"} -> {Good(fn) : fn \in DOMAIN Methods}]]
    \union [build : {CPython, FreeThreaded}, plan : [{"t1", "t2"} -> {Named(id) : id \in Together}]]

\* What is called as documented is carried out: the call itself, with read-only inputs, with arrays that
\* touch or whose inputs are the same, of other buffers and in other orders of axes.
Fine(c) ==
    LET how == c.change[1]  reads == ParamsOf(c.fn) \ Methods[c.fn].writes
    IN  \/ how \in {"good", "harmless"}
        \/ how = "changed" /\ c.change[3] = "readonly" /\ c.change[2] \in reads
        \/ how = "moved" /\ c.change[4] = "behind"
        \/ how = "moved" /\ c.change[4] \in {"same", "overlapping"} /\ {c.change[2], c.change[3]} \subseteq reads
        \/ how = "listed" /\ c.change[2] = 3
        \/ how = "top" /\ c.change[2] # 3 /\ c.change[2] <= 4
\* Such a call gives the C function's answer and no error, whichever way its arguments are pinned
\* (_..._impl, c2py_pin).
GoodCallsGetThrough == \A t \in Callers : th[t].pc = "done" /\ Fine(CallOf(t)) => th[t].ret
=============================================================================
