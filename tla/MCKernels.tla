----------------------------- MODULE MCKernels -----------------------------
(***************************************************************************)
(* Kernels on small frames, and beside it the decoder of Lz4Zero, whose    *)
(* results Kernels takes as the raw and nz_end of a decoded block.         *)
(***************************************************************************)
EXTENDS Kernels, Lz4Zero

Pipe(u, tier, type, inplace, masking, cut, ne, layout, route) ==
    [u |-> u, tier |-> tier, type |-> type, inplace |-> inplace, masking |-> masking,
     cut |-> cut, ne |-> ne, layout |-> layout, route |-> route]

\* Values of pixels, and frames that walk through them in different strides.
Low    == <<0, 0, 1, 0, 3, 2, 0>>
High   == <<0, 6, 0, 1, 3, 0, 4>>
Full   == <<1, 2, 3, 1, 3, 2, 1>>
Signs  == <<0, -2, 3, 0, NaN, 1, 2>>
Walk(values, n, a, b, c) == [p \in 0 .. n - 1 |-> values[1 + ((a + b * p + c * p * p) % 7)]]
Walks(values, n, as, bs, cs) == {Walk(values, n, x[1], x[2], x[3]) : x \in as \X bs \X cs}

-----------------------------------------------------------------------------
(* Sparsify: every untranspose with the scalar collect, every collect with kcb. *)

Selecting ==
    {Pipe(u, "scalar", "u16", FALSE, m, c, ne, "none", "rule") :
        u \in FusedValues \cup {"kcb"}, m \in {"pixel", "planes"}, c \in {0, 1, 3}, ne \in {4, 12}}
    \cup {Pipe(u, "scalar", "u16", FALSE, "pixel", 0, 5, "none", "rule") : u \in Untransposes \ {"vsx"}}
    \cup {Pipe(u, "scalar", "u16", FALSE, "planes", 1, 8, "none", "rule") : u \in Untransposes}
    \cup {Pipe("kcb", t, ty, TRUE, "pixel", c, ne, "none", "rule") :
             t \in Tiers, ty \in {"u16", "u32"}, c \in {0, 2, 8}, ne \in {5, 12}}

(* Dots: each layout by the fused, the collected and the pixels in place. *)
Dotting ==
    {Pipe(x[1], x[2], x[3], x[4], x[5], c, BlockElems, l, r) :
        x \in {<<"c", "scalar", "u16", FALSE, "planes">>, <<"vbmi", "avx512cs", "u16", FALSE, "pixel">>,
               <<"kcb", "scalar", "any", TRUE, "pixel">>},
        c \in {1}, l \in Layouts, r \in {"rule", "sparse"}}

MCPipes == Selecting \cup Dotting

SelectFrames(p) ==
    LET n == IF p.ne < 8 THEN 2 * p.ne + 1 ELSE p.ne + (p.ne % 8)
    IN  Walks(Low, n, {0, 2, 4, 5}, {1, 3}, {0}) \cup Walks(High, n, {0, 2, 5}, {1, 2}, {1})
            \cup Walks(Full, n, {0}, {1}, {0}) \cup Walks(Full, p.ne, {0}, {1}, {0})
\* The fixed-point layouts are for integers; what a padded one does with NaN has a run of its own.
Finite == {"padded", "padded-avx2", "csc-int", "csc-run-int", "csc-nosplit-int"}
DotFrames(p) ==
    IF p.type = "any"
    THEN {f \in Walks(Signs, 6, {0, 3, 5}, {1}, {0}) : p.layout \in Finite => \A i \in DOMAIN f : f[i] # NaN}
    ELSE {Walk(Low, 6, 4, 1, 0), Walk(High, 6, 0, 1, 0), Walk(Low, 8, 1, 1, 0), Walk(Full, 6, 0, 1, 0)}
MCFrames(p) == IF p.layout = "none" THEN SelectFrames(p) ELSE DotFrames(p)

MCMasks(p) == {{}, {1, 2, 6}}

\* Bins and weights of pixels, in different strides, and a few that are nearly empty.
Runs  == <<<<>>, <<<<0, 1>>>>, <<<<1, 2>>, <<2, 1>>>>, <<<<3, 2>>>>, <<>>, <<<<0, 1>>, <<1, 2>>, <<2, 3>>>>, <<<<2, 1>>, <<3, 1>>>>>>
Gaps  == <<<<<<0, 1>>, <<2, 2>>>>, <<<<1, 1>>, <<3, 2>>>>, <<>>, <<<<0, 1>>, <<2, 1>>, <<3, 1>>>>, <<<<2, 1>>>>, <<<<1, 3>>>>, <<>>>>
Ones  == <<<<<<0, 1>>>>, <<<<1, 1>>>>, <<>>, <<<<2, 1>>>>, <<<<3, 1>>>>, <<>>, <<>>>>
Few   == <<<<<<3, 2>>>>, <<>>, <<>>, <<>>, <<<<2, 1>>, <<3, 2>>>>, <<>>, <<>>>>
MatsOf(n) == UNION {Walks(v, n, {0, 2, 3}, {1}, {0}) : v \in {Runs, Gaps, Ones, Few}}
MCMats(p, f) ==
    IF p.layout = "none" THEN {[i \in DOMAIN f |-> <<>>]} ELSE MatsOf(Cardinality(DOMAIN f))
\* VSX at a block which is not of whole groups: 5 pixels for 40.
OddVsxPipes == {Pipe("vsx", "scalar", "u16", FALSE, "pixel", 0, 5, "none", "rule")}

\* Floats with a NaN at a pixel the mask excludes, as detectors mark their dead pixels.
PaddedPipes  == {Pipe("kcb", "scalar", "any", TRUE, "pixel", 1, BlockElems, "padded", "rule")}
NanFrames(p) == {[Walk(Low, 6, 4, 1, 0) EXCEPT ![1] = NaN]}
NanMasks(p)  == {{1}}

-----------------------------------------------------------------------------
(* Either a frame through the kernels or a block through the decoder; the other one is idle. *)

KernelsIdle ==
    /\ pipe = Pipe("kcb", "scalar", "u16", FALSE, "pixel", 0, 4, "none", "rule") /\ stage = "done"
    /\ frame = <<>> /\ mask = {} /\ mat = <<>> /\ i0 = 0 /\ raw = <<>> /\ nz_end = 0 /\ block = <<>>
    /\ sparse = FALSE /\ list = <<>> /\ powder = Zeros /\ call = [room |-> 0, o |-> Empty]
DecoderIdle ==
    /\ sse2 = FALSE /\ slack = 0 /\ left = 0 /\ pc = "done" /\ op = 0 /\ written = 0 /\ zero_from = 0
    /\ dst = [i \in Memory |-> Guard] /\ plain = [i \in Positions |-> 0]

MCInit == (Init /\ DecoderIdle) \/ (KernelsIdle /\ DecodeInit)
MCNext == (Next /\ UNCHANGED DecodeVars) \/ (DecodeNext /\ UNCHANGED vars)
MCSpec == MCInit /\ [][MCNext]_<<vars, DecodeVars>>

MCLiterals == {<<>>, <<0>>, <<1>>, <<0, 0>>, <<1, 0>>, <<0, 1>>, <<1, 1, 0>>, <<1, 0, 0, 0>>, <<0, 1, 0, 0, 1>>}
=============================================================================
