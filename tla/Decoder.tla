------------------------------ MODULE Decoder ------------------------------
(***************************************************************************)
(* The decoder objects of src/src/__init__.py (chunk2sparseCSC, and what   *)
(* chunk2sparse does of it) that share the plan of one matrix (_Family of  *)
(* src/src/_matrix.py), each object used by a thread of its own.           *)
(*                                                                         *)
(* An object settles by itself what the caller left open: the codec and    *)
(* the mask step on the first chunk it is given, the layout of the matrix  *)
(* again whenever the block size of the chunks changes, its buffers when   *)
(* a batch is larger.  It fails in between: a bad chunk, a matrix the dot  *)
(* cannot represent, no memory.  What the C code is then called with must  *)
(* fit, whatever was called before.  The layouts are the plan's: built     *)
(* once under a lock, read without it.                                     *)
(*                                                                         *)
(* A matrix is what analyse() says of it; a batch is its size, its block   *)
(* size, the state of its first chunk and whether the others are good.     *)
(* Left out: the other steps of the pipeline (they never change), howmany  *)
(* (BlockLoop), fixed-point matrices and csc-permute (their dots are the   *)
(* caller's, and do not depend on the block size).                         *)
(***************************************************************************)
EXTENDS Integers, FiniteSets

CONSTANTS Ctx,        \* the objects of the plan
          Matrices,   \* what the matrix may be
          Dots,       \* Dots[c]: what may be given as the dot step of c, "auto" among them
          Starved,    \* the objects that may run out of memory
          Batches,    \* Batches[c]: what object c may be called with
          DataCodec,  \* the codec of the data
          MaxCalls    \* MaxCalls[c]: bound on the calls of c

DefaultElems == 4096            \* DEFAULT_BLOCK_BYTES, in u16 pixels
BsbMax       == 65536
PlanesMax    == 8192
AnyBlock     == 0               \* block_elems None: the layout does not depend on it

Codecs    == {"lz4", "zstd"}
BlockDots == {"padded", "padded-avx2", "bsb-csr", "bsb-csr-nosplit"}
DotNames  == BlockDots \cup {"csc", "csc-nosplit", "csc-nosplit-int"}

\* avx2 and intPixels are the machine's and the pixel type's; few: less than half of the pixels have
\* a bin.
Matrix == [nosplit : BOOLEAN, runs : BOOLEAN, maxBins : Nat, few : BOOLEAN,
           avx2 : BOOLEAN, intPixels : BOOLEAN]

\* first: "cut" has no header; "damaged" lost its magic number too; "bad" has not.
Batch == [kind : {"chunks", "frames"}, n : Nat \ {0}, be : Nat \ {0},
          first : {"good", "bad", "damaged", "cut"}, rest : {"good", "bad"}]

ASSUME DecoderAssumption ==
    /\ Matrices \subseteq Matrix /\ Dots \in [Ctx -> SUBSET (DotNames \cup {"auto"})]
    /\ Starved \subseteq Ctx
    /\ Batches \in [Ctx -> SUBSET Batch] /\ DataCodec \in Codecs
    /\ MaxCalls \in [Ctx -> Nat]

VARIABLES info,          \* the matrix
          layouts, lock, \* the plan's: layouts[k] numbers the layout built for key k
          arg,           \* arg[c]: the dot step c was made with
          codecPending, codec, maskPending, pipe, dot, layout,      \* of the objects
          nframes, arrays, powder, workspace,                       \* their buffers
          pc, batch, callpipe, result, calls                        \* their calls

object == <<codecPending, codec, maskPending, pipe, dot, layout>>
buffers == <<nframes, arrays, powder, workspace>>
family == <<layouts, lock>>
vars == <<info, family, arg, object, buffers, pc, batch, callpipe, result, calls>>

-----------------------------------------------------------------------------
(* The dots *)

auto_dotOfAnyBlock(be) ==
    IF info.nosplit
    THEN IF info.intPixels THEN "csc-nosplit-int" ELSE "bsb-csr-nosplit"
    ELSE IF info.runs /\ info.maxBins <= 8 THEN IF info.avx2 THEN "padded-avx2" ELSE "padded"
    ELSE IF info.few THEN "bsb-csr" ELSE "csc"
auto_dot(be) ==
    IF info.nosplit
    THEN IF info.intPixels THEN "csc-nosplit-int"
         ELSE IF be <= BsbMax THEN "bsb-csr-nosplit" ELSE "csc-nosplit"
    ELSE IF info.runs /\ info.maxBins <= 8 THEN IF info.avx2 THEN "padded-avx2" ELSE "padded"
    ELSE IF info.few /\ be <= BsbMax THEN "bsb-csr"
    ELSE IF info.runs /\ info.maxBins <= 64 /\ be <= 8192 THEN "padded"
    ELSE "csc"

\* build() raises ValueError.
CannotBuild(d, be) ==
    \/ d \in {"padded", "padded-avx2"} /\ ~(info.runs /\ info.maxBins <= 64)
    \/ d \in {"bsb-csr", "bsb-csr-nosplit"} /\ be > BsbMax
    \/ d \in {"csc-nosplit", "csc-nosplit-int", "bsb-csr-nosplit"} /\ ~info.nosplit

Entry(d) == CASE d \in {"padded", "padded-avx2"}         -> "padded"
              [] d \in {"bsb-csr", "bsb-csr-nosplit"}    -> "bsb-csr"
              [] OTHER                                   -> "csc"

\* The key of a layout in the plan, and a layout an object holds.
Key(d, be) == [dot |-> d, be |-> IF d \in BlockDots THEN be ELSE AnyBlock]
NoLayout   == [key |-> [dot |-> "none", be |-> AnyBlock], id |-> 0]

-----------------------------------------------------------------------------
(* What is read of a batch *)

_codec_of_chunk(s) == IF s.first \in {"good", "bad"} THEN DataCodec ELSE "lz4"
BlockElems(s)      == IF s.kind = "frames" \/ s.first = "cut" THEN DefaultElems ELSE s.be
Good(s)            == s.first = "good" /\ s.rest = "good"

\* _resolve: the pipeline as it is made, before anything is settled.
Resolve(c, cd) ==
    [decode |-> cd, mask |-> "pixel", dot |-> IF arg[c] = "auto" THEN auto_dot(DefaultElems) ELSE arg[c]]

PixelPipeline(c) == [pipe[c] EXCEPT !.decode = "pixels"]

\* The block size a layout is looked for at; a new object looks at the default one.
Wanted(c) == BlockElems(batch[c])

Nobody == "nobody"
NoCall == [kind |-> "frames", n |-> 1, be |-> DefaultElems, first |-> "good", rest |-> "good"]

Init ==
    /\ info \in Matrices /\ arg \in {a \in [Ctx -> DotNames \cup {"auto"}] : \A c \in Ctx : a[c] \in Dots[c]}
    /\ layouts = {[key |-> Key(auto_dot(DefaultElems), DefaultElems), id |-> 1]}  \* plan.__init__
    /\ lock = Nobody
    /\ codecPending = [c \in Ctx |-> TRUE] /\ codec = [c \in Ctx |-> "lz4"]
    /\ maskPending = [c \in Ctx |-> TRUE]
    /\ pipe = [c \in Ctx |-> Resolve(c, "lz4")]
    /\ dot = [c \in Ctx |-> pipe[c].dot]
    /\ layout = [c \in Ctx |-> NoLayout]
    /\ nframes = [c \in Ctx |-> 0]
    /\ arrays = [c \in Ctx |-> [a \in {"values", "indices", "npx", "cursors"} |-> 0]]
    /\ powder = [c \in Ctx |-> 0] /\ workspace = [c \in Ctx |-> 0]
    /\ pc = [c \in Ctx |-> "new"] /\ batch = [c \in Ctx |-> NoCall]
    /\ callpipe = pipe /\ result = [c \in Ctx |-> "none"] /\ calls = [c \in Ctx |-> 0]

Goto(c, l) == pc' = [pc EXCEPT ![c] = l] /\ UNCHANGED result

\* The call ends, with a result or an exception; a constructor that raises makes no object.
Return(c, why) ==
    /\ pc' = [pc EXCEPT ![c] = IF layout[c] = NoLayout THEN "gone" ELSE "idle"]
    /\ result' = [result EXCEPT ![c] = why]

-----------------------------------------------------------------------------
(* A call, up to the buffers *)

\* multi, from_buffer, or from_frames, whose pipeline is taken here already.
Call(c) ==
    /\ pc[c] = "idle" /\ calls[c] < MaxCalls[c]
    /\ calls' = [calls EXCEPT ![c] = @ + 1]
    /\ \E s \in Batches[c] :
         /\ batch' = [batch EXCEPT ![c] = s]
         /\ IF s.kind = "frames"
            THEN Goto(c, "outputs") /\ callpipe' = [callpipe EXCEPT ![c] = PixelPipeline(c)]
            ELSE Goto(c, "codec") /\ UNCHANGED callpipe
    /\ UNCHANGED <<info, family, arg, object, buffers>>

\* Once, whatever comes later.
MustResolveAgain(c) == _codec_of_chunk(batch[c]) # codec[c]
MustResolve(c)      == codecPending[c] /\ _codec_of_chunk(batch[c]) # codec[c]
SettleCodec(c) ==
    /\ pc[c] = "codec"
    /\ Goto(c, "mask")
    /\ codecPending' = [codecPending EXCEPT ![c] = FALSE]
    /\ LET seen == _codec_of_chunk(batch[c])
       IN  IF MustResolve(c)
           THEN /\ codec' = [codec EXCEPT ![c] = seen]
                /\ pipe' = [pipe EXCEPT ![c] = Resolve(c, seen)]
           ELSE UNCHANGED <<codec, pipe>>
    /\ UNCHANGED <<info, family, arg, maskPending, dot, layout, buffers, batch, callpipe, calls>>

\* The first chunk, decoded once without a mask, may show masked pixels at their maximum.
FirstDecodes(c) == batch[c].first = "good" /\ pipe[c].decode = DataCodec
SettleMask(c) ==
    /\ pc[c] = "mask"
    /\ Goto(c, "outputs")
    /\ maskPending' = [maskPending EXCEPT ![c] = FALSE]
    /\ \/ UNCHANGED pipe
       \/ /\ maskPending[c] /\ BlockElems(batch[c]) <= PlanesMax /\ FirstDecodes(c)
          /\ pipe' = [pipe EXCEPT ![c].mask = "planes"]
    /\ UNCHANGED <<info, family, arg, codecPending, codec, dot, layout, buffers, batch, callpipe, calls>>

-----------------------------------------------------------------------------
(* _ensure_capacity *)

\* The output arrays, in their order; memory may run out at any of them, and then the number of
\* frames there is room for is as before.
Arrays == <<"values", "indices", "npx", "cursors">>
Grown(c, made) ==
    [a \in DOMAIN arrays[c] |-> IF \E i \in 1 .. made : Arrays[i] = a THEN batch[c].n ELSE arrays[c][a]]
GrowAndForget(c) ==
    \E made \in IF c \in Starved THEN 0 .. 4 ELSE {4} :
        /\ arrays' = [arrays EXCEPT ![c] = Grown(c, made)]
        /\ nframes' = [nframes EXCEPT ![c] = batch[c].n]
        /\ IF made = 4 THEN Goto(c, "layout") ELSE Return(c, "memory")
Grow(c) ==
    \E made \in IF c \in Starved THEN 0 .. 4 ELSE {4} :
        /\ arrays' = [arrays EXCEPT ![c] = Grown(c, made)]
        /\ IF made = 4 THEN Goto(c, "layout") /\ nframes' = [nframes EXCEPT ![c] = batch[c].n]
                       ELSE Return(c, "memory") /\ UNCHANGED nframes

GrowOutputs(c) ==
    /\ pc[c] = "outputs"
    /\ IF nframes[c] < batch[c].n THEN Grow(c) ELSE Goto(c, "layout") /\ UNCHANGED <<arrays, nframes>>
    /\ UNCHANGED <<info, family, arg, object, powder, workspace, batch, callpipe, calls>>

\* A block-dependent layout built at another block size: the automatic dot is chosen again, in the
\* object and in its pipeline.
LargerBlockSize(c) == layout[c].key.be # AnyBlock /\ layout[c].key.be < BlockElems(batch[c])
OtherBlockSize(c)  == layout[c].key.be # AnyBlock /\ layout[c].key.be # BlockElems(batch[c])
ChooseDot(c) ==
    LET d == IF arg[c] = "auto" THEN auto_dot(BlockElems(batch[c])) ELSE dot[c]
    IN  dot' = [dot EXCEPT ![c] = d] /\ pipe' = [pipe EXCEPT ![c].dot = d]
CheckLayout(c) ==
    /\ pc[c] = "layout"
    /\ IF OtherBlockSize(c) THEN ChooseDot(c) /\ Goto(c, "lookup")
                            ELSE UNCHANGED <<dot, pipe>> /\ Goto(c, "powder")
    /\ UNCHANGED <<info, family, arg, codecPending, codec, maskPending, layout, buffers, batch,
                   callpipe, calls>>

-----------------------------------------------------------------------------
(* _Family.layout: a lookup, and under the lock a second one and the build *)

Sought(c) == Key(dot[c], Wanted(c))
Built(k)  == {l \in layouts : l.key = k}
Take(c, l) ==
    /\ layout' = [layout EXCEPT ![c] = l]
    /\ Goto(c, IF layout[c] = NoLayout THEN "idle" ELSE "powder")

LookUp(c) ==
    /\ pc[c] \in {"new", "lookup"}
    /\ IF Built(Sought(c)) # {}
       THEN \E l \in Built(Sought(c)) : Take(c, l)
       ELSE Goto(c, "locking") /\ UNCHANGED layout
    /\ UNCHANGED <<info, family, arg, codecPending, codec, maskPending, pipe, dot, buffers, batch,
                   callpipe, calls>>

Lock(c) ==
    /\ pc[c] = "locking" /\ lock = Nobody
    /\ lock' = c
    /\ Goto(c, "locked")
    /\ UNCHANGED <<info, layouts, arg, object, buffers, batch, callpipe, calls>>

\* The layout somebody else built meanwhile, or a new one (csc is the matrix itself, and takes no
\* memory); the lock is left with an exception too.
NextId == Cardinality(layouts) + 1
BuildAlways(c) ==
    \/ /\ ~CannotBuild(dot[c], Wanted(c))
       /\ layouts' = layouts \cup {[key |-> Sought(c), id |-> NextId]}
       /\ Take(c, [key |-> Sought(c), id |-> NextId])
    \/ /\ CannotBuild(dot[c], Wanted(c)) \/ (c \in Starved /\ dot[c] # "csc")
       /\ Return(c, IF CannotBuild(dot[c], Wanted(c)) THEN "matrix" ELSE "memory")
       /\ UNCHANGED <<layouts, layout>>
Build(c) ==
    IF Built(Sought(c)) # {}
    THEN (\E l \in Built(Sought(c)) : Take(c, l)) /\ UNCHANGED layouts
    ELSE BuildAlways(c)
UnlockIfBuilt(c) == lock' = IF layouts' = layouts /\ Built(Sought(c)) = {} THEN lock ELSE Nobody
Unlock(c)        == lock' = Nobody

UnderTheLock(c) ==
    /\ pc[c] = "locked"
    /\ Build(c)
    /\ Unlock(c)
    /\ UNCHANGED <<info, arg, codecPending, codec, maskPending, pipe, dot, buffers, batch, callpipe,
                   calls>>

-----------------------------------------------------------------------------
(* The last buffers, and the call of the C code *)

MakePowder(c) ==
    /\ pc[c] = "powder"
    /\ \/ powder' = [powder EXCEPT ![c] = nframes[c]] /\ Goto(c, "workspace")
       \/ c \in Starved /\ powder[c] # nframes[c] /\ Return(c, "memory") /\ UNCHANGED powder
    /\ UNCHANGED <<info, family, arg, object, nframes, arrays, workspace, batch, callpipe, calls>>

\* In pixels of the largest block there is room for.  The pipeline of the call is taken last.
PipeOfTheCall(c) == IF batch[c].kind = "frames" THEN callpipe[c] ELSE pipe[c]
MakeWorkspace(c) ==
    /\ pc[c] = "workspace"
    /\ LET need == BlockElems(batch[c])
       IN  \/ /\ workspace' = [workspace EXCEPT ![c] = IF @ < need THEN need ELSE @]
              /\ callpipe' = [callpipe EXCEPT ![c] = PipeOfTheCall(c)]
              /\ Goto(c, "driver")
           \/ /\ c \in Starved /\ workspace[c] < need /\ Return(c, "memory")
              /\ UNCHANGED <<workspace, callpipe>>
    /\ UNCHANGED <<info, family, arg, object, nframes, arrays, powder, batch, calls>>

\* bslz4_resolve and bslz4_driver_run, of the entry the layout is for.
WrongEntry(c)  == Entry(callpipe[c].dot) # Entry(layout[c].key.dot)
WrongLayout(c) == callpipe[c].dot \in BlockDots /\ layout[c].key.be # BlockElems(batch[c])
Decodes(c)     == \/ callpipe[c].decode = "pixels"
                  \/ Good(batch[c]) /\ callpipe[c].decode = DataCodec
Run(c) ==
    /\ pc[c] = "driver"
    /\ Return(c, IF WrongEntry(c) THEN "layout"
                 ELSE IF batch[c].kind = "chunks" /\ batch[c].first = "cut" THEN "corrupt"
                 ELSE IF WrongLayout(c) THEN "layout"
                 ELSE IF workspace[c] < BlockElems(batch[c]) THEN "too small"
                 ELSE IF Decodes(c) THEN "ok" ELSE "corrupt")
    /\ UNCHANGED <<info, family, arg, object, buffers, batch, callpipe, calls>>

Step(c) == \/ SettleCodec(c) \/ SettleMask(c) \/ GrowOutputs(c) \/ CheckLayout(c) \/ LookUp(c)
           \/ Lock(c) \/ UnderTheLock(c) \/ MakePowder(c) \/ MakeWorkspace(c) \/ Run(c)

\* No more calls.
Over == /\ \A c \in Ctx : pc[c] = "gone" \/ (pc[c] = "idle" /\ calls[c] = MaxCalls[c])
        /\ UNCHANGED vars

Next == (\E c \in Ctx : Call(c) \/ Step(c)) \/ Over

\* A thread that has begun a call goes on with it.
Spec == Init /\ [][Next]_vars /\ \A c \in Ctx : WF_vars(Step(c))

-----------------------------------------------------------------------------
(* Properties *)

Pipe  == [decode : Codecs \cup {"pixels"}, mask : {"pixel", "planes"}, dot : DotNames]
Lay   == [key : [dot : DotNames \cup {"none"}, be : Nat], id : Nat]
TypeOK ==
    /\ info \in Matrices /\ \A c \in Ctx : arg[c] \in Dots[c]
    /\ layouts \subseteq Lay /\ lock \in Ctx \cup {Nobody}
    /\ codecPending \in [Ctx -> BOOLEAN] /\ codec \in [Ctx -> Codecs]
    /\ maskPending \in [Ctx -> BOOLEAN] /\ pipe \in [Ctx -> Pipe] /\ callpipe \in [Ctx -> Pipe]
    /\ \A c \in Ctx : pipe[c].decode = codec[c] /\ pipe[c].dot = dot[c]
    /\ dot \in [Ctx -> DotNames] /\ layout \in [Ctx -> Lay]
    /\ nframes \in [Ctx -> Nat] /\ powder \in [Ctx -> Nat] /\ workspace \in [Ctx -> Nat]
    /\ arrays \in [Ctx -> [{"values", "indices", "npx", "cursors"} -> Nat]]
    /\ pc \in [Ctx -> {"new", "gone", "idle", "codec", "mask", "outputs", "layout", "lookup",
                       "locking", "locked", "powder", "workspace", "driver"}]
    /\ batch \in [Ctx -> Batch] /\ calls \in [Ctx -> Nat]
    /\ result \in [Ctx -> {"none", "ok", "corrupt", "matrix", "memory", "layout", "too small"}]

\* "C also refuses a mismatch with -109" (__init__.py): needed for an object that ran out of memory
\* only.  Whatever was settled or chosen again before, the pipeline the C code is called with is the
\* layout's, and the layout is for the blocks of the batch.  Behind: memory ran out for the layout of
\* a dot chosen again, and the next call finds the older layout good enough; or that call is
\* from_frames, which took its pipeline before the dot was chosen back.  The C code refuses both.
Behind(c) == layout[c].key.dot # dot[c] \/ callpipe[c].dot # dot[c]
PipelineFitsLayout ==
    \A c \in Ctx : pc[c] = "driver" =>
        IF Behind(c) THEN c \in Starved /\ WrongEntry(c)
        ELSE callpipe[c].dot = layout[c].key.dot /\ ~WrongLayout(c)

\* The C code does not check the size of the arrays it writes to: they hold the batch, also after
\* calls that ran out of memory half way.
BuffersHoldTheBatch ==
    \A c \in Ctx : pc[c] = "driver" =>
        /\ \A a \in DOMAIN arrays[c] : arrays[c][a] >= batch[c].n
        /\ powder[c] >= batch[c].n /\ workspace[c] >= BlockElems(batch[c])

\* "each built once however many ask at the same time" (plan): one layout for a key, the same object
\* for all who use it.
LayoutsAreShared ==
    \A k \in layouts : \A l \in layouts : k.key = l.key => k = l

\* A batch of good chunks decodes when the object has the codec right and a layout, and an automatic
\* dot can represent every matrix at every block size.
GoodBatchDecodes ==
    \A c \in Ctx : pc[c] = "idle" /\ calls[c] > 0 /\ Good(batch[c]) /\ codec[c] = DataCodec =>
        \/ result[c] \in {"ok", "memory"}
        \/ result[c] = "matrix" /\ arg[c] # "auto"
        \/ result[c] = "layout" /\ Behind(c)

\* What the first frame says of the mask stays, although settling the codec makes the pipeline anew.
MaskChoiceStays ==
    [][\A c \in Ctx : pipe[c].mask = "planes" => pipe'[c].mask = "planes"]_vars

\* A call returns: the lock of the plan is left whatever happens under it.
CallsReturn == \A c \in Ctx : pc[c] \notin {"idle", "gone"} ~> pc[c] \in {"idle", "gone"}

\* "Decode the chunks one at a time to find which" (__init__.py): a good chunk on its own decodes,
\* whatever was decoded before.
GoodChunkDecodes ==
    \A c \in Ctx : pc[c] = "idle" /\ calls[c] > 0 /\ Good(batch[c]) /\ batch[c].n = 1 =>
        result[c] \notin {"corrupt", "too small"}
=============================================================================
