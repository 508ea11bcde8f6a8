--------------------------- MODULE DecoderProofs ---------------------------
(***************************************************************************)
(* Proofs about Decoder, for every set of objects and of batches: TypeOK,  *)
(* and what reaches the C code.  The inductive invariant says, of the plan *)
(* and of each object, what holds at each place of a call:                 *)
(*   LayoutOf   which layout the object has, and for which block size;     *)
(*   DotOf      the dot is the first one, or one chosen for larger blocks, *)
(*              and the layout is of that dot or of the first one;         *)
(*   PendingOf  what is not settled yet was not changed either;            *)
(*   CallOf     which pipeline the call goes on with;                      *)
(*   BuffersOf  what the buffers hold;                                     *)
(*   ResultOf   what the last call returned.                               *)
(* An action of an object is taken apart first (ActionDoes: the new values *)
(* of that object, and no other changes), then shown to keep all of this   *)
(* (ActionKeeps).                                                          *)
(***************************************************************************)
EXTENDS Decoder, FiniteSetTheorems, TLAPS

-----------------------------------------------------------------------------
(* The invariant *)

\* The dot of a new object.
FirstDot(c) == IF arg[c] = "auto" THEN auto_dot(DefaultElems) ELSE arg[c]

\* Where a layout is looked for, and where a call is from its buffers on.
Looking == {"new", "lookup", "locking", "locked"}
Within  == {"layout", "lookup", "locking", "locked", "powder", "workspace", "driver"}

\* The layouts of the plan.
FamilyInv ==
    /\ IsFiniteSet(layouts) /\ LayoutsAreShared
    /\ \A l \in layouts : l.key.dot \in DotNames /\ (l.key.dot \in BlockDots <=> l.key.be # AnyBlock)

LayoutOf(c) ==
    /\ layout[c] = NoLayout \/ layout[c] \in layouts
    /\ layout[c] = NoLayout =>
           /\ pc[c] \in {"new", "locking", "locked", "gone"}
           /\ calls[c] = 0 /\ batch[c] = NoCall /\ codecPending[c]
    /\ pc[c] \in {"new", "gone"} => layout[c] = NoLayout
    /\ pc[c] \in {"locking", "locked"} /\ layout[c] # NoLayout => layout[c].key.be # AnyBlock
    /\ pc[c] = "lookup" => layout[c].key.be # AnyBlock
    /\ pc[c] \in {"powder", "workspace", "driver"} =>
           layout[c].key.be \in {AnyBlock, BlockElems(batch[c])}

DotOf(c) ==
    /\ dot[c] = FirstDot(c) \/ (arg[c] = "auto" /\ dot[c] \notin BlockDots)
    /\ pc[c] \in Looking /\ arg[c] = "auto" => dot[c] = auto_dot(Wanted(c))
    /\ layout[c] # NoLayout =>
           \/ layout[c].key.dot = dot[c]
           \/ /\ layout[c].key.dot = FirstDot(c) /\ FirstDot(c) \in BlockDots /\ dot[c] \notin BlockDots
              /\ c \in Starved \/ pc[c] \in Looking

PendingOf(c) ==
    /\ codecPending[c] =>
           /\ maskPending[c] /\ dot[c] = FirstDot(c) /\ pc[c] # "mask"
           /\ batch[c].kind = "frames" \/ pc[c] = "codec"
           /\ layout[c].key.be \in {AnyBlock, DefaultElems}
    /\ maskPending[c] => pipe[c].mask = "pixel"

CallOf(c) ==
    /\ pc[c] \in {"codec", "mask"} => batch[c].kind = "chunks"
    /\ batch[c].kind = "frames" /\ pc[c] \in Within \cup {"outputs"} /\ layout[c] # NoLayout =>
           /\ callpipe[c].decode = "pixels"
           /\ \/ callpipe[c].dot = dot[c]
              \/ c \in Starved /\ callpipe[c].dot \notin BlockDots /\ dot[c] \in BlockDots
    /\ batch[c].kind = "chunks" /\ pc[c] = "driver" => callpipe[c] = pipe[c]

BuffersOf(c) ==
    /\ \A a \in DOMAIN arrays[c] : arrays[c][a] >= nframes[c]
    /\ pc[c] \in Within /\ layout[c] # NoLayout => nframes[c] >= batch[c].n
    /\ pc[c] \in {"workspace", "driver"} => powder[c] = nframes[c]
    /\ pc[c] = "driver" => workspace[c] >= BlockElems(batch[c])

ResultOf(c) ==
    pc[c] = "idle" /\ calls[c] > 0 /\ Good(batch[c]) /\ codec[c] = DataCodec =>
        \/ result[c] \in {"ok", "memory"}
        \/ result[c] = "matrix" /\ arg[c] # "auto"
        \/ result[c] = "layout" /\ Behind(c)

Object(c) == LayoutOf(c) /\ DotOf(c) /\ PendingOf(c) /\ CallOf(c) /\ BuffersOf(c) /\ ResultOf(c)

IInv == TypeOK /\ FamilyInv /\ \A c \in Ctx : Object(c)

\* Nothing of object d changes.
Same(d) ==
    /\ codecPending'[d] = codecPending[d] /\ codec'[d] = codec[d]
    /\ maskPending'[d] = maskPending[d] /\ pipe'[d] = pipe[d]
    /\ dot'[d] = dot[d] /\ layout'[d] = layout[d]
    /\ nframes'[d] = nframes[d] /\ arrays'[d] = arrays[d]
    /\ powder'[d] = powder[d] /\ workspace'[d] = workspace[d]
    /\ pc'[d] = pc[d] /\ batch'[d] = batch[d] /\ callpipe'[d] = callpipe[d]
    /\ result'[d] = result[d] /\ calls'[d] = calls[d]

-----------------------------------------------------------------------------
(* The operators *)

\* auto_dot answers with a dot that build() accepts at that block size, and with a block dot only if
\* it is the one of the default block size.
LEMMA AutoDot ==
    ASSUME TypeOK, NEW be \in Nat
    PROVE  /\ auto_dot(be) \in DotNames
           /\ ~CannotBuild(auto_dot(be), be)
           /\ auto_dot(be) \in BlockDots => auto_dot(be) = auto_dot(DefaultElems)
<1>1. info \in Matrix
  BY DecoderAssumption DEF TypeOK
<1> QED
  BY <1>1 DEF auto_dot, CannotBuild, DotNames, BlockDots, DefaultElems, BsbMax, Matrix

\* The dots that do not depend on the block size are those of the csc entry point.
LEMMA Entries ==
    ASSUME NEW d \in DotNames
    PROVE  Entry(d) = "csc" <=> d \notin BlockDots
BY DEF Entry, DotNames, BlockDots

\* Types that the steps below need.
LEMMA Types ==
    ASSUME TypeOK, NEW c \in Ctx
    PROVE  /\ arg[c] \in DotNames \cup {"auto"} /\ dot[c] \in DotNames /\ FirstDot(c) \in DotNames
           /\ batch[c] \in Batch /\ batch[c].n \in Nat /\ BlockElems(batch[c]) \in Nat \ {0}
           /\ batch[c].kind \in {"chunks", "frames"}
<1>1. arg[c] \in DotNames \cup {"auto"} /\ dot[c] \in DotNames
  BY DecoderAssumption DEF TypeOK
<1>2. FirstDot(c) \in DotNames
  BY <1>1, AutoDot DEF FirstDot, DefaultElems
<1>3. batch[c] \in Batch
  BY DEF TypeOK
<1>4. batch[c].n \in Nat /\ batch[c].be \in Nat \ {0} /\ batch[c].kind \in {"chunks", "frames"}
  BY <1>3 DEF Batch
<1>5. BlockElems(batch[c]) \in Nat \ {0}
  BY <1>4 DEF BlockElems, DefaultElems
<1> QED
  BY <1>1, <1>2, <1>3, <1>4, <1>5

-----------------------------------------------------------------------------
(* Steps of other objects *)

\* What is known of an object that takes no step, while layouts are only added.
LEMMA Keep ==
    ASSUME NEW d \in Ctx, Same(d), info' = info, arg' = arg, layouts \subseteq layouts', Object(d)
    PROVE  Object(d)'
<1>1. auto_dot(DefaultElems)' = auto_dot(DefaultElems) /\ FirstDot(d)' = FirstDot(d) /\ Wanted(d)' = Wanted(d)
  BY DEF Same, FirstDot, auto_dot, Wanted, BlockElems
<1>2. auto_dot(Wanted(d))' = auto_dot(Wanted(d))
  BY <1>1 DEF auto_dot
<1>3. BlockElems(batch[d])' = BlockElems(batch[d]) /\ Good(batch[d])' = Good(batch[d])
  BY DEF Same, BlockElems, Good
<1>4. LayoutOf(d)'
  BY <1>3 DEF LayoutOf, Object, Same
<1>5. DotOf(d)'
  BY <1>1, <1>2 DEF DotOf, Object, Same
<1>6. PendingOf(d)'
  BY <1>1 DEF PendingOf, Object, Same
<1>7. CallOf(d)'
  BY DEF CallOf, Object, Same
<1>8. BuffersOf(d)'
  BY <1>3 DEF BuffersOf, Object, Same
<1>9. ResultOf(d)'
  BY <1>3 DEF ResultOf, Object, Same, Behind
<1> QED
  BY <1>4, <1>5, <1>6, <1>7, <1>8, <1>9 DEF Object

\* Every variable of the objects is a function on them.
Functions ==
    /\ codecPending = [d \in Ctx |-> codecPending[d]] /\ codec = [d \in Ctx |-> codec[d]]
    /\ maskPending = [d \in Ctx |-> maskPending[d]] /\ pipe = [d \in Ctx |-> pipe[d]]
    /\ dot = [d \in Ctx |-> dot[d]] /\ layout = [d \in Ctx |-> layout[d]]
    /\ nframes = [d \in Ctx |-> nframes[d]] /\ arrays = [d \in Ctx |-> arrays[d]]
    /\ powder = [d \in Ctx |-> powder[d]] /\ workspace = [d \in Ctx |-> workspace[d]]
    /\ pc = [d \in Ctx |-> pc[d]] /\ batch = [d \in Ctx |-> batch[d]]
    /\ callpipe = [d \in Ctx |-> callpipe[d]] /\ result = [d \in Ctx |-> result[d]]
    /\ calls = [d \in Ctx |-> calls[d]]

\* A step of object c.
Only(c) == info' = info /\ arg' = arg /\ Functions' /\ \A d \in Ctx : d # c => Same(d)

-----------------------------------------------------------------------------
(* Steps of an object, taken apart *)

\* What a step of object c leaves as it is.
SettledKept(c) ==
    /\ codecPending'[c] = codecPending[c] /\ codec'[c] = codec[c] /\ maskPending'[c] = maskPending[c]
ObjectKept(c)  == SettledKept(c) /\ pipe'[c] = pipe[c] /\ dot'[c] = dot[c] /\ layout'[c] = layout[c]
ArraysKept(c)  == nframes'[c] = nframes[c] /\ arrays'[c] = arrays[c]
BuffersKept(c) == ArraysKept(c) /\ powder'[c] = powder[c] /\ workspace'[c] = workspace[c]
CallKept(c)    == batch'[c] = batch[c] /\ callpipe'[c] = callpipe[c] /\ calls'[c] = calls[c]

Places  == {"new", "gone", "idle", "codec", "mask", "outputs", "layout", "lookup", "locking", "locked",
            "powder", "workspace", "driver"}
Results == {"none", "ok", "corrupt", "matrix", "memory", "layout", "too small"}

\* The types of one object.
TypeOf(c) ==
    /\ codecPending[c] \in BOOLEAN /\ codec[c] \in Codecs /\ maskPending[c] \in BOOLEAN
    /\ pipe[c] \in Pipe /\ callpipe[c] \in Pipe /\ pipe[c].decode = codec[c] /\ pipe[c].dot = dot[c]
    /\ dot[c] \in DotNames /\ layout[c] \in Lay
    /\ nframes[c] \in Nat /\ powder[c] \in Nat /\ workspace[c] \in Nat
    /\ arrays[c] \in [{"values", "indices", "npx", "cursors"} -> Nat]
    /\ pc[c] \in Places /\ batch[c] \in Batch /\ calls[c] \in Nat /\ result[c] \in Results

\* TypeOK, for one object.
LEMMA TypesOf ==
    ASSUME TypeOK, NEW c \in Ctx
    PROVE  TypeOf(c)
BY DEF TypeOK, TypeOf, Places, Results

\* TypeOK after a step of one object.
LEMMA TypesStep ==
    ASSUME TypeOK, NEW c \in Ctx, Only(c), TypeOf(c)', layouts' \subseteq Lay, lock' \in Ctx \cup {Nobody}
    PROVE  TypeOK'
<1>1. info' \in Matrices /\ \A d \in Ctx : arg'[d] \in Dots[d]
  BY DEF TypeOK, Only
<1> USE DEF Functions, Same
<1>2. codecPending' \in [Ctx -> BOOLEAN] /\ codec' \in [Ctx -> Codecs] /\ maskPending' \in [Ctx -> BOOLEAN]
  BY DEF TypeOK, Only, TypeOf
<1>3. pipe' \in [Ctx -> Pipe] /\ callpipe' \in [Ctx -> Pipe]
  BY DEF TypeOK, Only, TypeOf
<1>4. dot' \in [Ctx -> DotNames] /\ layout' \in [Ctx -> Lay]
  BY DEF TypeOK, Only, TypeOf
<1>5. \A d \in Ctx : pipe'[d].decode = codec'[d] /\ pipe'[d].dot = dot'[d]
  BY DEF TypeOK, Only, TypeOf
<1>6. nframes' \in [Ctx -> Nat] /\ powder' \in [Ctx -> Nat] /\ workspace' \in [Ctx -> Nat]
  BY DEF TypeOK, Only, TypeOf
<1>7. arrays' \in [Ctx -> [{"values", "indices", "npx", "cursors"} -> Nat]]
  BY DEF TypeOK, Only, TypeOf
<1>8. pc' \in [Ctx -> Places] /\ result' \in [Ctx -> Results]
  BY DEF TypeOK, Only, TypeOf, Places, Results
<1>9. batch' \in [Ctx -> Batch] /\ calls' \in [Ctx -> Nat]
  BY DEF TypeOK, Only, TypeOf
<1> QED
  BY <1>1, <1>2, <1>3, <1>4, <1>5, <1>6, <1>7, <1>8, <1>9 DEF TypeOK, Places, Results

\* The variables are functions, by their types.
LEMMA AreFunctions ==
    ASSUME TypeOK
    PROVE  Functions
BY DEF TypeOK, Functions

\* The matrix and the argument do not change, and what they say neither.
LEMMA Fixed ==
    ASSUME info' = info, arg' = arg
    PROVE  /\ \A c \in Ctx : FirstDot(c)' = FirstDot(c)
           /\ \A be \in Nat : auto_dot(be)' = auto_dot(be)
<1>1. ASSUME NEW be \in Nat PROVE auto_dot(be)' = auto_dot(be)
  BY DEF auto_dot
<1>2. ASSUME NEW c \in Ctx PROVE FirstDot(c)' = FirstDot(c)
  BY <1>1 DEF FirstDot, DefaultElems
<1> QED
  BY <1>1, <1>2

\* The parts of the invariant.
LEMMA Known ==
    ASSUME IInv, NEW c \in Ctx
    PROVE  /\ TypeOK /\ FamilyInv /\ LayoutOf(c) /\ DotOf(c) /\ PendingOf(c)
           /\ CallOf(c) /\ BuffersOf(c) /\ ResultOf(c)
BY DEF IInv, Object

\* The object has the layout it looked for.
Taken(c) ==
    /\ layout'[c] \in layouts' /\ layout'[c].key = Sought(c) /\ result'[c] = result[c]
    /\ pc'[c] = IF layout[c] = NoLayout THEN "idle" ELSE "powder"

\* The new values of an object that takes Call.
LEMMA CallDoes ==
    ASSUME TypeOK, NEW c \in Ctx, Call(c)
    PROVE  /\ Only(c)
           /\ pc[c] = "idle" /\ calls'[c] = calls[c] + 1 /\ batch'[c] \in Batch /\ result'[c] = result[c]
           /\ ObjectKept(c) /\ BuffersKept(c)
           /\ \/ batch'[c].kind = "frames" /\ pc'[c] = "outputs" /\ callpipe'[c] = PixelPipeline(c)
              \/ batch'[c].kind = "chunks" /\ pc'[c] = "codec" /\ callpipe'[c] = callpipe[c]
<1> USE DEF Call, object, buffers, family, Goto, Return
<1>1. Functions'
  BY AreFunctions DEF Functions
<1>2. ASSUME NEW d \in Ctx, d # c PROVE Same(d)
  BY <1>2 DEF Same, TypeOK
<1>3. info' = info /\ arg' = arg
  OBVIOUS
<1>4. /\ pc[c] = "idle" /\ calls'[c] = calls[c] + 1 /\ batch'[c] \in Batch /\ result'[c] = result[c]
           /\ ObjectKept(c) /\ BuffersKept(c)
           /\ \/ batch'[c].kind = "frames" /\ pc'[c] = "outputs" /\ callpipe'[c] = PixelPipeline(c)
              \/ batch'[c].kind = "chunks" /\ pc'[c] = "codec" /\ callpipe'[c] = callpipe[c]
  <2>1. PICK s \in Batches[c] :
            /\ batch' = [batch EXCEPT ![c] = s]
            /\ IF s.kind = "frames"
               THEN Goto(c, "outputs") /\ callpipe' = [callpipe EXCEPT ![c] = PixelPipeline(c)]
               ELSE Goto(c, "codec") /\ UNCHANGED callpipe
    OBVIOUS
  <2>2. s \in Batch
    BY DecoderAssumption
  <2>3. s.kind \in {"chunks", "frames"}
    BY <2>2 DEF Batch
  <2>4. batch'[c] = s
    BY <2>1 DEF TypeOK
  <2>5. /\ pc[c] = "idle" /\ calls'[c] = calls[c] + 1 /\ result'[c] = result[c]
        /\ ObjectKept(c) /\ BuffersKept(c)
    BY DEF TypeOK, SettledKept, ObjectKept, ArraysKept, BuffersKept, CallKept
  <2>6. CASE s.kind = "frames"
    <3>1. Goto(c, "outputs") /\ callpipe' = [callpipe EXCEPT ![c] = PixelPipeline(c)]
      BY <2>1, <2>6
    <3>2. pc'[c] = "outputs" /\ callpipe'[c] = PixelPipeline(c)
      BY <3>1 DEF TypeOK
    <3> QED
      BY <2>2, <2>4, <2>5, <2>6, <3>2
  <2>7. CASE s.kind = "chunks"
    BY <2>1, <2>2, <2>4, <2>5, <2>7 DEF TypeOK
  <2> QED
    BY <2>3, <2>6, <2>7
<1> QED
  BY <1>1, <1>2, <1>3, <1>4 DEF Only

\* The new values of an object that takes SettleCodec.
LEMMA SettleCodecDoes ==
    ASSUME TypeOK, NEW c \in Ctx, SettleCodec(c)
    PROVE  /\ Only(c)
           /\ pc[c] = "codec" /\ pc'[c] = "mask" /\ result'[c] = result[c] /\ codecPending'[c] = FALSE
           /\ maskPending'[c] = maskPending[c] /\ dot'[c] = dot[c] /\ layout'[c] = layout[c]
           /\ BuffersKept(c) /\ CallKept(c)
           /\ \/ /\ codecPending[c] /\ codec'[c] = _codec_of_chunk(batch[c])
                 /\ pipe'[c] = Resolve(c, _codec_of_chunk(batch[c]))
              \/ codec'[c] = codec[c] /\ pipe'[c] = pipe[c]
<1> USE DEF SettleCodec, object, buffers, family, Goto, Return
<1>1. Functions'
  BY AreFunctions DEF Functions
<1>2. ASSUME NEW d \in Ctx, d # c PROVE Same(d)
  BY <1>2 DEF Same, TypeOK
<1>3. info' = info /\ arg' = arg
  OBVIOUS
<1>4. /\ pc[c] = "codec" /\ pc'[c] = "mask" /\ result'[c] = result[c] /\ codecPending'[c] = FALSE
           /\ maskPending'[c] = maskPending[c] /\ dot'[c] = dot[c] /\ layout'[c] = layout[c]
           /\ BuffersKept(c) /\ CallKept(c)
           /\ \/ /\ codecPending[c] /\ codec'[c] = _codec_of_chunk(batch[c])
                 /\ pipe'[c] = Resolve(c, _codec_of_chunk(batch[c]))
              \/ codec'[c] = codec[c] /\ pipe'[c] = pipe[c]
  BY DEF SettledKept, ObjectKept, ArraysKept, BuffersKept, CallKept, TypeOK, MustResolve
<1> QED
  BY <1>1, <1>2, <1>3, <1>4 DEF Only

\* The new values of an object that takes SettleMask.
LEMMA SettleMaskDoes ==
    ASSUME TypeOK, NEW c \in Ctx, SettleMask(c)
    PROVE  /\ Only(c)
           /\ pc[c] = "mask" /\ pc'[c] = "outputs" /\ result'[c] = result[c] /\ maskPending'[c] = FALSE
           /\ codecPending'[c] = codecPending[c] /\ codec'[c] = codec[c]
           /\ dot'[c] = dot[c] /\ layout'[c] = layout[c] /\ BuffersKept(c) /\ CallKept(c)
           /\ pipe'[c] \in {pipe[c], [pipe[c] EXCEPT !.mask = "planes"]}
<1> USE DEF SettleMask, object, buffers, family, Goto, Return
<1>1. Functions'
  BY AreFunctions DEF Functions
<1>2. ASSUME NEW d \in Ctx, d # c PROVE Same(d)
  BY <1>2 DEF Same, TypeOK
<1>3. info' = info /\ arg' = arg
  OBVIOUS
<1>4. /\ pc[c] = "mask" /\ pc'[c] = "outputs" /\ result'[c] = result[c] /\ maskPending'[c] = FALSE
           /\ codecPending'[c] = codecPending[c] /\ codec'[c] = codec[c]
           /\ dot'[c] = dot[c] /\ layout'[c] = layout[c] /\ BuffersKept(c) /\ CallKept(c)
           /\ pipe'[c] \in {pipe[c], [pipe[c] EXCEPT !.mask = "planes"]}
  BY DEF SettledKept, ObjectKept, ArraysKept, BuffersKept, CallKept, TypeOK
<1> QED
  BY <1>1, <1>2, <1>3, <1>4 DEF Only

\* The new values of an object that takes CheckLayout.
LEMMA CheckLayoutDoes ==
    ASSUME TypeOK, NEW c \in Ctx, CheckLayout(c)
    PROVE  /\ Only(c)
           /\ pc[c] = "layout" /\ result'[c] = result[c] /\ SettledKept(c)
           /\ layout'[c] = layout[c] /\ BuffersKept(c) /\ CallKept(c)
           /\ \/ /\ OtherBlockSize(c) /\ pc'[c] = "lookup"
                 /\ dot'[c] = (IF arg[c] = "auto" THEN auto_dot(BlockElems(batch[c])) ELSE dot[c])
                 /\ pipe'[c] = [pipe[c] EXCEPT !.dot = dot'[c]]
              \/ ~OtherBlockSize(c) /\ pc'[c] = "powder" /\ dot'[c] = dot[c] /\ pipe'[c] = pipe[c]
<1> USE DEF CheckLayout, ChooseDot, object, buffers, family, Goto, Return
<1>1. Functions'
  BY AreFunctions DEF Functions
<1>2. ASSUME NEW d \in Ctx, d # c PROVE Same(d)
  BY <1>2 DEF Same, TypeOK
<1>3. info' = info /\ arg' = arg
  OBVIOUS
<1>4. /\ pc[c] = "layout" /\ result'[c] = result[c] /\ SettledKept(c)
           /\ layout'[c] = layout[c] /\ BuffersKept(c) /\ CallKept(c)
           /\ \/ /\ OtherBlockSize(c) /\ pc'[c] = "lookup"
                 /\ dot'[c] = (IF arg[c] = "auto" THEN auto_dot(BlockElems(batch[c])) ELSE dot[c])
                 /\ pipe'[c] = [pipe[c] EXCEPT !.dot = dot'[c]]
              \/ ~OtherBlockSize(c) /\ pc'[c] = "powder" /\ dot'[c] = dot[c] /\ pipe'[c] = pipe[c]
  <2>1. /\ pc[c] = "layout" /\ result'[c] = result[c] /\ SettledKept(c)
        /\ layout'[c] = layout[c] /\ BuffersKept(c) /\ CallKept(c)
    BY DEF TypeOK, SettledKept, ObjectKept, ArraysKept, BuffersKept, CallKept
  <2>2. CASE OtherBlockSize(c)
    <3> DEFINE d == IF arg[c] = "auto" THEN auto_dot(BlockElems(batch[c])) ELSE dot[c]
    <3> HIDE DEF d
    <3>1. dot' = [dot EXCEPT ![c] = d] /\ pipe' = [pipe EXCEPT ![c].dot = d]
      BY <2>2 DEF d
    <3>2. dot'[c] = d /\ pipe'[c] = [pipe[c] EXCEPT !.dot = d]
      BY <3>1 DEF TypeOK
    <3>3. pc'[c] = "lookup"
      BY <2>2 DEF TypeOK
    <3> QED
      BY <2>1, <2>2, <3>2, <3>3 DEF d
  <2>3. CASE ~OtherBlockSize(c)
    BY <2>1, <2>3 DEF TypeOK
  <2> QED
    BY <2>2, <2>3
<1> QED
  BY <1>1, <1>2, <1>3, <1>4 DEF Only

\* The new values of an object that takes GrowOutputs.
LEMMA GrowOutputsDoes ==
    ASSUME TypeOK, NEW c \in Ctx, GrowOutputs(c)
    PROVE  /\ Only(c)
           /\ pc[c] = "outputs" /\ ObjectKept(c) /\ CallKept(c)
           /\ powder'[c] = powder[c] /\ workspace'[c] = workspace[c]
           /\ \/ /\ nframes[c] >= batch[c].n /\ ArraysKept(c)
                 /\ pc'[c] = "layout" /\ result'[c] = result[c]
              \/ /\ nframes[c] < batch[c].n /\ arrays'[c] = Grown(c, 4) /\ nframes'[c] = batch[c].n
                 /\ pc'[c] = "layout" /\ result'[c] = result[c]
              \/ /\ nframes[c] < batch[c].n /\ nframes'[c] = nframes[c]
                 /\ \E made \in 0 .. 4 : arrays'[c] = Grown(c, made)
                 /\ pc'[c] = (IF layout[c] = NoLayout THEN "gone" ELSE "idle") /\ result'[c] = "memory"
<1> USE DEF GrowOutputs, Grow, object, buffers, family, Goto, Return
<1>1. Functions'
  BY AreFunctions DEF Functions
<1>2. ASSUME NEW d \in Ctx, d # c PROVE Same(d)
  BY <1>2 DEF Same, TypeOK
<1>3. info' = info /\ arg' = arg
  OBVIOUS
<1>4. /\ pc[c] = "outputs" /\ ObjectKept(c) /\ CallKept(c)
           /\ powder'[c] = powder[c] /\ workspace'[c] = workspace[c]
           /\ \/ /\ nframes[c] >= batch[c].n /\ ArraysKept(c)
                 /\ pc'[c] = "layout" /\ result'[c] = result[c]
              \/ /\ nframes[c] < batch[c].n /\ arrays'[c] = Grown(c, 4) /\ nframes'[c] = batch[c].n
                 /\ pc'[c] = "layout" /\ result'[c] = result[c]
              \/ /\ nframes[c] < batch[c].n /\ nframes'[c] = nframes[c]
                 /\ \E made \in 0 .. 4 : arrays'[c] = Grown(c, made)
                 /\ pc'[c] = (IF layout[c] = NoLayout THEN "gone" ELSE "idle") /\ result'[c] = "memory"
  <2>1. /\ pc[c] = "outputs" /\ ObjectKept(c) /\ CallKept(c)
        /\ powder'[c] = powder[c] /\ workspace'[c] = workspace[c]
    BY DEF TypeOK, SettledKept, ObjectKept, ArraysKept, BuffersKept, CallKept
  <2>2. nframes[c] \in Nat /\ batch[c].n \in Nat
    BY Types DEF TypeOK
  <2>3. CASE nframes[c] < batch[c].n
    <3>1. PICK made \in 0 .. 4 :
             /\ arrays' = [arrays EXCEPT ![c] = Grown(c, made)]
             /\ \/ made = 4 /\ Goto(c, "layout") /\ nframes' = [nframes EXCEPT ![c] = batch[c].n]
                \/ Return(c, "memory") /\ UNCHANGED nframes
      BY <2>3, SMT
    <3>2. arrays'[c] = Grown(c, made)
      BY <3>1 DEF TypeOK
    <3>3. CASE made = 4 /\ Goto(c, "layout") /\ nframes' = [nframes EXCEPT ![c] = batch[c].n]
      BY <2>1, <2>3, <3>2, <3>3 DEF TypeOK
    <3>4. CASE Return(c, "memory") /\ UNCHANGED nframes
      BY <2>1, <2>3, <3>2, <3>4 DEF TypeOK
    <3> QED
      BY <3>1, <3>3, <3>4
  <2>4. CASE nframes[c] >= batch[c].n
    <3>1. ~(nframes[c] < batch[c].n)
      BY <2>2, <2>4
    <3>2. Goto(c, "layout") /\ UNCHANGED <<arrays, nframes>>
      BY <3>1
    <3> QED
      BY <2>1, <2>4, <3>2 DEF TypeOK, ArraysKept
  <2> QED
    BY <2>2, <2>3, <2>4
<1> QED
  BY <1>1, <1>2, <1>3, <1>4 DEF Only

\* The new values of an object that takes LookUp.
LEMMA LookUpDoes ==
    ASSUME TypeOK, NEW c \in Ctx, LookUp(c)
    PROVE  /\ Only(c)
           /\ pc[c] \in {"new", "lookup"} /\ SettledKept(c) /\ pipe'[c] = pipe[c] /\ dot'[c] = dot[c]
           /\ BuffersKept(c) /\ CallKept(c) /\ result'[c] = result[c]
           /\ \/ Taken(c)
              \/ pc'[c] = "locking" /\ layout'[c] = layout[c]
<1> USE DEF LookUp, Take, object, buffers, family, Goto, Return
<1>1. Functions'
  BY AreFunctions DEF Functions
<1>2. ASSUME NEW d \in Ctx, d # c PROVE Same(d)
  BY <1>2 DEF Same, TypeOK
<1>3. info' = info /\ arg' = arg
  OBVIOUS
<1>4. /\ pc[c] \in {"new", "lookup"} /\ SettledKept(c) /\ pipe'[c] = pipe[c] /\ dot'[c] = dot[c]
           /\ BuffersKept(c) /\ CallKept(c) /\ result'[c] = result[c]
           /\ \/ Taken(c)
              \/ pc'[c] = "locking" /\ layout'[c] = layout[c]
  BY DEF SettledKept, ObjectKept, ArraysKept, BuffersKept, CallKept, TypeOK, Taken, Built
<1> QED
  BY <1>1, <1>2, <1>3, <1>4 DEF Only

\* The new values of an object that takes Lock.
LEMMA LockDoes ==
    ASSUME TypeOK, NEW c \in Ctx, Lock(c)
    PROVE  /\ Only(c)
           /\ pc[c] = "locking" /\ pc'[c] = "locked" /\ ObjectKept(c) /\ BuffersKept(c) /\ CallKept(c)
           /\ result'[c] = result[c] 
<1> USE DEF Lock, object, buffers, family, Goto, Return
<1>1. Functions'
  BY AreFunctions DEF Functions
<1>2. ASSUME NEW d \in Ctx, d # c PROVE Same(d)
  BY <1>2 DEF Same, TypeOK
<1>3. info' = info /\ arg' = arg
  OBVIOUS
<1>4. /\ pc[c] = "locking" /\ pc'[c] = "locked" /\ ObjectKept(c) /\ BuffersKept(c) /\ CallKept(c)
           /\ result'[c] = result[c] 
  BY DEF SettledKept, ObjectKept, ArraysKept, BuffersKept, CallKept, TypeOK
<1> QED
  BY <1>1, <1>2, <1>3, <1>4 DEF Only

\* The new values of an object that takes MakePowder.
LEMMA MakePowderDoes ==
    ASSUME TypeOK, NEW c \in Ctx, MakePowder(c)
    PROVE  /\ Only(c)
           /\ pc[c] = "powder" /\ ObjectKept(c) /\ ArraysKept(c) /\ workspace'[c] = workspace[c] /\ CallKept(c)
           /\ \/ powder'[c] = nframes[c] /\ pc'[c] = "workspace" /\ result'[c] = result[c]
              \/ /\ powder'[c] = powder[c] /\ result'[c] = "memory"
                 /\ pc'[c] = (IF layout[c] = NoLayout THEN "gone" ELSE "idle")
<1> USE DEF MakePowder, object, buffers, family, Goto, Return
<1>1. Functions'
  BY AreFunctions DEF Functions
<1>2. ASSUME NEW d \in Ctx, d # c PROVE Same(d)
  BY <1>2 DEF Same, TypeOK
<1>3. info' = info /\ arg' = arg
  OBVIOUS
<1>4. /\ pc[c] = "powder" /\ ObjectKept(c) /\ ArraysKept(c) /\ workspace'[c] = workspace[c] /\ CallKept(c)
           /\ \/ powder'[c] = nframes[c] /\ pc'[c] = "workspace" /\ result'[c] = result[c]
              \/ /\ powder'[c] = powder[c] /\ result'[c] = "memory"
                 /\ pc'[c] = (IF layout[c] = NoLayout THEN "gone" ELSE "idle")
  BY DEF SettledKept, ObjectKept, ArraysKept, BuffersKept, CallKept, TypeOK
<1> QED
  BY <1>1, <1>2, <1>3, <1>4 DEF Only

\* The new values of an object that takes MakeWorkspace.
LEMMA MakeWorkspaceDoes ==
    ASSUME TypeOK, NEW c \in Ctx, MakeWorkspace(c)
    PROVE  /\ Only(c)
           /\ pc[c] = "workspace" /\ ObjectKept(c) /\ ArraysKept(c) /\ powder'[c] = powder[c]
           /\ batch'[c] = batch[c] /\ calls'[c] = calls[c]
           /\ \/ /\ workspace'[c] \in Nat /\ workspace'[c] >= BlockElems(batch[c])
                 /\ callpipe'[c] = PipeOfTheCall(c) /\ pc'[c] = "driver" /\ result'[c] = result[c]
              \/ /\ workspace'[c] = workspace[c] /\ callpipe'[c] = callpipe[c] /\ result'[c] = "memory"
                 /\ pc'[c] = (IF layout[c] = NoLayout THEN "gone" ELSE "idle")
<1> USE DEF MakeWorkspace, object, buffers, family, Goto, Return
<1>1. Functions'
  BY AreFunctions DEF Functions
<1>2. ASSUME NEW d \in Ctx, d # c PROVE Same(d)
  BY <1>2 DEF Same, TypeOK
<1>3. info' = info /\ arg' = arg
  OBVIOUS
<1>4. /\ pc[c] = "workspace" /\ ObjectKept(c) /\ ArraysKept(c) /\ powder'[c] = powder[c]
           /\ batch'[c] = batch[c] /\ calls'[c] = calls[c]
           /\ \/ /\ workspace'[c] \in Nat /\ workspace'[c] >= BlockElems(batch[c])
                 /\ callpipe'[c] = PipeOfTheCall(c) /\ pc'[c] = "driver" /\ result'[c] = result[c]
              \/ /\ workspace'[c] = workspace[c] /\ callpipe'[c] = callpipe[c] /\ result'[c] = "memory"
                 /\ pc'[c] = (IF layout[c] = NoLayout THEN "gone" ELSE "idle")
  <2>1. /\ pc[c] = "workspace" /\ ObjectKept(c) /\ ArraysKept(c) /\ powder'[c] = powder[c]
        /\ batch'[c] = batch[c] /\ calls'[c] = calls[c]
    BY DEF TypeOK, SettledKept, ObjectKept, ArraysKept, BuffersKept, CallKept
  <2> DEFINE need == BlockElems(batch[c])
  <2>2. workspace[c] \in Nat /\ need \in Nat
    BY Types DEF TypeOK
  <2> HIDE DEF need
  <2>3. CASE /\ workspace' = [workspace EXCEPT ![c] = IF @ < need THEN need ELSE @]
             /\ callpipe' = [callpipe EXCEPT ![c] = PipeOfTheCall(c)]
             /\ Goto(c, "driver")
    <3>1. workspace'[c] = IF workspace[c] < need THEN need ELSE workspace[c]
      BY <2>3 DEF TypeOK
    <3>2. workspace'[c] \in Nat /\ workspace'[c] >= need
      BY <2>2, <3>1
    <3>3. callpipe'[c] = PipeOfTheCall(c) /\ pc'[c] = "driver" /\ result'[c] = result[c]
      BY <2>3 DEF TypeOK
    <3> QED
      BY <2>1, <3>2, <3>3 DEF need
  <2>4. CASE Return(c, "memory") /\ UNCHANGED <<workspace, callpipe>>
    BY <2>1, <2>4 DEF TypeOK
  <2> QED
    BY <2>3, <2>4 DEF need
<1> QED
  BY <1>1, <1>2, <1>3, <1>4 DEF Only

\* The new values of an object that takes Run.
LEMMA RunDoes ==
    ASSUME TypeOK, NEW c \in Ctx, Run(c)
    PROVE  /\ Only(c)
           /\ pc[c] = "driver" /\ ObjectKept(c) /\ BuffersKept(c) /\ CallKept(c)
           /\ pc'[c] = (IF layout[c] = NoLayout THEN "gone" ELSE "idle")
           /\ result'[c] = (IF WrongEntry(c) THEN "layout"
                 ELSE IF batch[c].kind = "chunks" /\ batch[c].first = "cut" THEN "corrupt"
                 ELSE IF WrongLayout(c) THEN "layout"
                 ELSE IF workspace[c] < BlockElems(batch[c]) THEN "too small"
                 ELSE IF Decodes(c) THEN "ok" ELSE "corrupt")
<1> USE DEF Run, object, buffers, family, Goto, Return
<1>1. Functions'
  BY AreFunctions DEF Functions
<1>2. ASSUME NEW d \in Ctx, d # c PROVE Same(d)
  BY <1>2 DEF Same, TypeOK
<1>3. info' = info /\ arg' = arg
  OBVIOUS
<1>4. /\ pc[c] = "driver" /\ ObjectKept(c) /\ BuffersKept(c) /\ CallKept(c)
           /\ pc'[c] = (IF layout[c] = NoLayout THEN "gone" ELSE "idle")
           /\ result'[c] = (IF WrongEntry(c) THEN "layout"
                 ELSE IF batch[c].kind = "chunks" /\ batch[c].first = "cut" THEN "corrupt"
                 ELSE IF WrongLayout(c) THEN "layout"
                 ELSE IF workspace[c] < BlockElems(batch[c]) THEN "too small"
                 ELSE IF Decodes(c) THEN "ok" ELSE "corrupt")
  BY DEF SettledKept, ObjectKept, ArraysKept, BuffersKept, CallKept, TypeOK
<1> QED
  BY <1>1, <1>2, <1>3, <1>4 DEF Only

\* The new values of an object that takes UnderTheLock.
LEMMA UnderTheLockDoes ==
    ASSUME TypeOK, NEW c \in Ctx, UnderTheLock(c)
    PROVE  /\ Only(c)
           /\ pc[c] = "locked" /\ SettledKept(c) /\ pipe'[c] = pipe[c] /\ dot'[c] = dot[c]
           /\ BuffersKept(c) /\ CallKept(c)
           /\ \/ Taken(c)
              \/ /\ layout'[c] = layout[c] /\ (CannotBuild(dot[c], Wanted(c)) \/ c \in Starved)
                 /\ result'[c] = (IF CannotBuild(dot[c], Wanted(c)) THEN "matrix" ELSE "memory")
                 /\ pc'[c] = (IF layout[c] = NoLayout THEN "gone" ELSE "idle")
<1> USE DEF UnderTheLock, Build, BuildAlways, Take, object, buffers, family, Goto, Return
<1>1. Functions'
  BY AreFunctions DEF Functions
<1>2. ASSUME NEW d \in Ctx, d # c PROVE Same(d)
  BY <1>2 DEF Same, TypeOK
<1>3. info' = info /\ arg' = arg
  OBVIOUS
<1>4. /\ pc[c] = "locked" /\ SettledKept(c) /\ pipe'[c] = pipe[c] /\ dot'[c] = dot[c]
           /\ BuffersKept(c) /\ CallKept(c)
           /\ \/ Taken(c)
              \/ /\ layout'[c] = layout[c] /\ (CannotBuild(dot[c], Wanted(c)) \/ c \in Starved)
                 /\ result'[c] = (IF CannotBuild(dot[c], Wanted(c)) THEN "matrix" ELSE "memory")
                 /\ pc'[c] = (IF layout[c] = NoLayout THEN "gone" ELSE "idle")
  <2>1. /\ pc[c] = "locked" /\ SettledKept(c) /\ pipe'[c] = pipe[c] /\ dot'[c] = dot[c]
        /\ BuffersKept(c) /\ CallKept(c)
    BY DEF TypeOK, SettledKept, ObjectKept, ArraysKept, BuffersKept, CallKept
  <2>2. ASSUME NEW l, l \in layouts', l.key = Sought(c), Take(c, l) PROVE Taken(c)
    BY <2>2 DEF Taken, TypeOK
  <2>3. CASE Built(Sought(c)) # {}
    <3>1. PICK l \in Built(Sought(c)) : Take(c, l) /\ UNCHANGED layouts
      BY <2>3
    <3> QED
      BY <2>1, <2>2, <3>1 DEF Built
  <2>4. CASE Built(Sought(c)) = {}
    <3> DEFINE l == [key |-> Sought(c), id |-> NextId]
    <3>1. l.key = Sought(c)
      OBVIOUS
    <3> HIDE DEF l
    <3>2. CASE layouts' = layouts \cup {l} /\ Take(c, l)
      BY <2>1, <2>2, <3>1, <3>2
    <3>3. CASE /\ CannotBuild(dot[c], Wanted(c)) \/ (c \in Starved /\ dot[c] # "csc")
               /\ Return(c, IF CannotBuild(dot[c], Wanted(c)) THEN "matrix" ELSE "memory")
               /\ UNCHANGED <<layouts, layout>>
      <4>1. /\ layout'[c] = layout[c]
            /\ result'[c] = (IF CannotBuild(dot[c], Wanted(c)) THEN "matrix" ELSE "memory")
            /\ pc'[c] = (IF layout[c] = NoLayout THEN "gone" ELSE "idle")
        BY <3>3 DEF TypeOK
      <4> QED
        BY <2>1, <3>3, <4>1
    <3> QED
      BY <2>4, <3>2, <3>3 DEF l
  <2> QED
    BY <2>3, <2>4
<1> QED
  BY <1>1, <1>2, <1>3, <1>4 DEF Only

-----------------------------------------------------------------------------
(* What the steps keep *)

\* _pixel_pipeline: the same dot, nothing to decode.
LEMMA Pixel ==
    ASSUME TypeOK, NEW c \in Ctx
    PROVE  /\ PixelPipeline(c) \in Pipe
           /\ PixelPipeline(c).decode = "pixels" /\ PixelPipeline(c).dot = dot[c]
<1>1. pipe[c] \in Pipe /\ pipe[c].dot = dot[c]
  BY DEF TypeOK
<1> QED
  BY <1>1 DEF PixelPipeline, Pipe

\* A pipeline with the plane mask.
LEMMA Masked ==
    ASSUME TypeOK, NEW c \in Ctx
    PROVE  /\ [pipe[c] EXCEPT !.mask = "planes"] \in Pipe
           /\ [pipe[c] EXCEPT !.mask = "planes"].decode = pipe[c].decode
           /\ [pipe[c] EXCEPT !.mask = "planes"].dot = pipe[c].dot
<1>1. pipe[c] \in Pipe
  BY DEF TypeOK
<1> QED
  BY <1>1 DEF Pipe

\* _codec_of_chunk answers with a codec.
LEMMA Seen ==
    ASSUME TypeOK, NEW c \in Ctx
    PROVE  _codec_of_chunk(batch[c]) \in Codecs
BY DecoderAssumption DEF _codec_of_chunk, Codecs

\* _resolve: the pipeline of a new object, for a codec.
LEMMA Resolved ==
    ASSUME TypeOK, NEW c \in Ctx, NEW cd \in Codecs
    PROVE  /\ Resolve(c, cd) \in Pipe /\ Resolve(c, cd).decode = cd
           /\ Resolve(c, cd).mask = "pixel" /\ Resolve(c, cd).dot = FirstDot(c)
<1>1. FirstDot(c) \in DotNames
  BY Types
<1>2. Resolve(c, cd) = [decode |-> cd, mask |-> "pixel", dot |-> FirstDot(c)]
  BY DEF Resolve, FirstDot
<1> QED
  BY <1>1, <1>2 DEF Pipe

\* _ensure_capacity made the first few of the arrays anew.
LEMMA GrownArrays ==
    ASSUME TypeOK, NEW c \in Ctx, NEW made \in 0 .. 4
    PROVE  /\ Grown(c, made) \in [{"values", "indices", "npx", "cursors"} -> Nat]
           /\ DOMAIN arrays[c] = {"values", "indices", "npx", "cursors"}
           /\ DOMAIN Grown(c, made) = DOMAIN arrays[c]
           /\ \A a \in DOMAIN Grown(c, made) : Grown(c, made)[a] \in {batch[c].n, arrays[c][a]}
           /\ made = 4 => \A a \in DOMAIN Grown(c, made) : Grown(c, made)[a] = batch[c].n
<1>1. arrays[c] \in [{"values", "indices", "npx", "cursors"} -> Nat] /\ batch[c].n \in Nat
  BY Types DEF TypeOK
<1>2. \A a \in {"values", "indices", "npx", "cursors"} : \E i \in 1 .. 4 : Arrays[i] = a
  BY DEF Arrays
<1> QED
  BY <1>1, <1>2 DEF Grown

\* Before the C code is called: PipelineFitsLayout, for one object.
LEMMA Fits ==
    ASSUME TypeOK, FamilyInv, NEW c \in Ctx, LayoutOf(c), DotOf(c), CallOf(c), pc[c] = "driver"
    PROVE  IF Behind(c) THEN c \in Starved /\ WrongEntry(c)
           ELSE callpipe[c].dot = layout[c].key.dot /\ ~WrongLayout(c)
<1>1. layout[c] \in layouts /\ layout[c] # NoLayout /\ layout[c].key.be \in {AnyBlock, BlockElems(batch[c])}
  BY DEF LayoutOf
<1>2. layout[c].key.dot \in DotNames /\ (layout[c].key.dot \in BlockDots <=> layout[c].key.be # AnyBlock)
  BY <1>1 DEF FamilyInv
<1>3. /\ dot[c] \in DotNames /\ callpipe[c] \in Pipe /\ pipe[c].dot = dot[c]
      /\ batch[c].kind \in {"chunks", "frames"}
  BY Types DEF TypeOK
<1>4. callpipe[c].dot \in DotNames
  BY <1>3 DEF Pipe
<1>5. \/ callpipe[c].dot = dot[c]
      \/ c \in Starved /\ callpipe[c].dot \notin BlockDots /\ dot[c] \in BlockDots
  BY <1>1, <1>3 DEF CallOf, Within
<1>6. \/ layout[c].key.dot = dot[c]
      \/ layout[c].key.dot \in BlockDots /\ dot[c] \notin BlockDots /\ c \in Starved
  BY <1>1 DEF DotOf, Looking
<1>7. CASE callpipe[c].dot = dot[c] /\ layout[c].key.dot = dot[c]
  BY <1>1, <1>2, <1>7 DEF Behind, WrongLayout
<1>8. CASE callpipe[c].dot = dot[c] /\ layout[c].key.dot # dot[c]
  BY <1>2, <1>4, <1>6, <1>8, Entries DEF Behind, WrongEntry
<1>9. CASE callpipe[c].dot # dot[c]
  BY <1>2, <1>4, <1>5, <1>6, <1>9, Entries DEF Behind, WrongEntry
<1> QED
  BY <1>7, <1>8, <1>9

\* What is known of an object, after Call.
LEMMA CallKeeps ==
    ASSUME IInv, NEW c \in Ctx, Call(c)
    PROVE  TypeOK' /\ Only(c) /\ FamilyInv' /\ layouts \subseteq layouts' /\ Object(c)'
<1> USE DEF SettledKept, ObjectKept, ArraysKept, BuffersKept, CallKept
<1>0. /\ TypeOK /\ TypeOf(c) /\ FamilyInv /\ LayoutOf(c) /\ DotOf(c) /\ PendingOf(c)
      /\ CallOf(c) /\ BuffersOf(c) /\ ResultOf(c)
  BY Known, TypesOf
<1>1. /\ Only(c)
     /\ pc[c] = "idle" /\ calls'[c] = calls[c] + 1 /\ batch'[c] \in Batch /\ result'[c] = result[c]
     /\ ObjectKept(c) /\ BuffersKept(c)
     /\ \/ batch'[c].kind = "frames" /\ pc'[c] = "outputs" /\ callpipe'[c] = PixelPipeline(c)
        \/ batch'[c].kind = "chunks" /\ pc'[c] = "codec" /\ callpipe'[c] = callpipe[c]
  BY <1>0, CallDoes
<1>2. layouts' = layouts /\ lock' \in Ctx \cup {Nobody}
  BY <1>0 DEF Call, TypeOK, family
<1>3. /\ arg[c] \in DotNames \cup {"auto"} /\ dot[c] \in DotNames /\ FirstDot(c) \in DotNames
      /\ batch[c] \in Batch /\ batch[c].n \in Nat /\ BlockElems(batch[c]) \in Nat \ {0}
      /\ batch[c].kind \in {"chunks", "frames"}
  BY <1>0, Types
<1>4. info' = info /\ arg' = arg /\ FirstDot(c)' = FirstDot(c) /\ \A be \in Nat : auto_dot(be)' = auto_dot(be)
  BY <1>1, Fixed DEF Only
<1>5. TypeOf(c)'
  <2>1. PixelPipeline(c) \in Pipe
    BY <1>0, Pixel
  <2>2. callpipe'[c] \in Pipe /\ calls'[c] \in Nat /\ pc'[c] \in Places
    BY <1>0, <1>1, <2>1 DEF TypeOf, Places
  <2> QED
    BY <1>0, <1>1, <2>2 DEF TypeOf
<1>6. TypeOK'
  BY <1>0, <1>1, <1>2, <1>5, TypesStep DEF TypeOK
<1>7. FamilyInv'
  BY <1>0, <1>2 DEF FamilyInv, LayoutsAreShared
<1>8. LayoutOf(c)'
  BY <1>0, <1>1, <1>2, <1>4 DEF LayoutOf
<1>9. DotOf(c)'
  BY <1>0, <1>1, <1>2, <1>3, <1>4 DEF DotOf, Wanted, Looking
<1>10. PendingOf(c)'
  BY <1>0, <1>1, <1>2, <1>4 DEF PendingOf
<1>11. CallOf(c)'
  <2>1. PixelPipeline(c).decode = "pixels" /\ PixelPipeline(c).dot = dot[c]
    BY <1>0, Pixel
  <2> QED
    BY <1>1, <2>1 DEF CallOf, Within
<1>12. BuffersOf(c)'
  BY <1>0, <1>1, <1>3 DEF BuffersOf, Within, TypeOf
<1>13. ResultOf(c)'
  BY <1>0, <1>1, <1>4 DEF ResultOf, Behind
<1> QED
  BY <1>1, <1>2, <1>6, <1>7, <1>8, <1>9, <1>10, <1>11, <1>12, <1>13 DEF Object

\* What is known of an object, after SettleCodec.
LEMMA SettleCodecKeeps ==
    ASSUME IInv, NEW c \in Ctx, SettleCodec(c)
    PROVE  TypeOK' /\ Only(c) /\ FamilyInv' /\ layouts \subseteq layouts' /\ Object(c)'
<1> USE DEF SettledKept, ObjectKept, ArraysKept, BuffersKept, CallKept
<1>0. /\ TypeOK /\ TypeOf(c) /\ FamilyInv /\ LayoutOf(c) /\ DotOf(c) /\ PendingOf(c)
      /\ CallOf(c) /\ BuffersOf(c) /\ ResultOf(c)
  BY Known, TypesOf
<1>1. /\ Only(c)
     /\ pc[c] = "codec" /\ pc'[c] = "mask" /\ result'[c] = result[c] /\ codecPending'[c] = FALSE
     /\ maskPending'[c] = maskPending[c] /\ dot'[c] = dot[c] /\ layout'[c] = layout[c]
     /\ BuffersKept(c) /\ CallKept(c)
     /\ \/ /\ codecPending[c] /\ codec'[c] = _codec_of_chunk(batch[c])
           /\ pipe'[c] = Resolve(c, _codec_of_chunk(batch[c]))
        \/ codec'[c] = codec[c] /\ pipe'[c] = pipe[c]
  BY <1>0, SettleCodecDoes
<1>2. layouts' = layouts /\ lock' \in Ctx \cup {Nobody}
  BY <1>0 DEF SettleCodec, TypeOK, family
<1>3. /\ arg[c] \in DotNames \cup {"auto"} /\ dot[c] \in DotNames /\ FirstDot(c) \in DotNames
      /\ batch[c] \in Batch /\ batch[c].n \in Nat /\ BlockElems(batch[c]) \in Nat \ {0}
      /\ batch[c].kind \in {"chunks", "frames"}
  BY <1>0, Types
<1>4. info' = info /\ arg' = arg /\ FirstDot(c)' = FirstDot(c) /\ \A be \in Nat : auto_dot(be)' = auto_dot(be)
  BY <1>1, Fixed DEF Only
<1>5. TypeOf(c)'
  <2>1. _codec_of_chunk(batch[c]) \in Codecs
    BY <1>0, Seen
  <2>2. /\ Resolve(c, _codec_of_chunk(batch[c])) \in Pipe
        /\ Resolve(c, _codec_of_chunk(batch[c])).decode = _codec_of_chunk(batch[c])
        /\ Resolve(c, _codec_of_chunk(batch[c])).dot = FirstDot(c)
    BY <1>0, <2>1, Resolved
  <2>3. codecPending[c] => dot[c] = FirstDot(c)
    BY <1>0 DEF PendingOf
  <2>4. pipe'[c] \in Pipe /\ codec'[c] \in Codecs /\ pipe'[c].decode = codec'[c] /\ pipe'[c].dot = dot[c]
    BY <1>0, <1>1, <2>1, <2>2, <2>3 DEF TypeOf
  <2> QED
    BY <1>0, <1>1, <2>4 DEF TypeOf, Places
<1>6. TypeOK'
  BY <1>0, <1>1, <1>2, <1>5, TypesStep DEF TypeOK
<1>7. FamilyInv'
  BY <1>0, <1>2 DEF FamilyInv, LayoutsAreShared
<1>8. LayoutOf(c)'
  BY <1>0, <1>1, <1>2, <1>4 DEF LayoutOf
<1>9. DotOf(c)'
  BY <1>0, <1>1, <1>2, <1>3, <1>4 DEF DotOf, Wanted, Looking
<1>10. PendingOf(c)'
  <2>1. Resolve(c, _codec_of_chunk(batch[c])).mask = "pixel"
    BY <1>0, Seen, Resolved
  <2> QED
    BY <1>0, <1>1, <2>1 DEF PendingOf
<1>11. CallOf(c)'
  BY <1>0, <1>1, <1>2, <1>4 DEF CallOf, Within
<1>12. BuffersOf(c)'
  BY <1>0, <1>1, <1>3 DEF BuffersOf, Within, TypeOf
<1>13. ResultOf(c)'
  BY <1>0, <1>1, <1>4 DEF ResultOf, Behind
<1> QED
  BY <1>1, <1>2, <1>6, <1>7, <1>8, <1>9, <1>10, <1>11, <1>12, <1>13 DEF Object

\* What is known of an object, after SettleMask.
LEMMA SettleMaskKeeps ==
    ASSUME IInv, NEW c \in Ctx, SettleMask(c)
    PROVE  TypeOK' /\ Only(c) /\ FamilyInv' /\ layouts \subseteq layouts' /\ Object(c)'
<1> USE DEF SettledKept, ObjectKept, ArraysKept, BuffersKept, CallKept
<1>0. /\ TypeOK /\ TypeOf(c) /\ FamilyInv /\ LayoutOf(c) /\ DotOf(c) /\ PendingOf(c)
      /\ CallOf(c) /\ BuffersOf(c) /\ ResultOf(c)
  BY Known, TypesOf
<1>1. /\ Only(c)
     /\ pc[c] = "mask" /\ pc'[c] = "outputs" /\ result'[c] = result[c] /\ maskPending'[c] = FALSE
     /\ codecPending'[c] = codecPending[c] /\ codec'[c] = codec[c]
     /\ dot'[c] = dot[c] /\ layout'[c] = layout[c] /\ BuffersKept(c) /\ CallKept(c)
     /\ pipe'[c] \in {pipe[c], [pipe[c] EXCEPT !.mask = "planes"]}
  BY <1>0, SettleMaskDoes
<1>2. layouts' = layouts /\ lock' \in Ctx \cup {Nobody}
  BY <1>0 DEF SettleMask, TypeOK, family
<1>3. /\ arg[c] \in DotNames \cup {"auto"} /\ dot[c] \in DotNames /\ FirstDot(c) \in DotNames
      /\ batch[c] \in Batch /\ batch[c].n \in Nat /\ BlockElems(batch[c]) \in Nat \ {0}
      /\ batch[c].kind \in {"chunks", "frames"}
  BY <1>0, Types
<1>4. info' = info /\ arg' = arg /\ FirstDot(c)' = FirstDot(c) /\ \A be \in Nat : auto_dot(be)' = auto_dot(be)
  BY <1>1, Fixed DEF Only
<1>5. TypeOf(c)'
  <2>1. /\ [pipe[c] EXCEPT !.mask = "planes"] \in Pipe
        /\ [pipe[c] EXCEPT !.mask = "planes"].decode = pipe[c].decode
        /\ [pipe[c] EXCEPT !.mask = "planes"].dot = pipe[c].dot
    BY <1>0, Masked
  <2>2. pipe'[c] \in Pipe /\ pipe'[c].decode = pipe[c].decode /\ pipe'[c].dot = pipe[c].dot
    BY <1>0, <1>1, <2>1 DEF TypeOf
  <2> QED
    BY <1>0, <1>1, <2>2 DEF TypeOf, Places, Results
<1>6. TypeOK'
  BY <1>0, <1>1, <1>2, <1>5, TypesStep DEF TypeOK
<1>7. FamilyInv'
  BY <1>0, <1>2 DEF FamilyInv, LayoutsAreShared
<1>8. LayoutOf(c)'
  BY <1>0, <1>1, <1>2, <1>4 DEF LayoutOf
<1>9. DotOf(c)'
  BY <1>0, <1>1, <1>2, <1>3, <1>4 DEF DotOf, Wanted, Looking
<1>10. PendingOf(c)'
  BY <1>0, <1>1, <1>2, <1>4 DEF PendingOf
<1>11. CallOf(c)'
  BY <1>0, <1>1, <1>2, <1>4 DEF CallOf, Within
<1>12. BuffersOf(c)'
  BY <1>0, <1>1, <1>3 DEF BuffersOf, Within, TypeOf
<1>13. ResultOf(c)'
  BY <1>0, <1>1, <1>4 DEF ResultOf, Behind
<1> QED
  BY <1>1, <1>2, <1>6, <1>7, <1>8, <1>9, <1>10, <1>11, <1>12, <1>13 DEF Object

\* What is known of an object, after GrowOutputs.
LEMMA GrowOutputsKeeps ==
    ASSUME IInv, NEW c \in Ctx, GrowOutputs(c)
    PROVE  TypeOK' /\ Only(c) /\ FamilyInv' /\ layouts \subseteq layouts' /\ Object(c)'
<1> USE DEF SettledKept, ObjectKept, ArraysKept, BuffersKept, CallKept
<1>0. /\ TypeOK /\ TypeOf(c) /\ FamilyInv /\ LayoutOf(c) /\ DotOf(c) /\ PendingOf(c)
      /\ CallOf(c) /\ BuffersOf(c) /\ ResultOf(c)
  BY Known, TypesOf
<1>1. /\ Only(c)
     /\ pc[c] = "outputs" /\ ObjectKept(c) /\ CallKept(c)
     /\ powder'[c] = powder[c] /\ workspace'[c] = workspace[c]
     /\ \/ /\ nframes[c] >= batch[c].n /\ ArraysKept(c)
           /\ pc'[c] = "layout" /\ result'[c] = result[c]
        \/ /\ nframes[c] < batch[c].n /\ arrays'[c] = Grown(c, 4) /\ nframes'[c] = batch[c].n
           /\ pc'[c] = "layout" /\ result'[c] = result[c]
        \/ /\ nframes[c] < batch[c].n /\ nframes'[c] = nframes[c]
           /\ \E made \in 0 .. 4 : arrays'[c] = Grown(c, made)
           /\ pc'[c] = (IF layout[c] = NoLayout THEN "gone" ELSE "idle") /\ result'[c] = "memory"
  BY <1>0, GrowOutputsDoes
<1>2. layouts' = layouts /\ lock' \in Ctx \cup {Nobody}
  BY <1>0 DEF GrowOutputs, TypeOK, family
<1>3. /\ arg[c] \in DotNames \cup {"auto"} /\ dot[c] \in DotNames /\ FirstDot(c) \in DotNames
      /\ batch[c] \in Batch /\ batch[c].n \in Nat /\ BlockElems(batch[c]) \in Nat \ {0}
      /\ batch[c].kind \in {"chunks", "frames"}
  BY <1>0, Types
<1>4. info' = info /\ arg' = arg /\ FirstDot(c)' = FirstDot(c) /\ \A be \in Nat : auto_dot(be)' = auto_dot(be)
  BY <1>1, Fixed DEF Only
<1>5. TypeOf(c)'
  <2>1. \A made \in 0 .. 4 : Grown(c, made) \in [{"values", "indices", "npx", "cursors"} -> Nat]
    BY <1>0, GrownArrays
  <2>2. arrays'[c] \in [{"values", "indices", "npx", "cursors"} -> Nat]
    BY <1>0, <1>1, <2>1 DEF TypeOf
  <2>3. nframes'[c] \in Nat
    BY <1>0, <1>1, <1>3 DEF TypeOf
  <2> QED
    BY <1>0, <1>1, <2>2, <2>3 DEF TypeOf, Places, Results
<1>6. TypeOK'
  BY <1>0, <1>1, <1>2, <1>5, TypesStep DEF TypeOK
<1>7. FamilyInv'
  BY <1>0, <1>2 DEF FamilyInv, LayoutsAreShared
<1>8. LayoutOf(c)'
  BY <1>0, <1>1, <1>2, <1>4 DEF LayoutOf
<1>9. DotOf(c)'
  BY <1>0, <1>1, <1>2, <1>3, <1>4 DEF DotOf, Wanted, Looking
<1>10. PendingOf(c)'
  BY <1>0, <1>1, <1>2, <1>4 DEF PendingOf
<1>11. CallOf(c)'
  BY <1>0, <1>1, <1>2, <1>4 DEF CallOf, Within
<1>12. BuffersOf(c)'
  <2>1. layout[c] # NoLayout /\ layout'[c] # NoLayout /\ nframes[c] \in Nat
    BY <1>0, <1>1 DEF LayoutOf, TypeOf
  <2>2. CASE nframes[c] >= batch[c].n /\ ArraysKept(c)
    BY <1>0, <1>1, <2>1, <2>2 DEF BuffersOf
  <2>3. CASE nframes[c] < batch[c].n /\ arrays'[c] = Grown(c, 4) /\ nframes'[c] = batch[c].n
    <3>1. \A a \in DOMAIN arrays'[c] : arrays'[c][a] = batch[c].n
      BY <1>0, <2>3, GrownArrays
    <3> QED
      BY <1>1, <1>3, <2>3, <3>1 DEF BuffersOf, Within
  <2>4. CASE /\ nframes[c] < batch[c].n /\ nframes'[c] = nframes[c]
             /\ \E made \in 0 .. 4 : arrays'[c] = Grown(c, made)
             /\ pc'[c] = (IF layout[c] = NoLayout THEN "gone" ELSE "idle") /\ result'[c] = "memory"
    <3>1. PICK made \in 0 .. 4 : arrays'[c] = Grown(c, made)
      BY <2>4
    <3>2. \A a \in DOMAIN arrays[c] : arrays[c][a] >= nframes[c]
      BY <1>0 DEF BuffersOf
    <3>3. \A a \in DOMAIN arrays'[c] : arrays'[c][a] >= nframes[c]
      <4>1. \A a \in DOMAIN arrays[c] : arrays[c][a] \in Nat
        BY <1>0 DEF TypeOf
      <4> QED
        BY <1>0, <1>3, <2>1, <2>4, <3>1, <3>2, <4>1, GrownArrays
    <3> QED
      BY <1>1, <2>1, <2>4, <3>3 DEF BuffersOf, Within
  <2> QED
    BY <1>1, <2>2, <2>3, <2>4
<1>13. ResultOf(c)'
  BY <1>0, <1>1, <1>4 DEF ResultOf, Behind
<1> QED
  BY <1>1, <1>2, <1>6, <1>7, <1>8, <1>9, <1>10, <1>11, <1>12, <1>13 DEF Object

\* What is known of an object, after CheckLayout.
LEMMA CheckLayoutKeeps ==
    ASSUME IInv, NEW c \in Ctx, CheckLayout(c)
    PROVE  TypeOK' /\ Only(c) /\ FamilyInv' /\ layouts \subseteq layouts' /\ Object(c)'
<1> USE DEF SettledKept, ObjectKept, ArraysKept, BuffersKept, CallKept
<1>0. /\ TypeOK /\ TypeOf(c) /\ FamilyInv /\ LayoutOf(c) /\ DotOf(c) /\ PendingOf(c)
      /\ CallOf(c) /\ BuffersOf(c) /\ ResultOf(c)
  BY Known, TypesOf
<1>1. /\ Only(c)
     /\ pc[c] = "layout" /\ result'[c] = result[c] /\ SettledKept(c)
     /\ layout'[c] = layout[c] /\ BuffersKept(c) /\ CallKept(c)
     /\ \/ /\ OtherBlockSize(c) /\ pc'[c] = "lookup"
           /\ dot'[c] = (IF arg[c] = "auto" THEN auto_dot(BlockElems(batch[c])) ELSE dot[c])
           /\ pipe'[c] = [pipe[c] EXCEPT !.dot = dot'[c]]
        \/ ~OtherBlockSize(c) /\ pc'[c] = "powder" /\ dot'[c] = dot[c] /\ pipe'[c] = pipe[c]
  BY <1>0, CheckLayoutDoes
<1>2. layouts' = layouts /\ lock' \in Ctx \cup {Nobody}
  BY <1>0 DEF CheckLayout, TypeOK, family
<1>3. /\ arg[c] \in DotNames \cup {"auto"} /\ dot[c] \in DotNames /\ FirstDot(c) \in DotNames
      /\ batch[c] \in Batch /\ batch[c].n \in Nat /\ BlockElems(batch[c]) \in Nat \ {0}
      /\ batch[c].kind \in {"chunks", "frames"}
  BY <1>0, Types
<1>4. info' = info /\ arg' = arg /\ FirstDot(c)' = FirstDot(c) /\ \A be \in Nat : auto_dot(be)' = auto_dot(be)
  BY <1>1, Fixed DEF Only
<1>5. TypeOf(c)'
  <2>1. dot'[c] \in DotNames
    BY <1>0, <1>1, <1>3, AutoDot
  <2>2. /\ [pipe[c] EXCEPT !.dot = dot'[c]] \in Pipe /\ [pipe[c] EXCEPT !.dot = dot'[c]].dot = dot'[c]
        /\ [pipe[c] EXCEPT !.dot = dot'[c]].decode = pipe[c].decode
    BY <1>0, <2>1 DEF Pipe, TypeOf
  <2>3. pipe'[c] \in Pipe /\ pipe'[c].dot = dot'[c] /\ pipe'[c].decode = pipe[c].decode
    BY <1>0, <1>1, <2>2 DEF TypeOf
  <2> QED
    BY <1>0, <1>1, <2>1, <2>3 DEF TypeOf, Places, Results
<1>6. TypeOK'
  BY <1>0, <1>1, <1>2, <1>5, TypesStep DEF TypeOK
<1>7. FamilyInv'
  BY <1>0, <1>2 DEF FamilyInv, LayoutsAreShared
<1>8. LayoutOf(c)'
  <2>1. layout[c] # NoLayout
    BY <1>0, <1>1 DEF LayoutOf
  <2> QED
    BY <1>0, <1>1, <1>2, <2>1 DEF LayoutOf, OtherBlockSize
<1>9. DotOf(c)'
  <2>1. layout[c] # NoLayout /\ (OtherBlockSize(c) => layout[c].key.be # AnyBlock)
    BY <1>0, <1>1 DEF LayoutOf, OtherBlockSize
  <2>2. layout[c] \in layouts /\ (OtherBlockSize(c) => layout[c].key.dot \in BlockDots)
    BY <1>0, <2>1 DEF LayoutOf, FamilyInv
  <2>3. auto_dot(BlockElems(batch[c])) \in BlockDots => auto_dot(BlockElems(batch[c])) = auto_dot(DefaultElems)
    BY <1>0, <1>3, AutoDot
  <2>4. CASE ~OtherBlockSize(c)
    BY <1>0, <1>1, <1>4, <2>4 DEF DotOf, Looking
  <2>5. CASE OtherBlockSize(c) /\ arg[c] # "auto"
    BY <1>0, <1>1, <1>4, <2>1, <2>5 DEF DotOf, FirstDot
  <2>6. CASE OtherBlockSize(c) /\ arg[c] = "auto"
    <3> DEFINE be == BlockElems(batch[c])
    <3>1. FirstDot(c) = auto_dot(DefaultElems)
      BY <2>6 DEF FirstDot
    <3>2. dot'[c] = auto_dot(be) /\ arg'[c] = "auto" /\ pc'[c] = "lookup" /\ layout'[c] = layout[c]
      BY <1>1, <1>4, <2>6
    <3>3. Wanted(c)' = be /\ auto_dot(Wanted(c))' = auto_dot(be)
      <4>1. Wanted(c)' = be
        BY <1>1 DEF Wanted
      <4> QED
        BY <4>1, <1>1, <1>4 DEF auto_dot, Wanted
    <3>4. dot'[c] = FirstDot(c) \/ dot'[c] \notin BlockDots
      BY <2>3, <3>1, <3>2
    <3>5. layout[c].key.dot = FirstDot(c) /\ FirstDot(c) \in BlockDots
      BY <1>0, <2>1, <2>2, <2>6 DEF DotOf
    <3> QED
      BY <1>4, <3>2, <3>3, <3>4, <3>5 DEF DotOf, Looking
  <2> QED
    BY <2>4, <2>5, <2>6
<1>10. PendingOf(c)'
  <2>1. codecPending[c] => ~OtherBlockSize(c)
    BY <1>0, <1>1 DEF PendingOf, OtherBlockSize, BlockElems
  <2>2. [pipe[c] EXCEPT !.dot = dot'[c]].mask = pipe[c].mask
    BY <1>0 DEF TypeOf, Pipe
  <2> QED
    BY <1>0, <1>1, <1>4, <2>1, <2>2 DEF PendingOf
<1>11. CallOf(c)'
  <2>1. layout[c] # NoLayout /\ pc[c] \in Within \cup {"outputs"} /\ pc'[c] \notin {"driver", "codec", "mask"}
    BY <1>0, <1>1 DEF LayoutOf, Within
  <2>2. SUFFICES ASSUME batch[c].kind = "frames"
                 PROVE  /\ callpipe[c].decode = "pixels"
                        /\ \/ callpipe[c].dot = dot'[c]
                           \/ c \in Starved /\ callpipe[c].dot \notin BlockDots /\ dot'[c] \in BlockDots
    BY <1>1, <2>1 DEF CallOf
  <2>3. /\ callpipe[c].decode = "pixels"
        /\ \/ callpipe[c].dot = dot[c]
           \/ c \in Starved /\ callpipe[c].dot \notin BlockDots /\ dot[c] \in BlockDots
    BY <1>0, <2>1, <2>2 DEF CallOf
  <2>4. CASE dot'[c] = dot[c]
    BY <2>3, <2>4
  <2>5. CASE OtherBlockSize(c) /\ arg[c] = "auto" /\ dot'[c] # dot[c]
    <3>1. dot'[c] = FirstDot(c)
      BY <1>1, <2>2, <2>5 DEF FirstDot, BlockElems
    <3>2. layout[c].key.dot \in BlockDots
      BY <1>0, <2>1, <2>5 DEF LayoutOf, FamilyInv, OtherBlockSize
    <3>3. dot[c] \notin BlockDots
      BY <1>0, <2>5, <3>1 DEF DotOf
    <3>4. FirstDot(c) \in BlockDots /\ c \in Starved
      BY <1>0, <1>1, <2>1, <3>2, <3>3 DEF DotOf, Looking
    <3> QED
      BY <2>3, <3>1, <3>3, <3>4
  <2> QED
    BY <1>1, <2>4, <2>5
<1>12. BuffersOf(c)'
  BY <1>0, <1>1, <1>3 DEF BuffersOf, Within, TypeOf
<1>13. ResultOf(c)'
  BY <1>0, <1>1, <1>4 DEF ResultOf, Behind
<1> QED
  BY <1>1, <1>2, <1>6, <1>7, <1>8, <1>9, <1>10, <1>11, <1>12, <1>13 DEF Object

\* What is known of an object, after LookUp.
LEMMA LookUpKeeps ==
    ASSUME IInv, NEW c \in Ctx, LookUp(c)
    PROVE  TypeOK' /\ Only(c) /\ FamilyInv' /\ layouts \subseteq layouts' /\ Object(c)'
<1> USE DEF SettledKept, ObjectKept, ArraysKept, BuffersKept, CallKept
<1>0. /\ TypeOK /\ TypeOf(c) /\ FamilyInv /\ LayoutOf(c) /\ DotOf(c) /\ PendingOf(c)
      /\ CallOf(c) /\ BuffersOf(c) /\ ResultOf(c)
  BY Known, TypesOf
<1>1. /\ Only(c)
     /\ pc[c] \in {"new", "lookup"} /\ SettledKept(c) /\ pipe'[c] = pipe[c] /\ dot'[c] = dot[c]
     /\ BuffersKept(c) /\ CallKept(c) /\ result'[c] = result[c]
     /\ \/ Taken(c)
        \/ pc'[c] = "locking" /\ layout'[c] = layout[c]
  BY <1>0, LookUpDoes
<1>2. layouts' = layouts /\ lock' \in Ctx \cup {Nobody}
  BY <1>0 DEF LookUp, TypeOK, family
<1>3. /\ arg[c] \in DotNames \cup {"auto"} /\ dot[c] \in DotNames /\ FirstDot(c) \in DotNames
      /\ batch[c] \in Batch /\ batch[c].n \in Nat /\ BlockElems(batch[c]) \in Nat \ {0}
      /\ batch[c].kind \in {"chunks", "frames"}
  BY <1>0, Types
<1>4. info' = info /\ arg' = arg /\ FirstDot(c)' = FirstDot(c) /\ \A be \in Nat : auto_dot(be)' = auto_dot(be)
  BY <1>1, Fixed DEF Only
<1>5. TypeOf(c)'
  <2>1. layout'[c] \in Lay
    BY <1>0, <1>1, <1>2 DEF TypeOf, TypeOK, Taken
  <2> QED
    BY <1>0, <1>1, <2>1 DEF TypeOf, Places, Results, Taken
<1>6. TypeOK'
  BY <1>0, <1>1, <1>2, <1>5, TypesStep DEF TypeOK
<1>7. FamilyInv'
  BY <1>0, <1>2 DEF FamilyInv, LayoutsAreShared
<1>8. LayoutOf(c)'
  <2>1. CASE Taken(c)
    <3>1. layout'[c] \in layouts' /\ layout'[c].key = Key(dot[c], BlockElems(batch[c]))
      BY <2>1 DEF Taken, Sought, Wanted
    <3>2. layout'[c] # NoLayout /\ layout'[c].key.be \in {AnyBlock, BlockElems(batch[c])}
      BY <1>3, <3>1 DEF Key, NoLayout, DotNames, BlockDots
    <3>3. pc'[c] \in {"idle", "powder"}
      BY <2>1 DEF Taken
    <3> QED
      BY <1>1, <3>1, <3>2, <3>3 DEF LayoutOf
  <2>2. CASE ~Taken(c)
    BY <1>0, <1>1, <1>2, <2>2 DEF LayoutOf
  <2> QED
    BY <2>1, <2>2
<1>9. DotOf(c)'
  <2>1. CASE Taken(c)
    <3>1. layout'[c].key.dot = dot[c] /\ pc'[c] \in {"idle", "powder"}
      BY <2>1 DEF Taken, Sought, Key
    <3> QED
      BY <1>0, <1>1, <1>4, <3>1 DEF DotOf, Looking
  <2>2. CASE ~Taken(c)
    <3>1. Wanted(c)' = Wanted(c)
      BY <1>1 DEF Wanted
    <3>2. auto_dot(Wanted(c))' = auto_dot(Wanted(c))
      BY <1>1, <1>4 DEF auto_dot, Wanted
    <3> QED
      BY <1>0, <1>1, <1>4, <2>2, <3>1, <3>2 DEF DotOf, Looking
  <2> QED
    BY <2>1, <2>2
<1>10. PendingOf(c)'
  <2>1. CASE Taken(c)
    <3>1. codecPending[c] => layout'[c].key.be \in {AnyBlock, DefaultElems}
      BY <1>0, <1>1, <2>1 DEF PendingOf, Taken, Sought, Key, Wanted, BlockElems
    <3> QED
      BY <1>0, <1>1, <1>4, <2>1, <3>1 DEF PendingOf, Taken
  <2>2. CASE ~Taken(c)
    BY <1>0, <1>1, <1>4, <2>2 DEF PendingOf
  <2> QED
    BY <2>1, <2>2
<1>11. CallOf(c)'
  <2>1. CASE layout[c] = NoLayout
    <3>1. pc'[c] \in {"idle", "gone"} \/ (layout'[c] = NoLayout /\ pc'[c] \notin {"codec", "mask", "driver"})
      BY <1>0, <1>1, <2>1 DEF Taken
    <3> QED
      BY <1>1, <3>1 DEF CallOf, Within
  <2>2. CASE layout[c] # NoLayout
    <3>1. pc[c] \in Within /\ pc'[c] \notin {"codec", "mask", "driver"}
      BY <1>0, <1>1, <2>2 DEF LayoutOf, Within, Taken
    <3> QED
      BY <1>0, <1>1, <2>2, <3>1 DEF CallOf
  <2> QED
    BY <2>1, <2>2
<1>12. BuffersOf(c)'
  <2>1. CASE layout[c] = NoLayout
    <3>1. pc'[c] \in {"idle", "gone"} \/ (layout'[c] = NoLayout /\ pc'[c] \notin {"workspace", "driver"})
      BY <1>0, <1>1, <2>1 DEF Taken
    <3> QED
      BY <1>0, <1>1, <3>1 DEF BuffersOf, Within
  <2>2. CASE layout[c] # NoLayout
    <3>1. pc[c] \in Within /\ pc'[c] \notin {"workspace", "driver"}
      BY <1>0, <1>1, <2>2 DEF LayoutOf, Within, Taken
    <3> QED
      BY <1>0, <1>1, <2>2, <3>1 DEF BuffersOf
  <2> QED
    BY <2>1, <2>2
<1>13. ResultOf(c)'
  <2>1. pc'[c] = "idle" => calls'[c] = 0
    BY <1>0, <1>1 DEF LayoutOf, Taken
  <2> QED
    BY <2>1 DEF ResultOf
<1> QED
  BY <1>1, <1>2, <1>6, <1>7, <1>8, <1>9, <1>10, <1>11, <1>12, <1>13 DEF Object

\* What is known of an object, after Lock.
LEMMA LockKeeps ==
    ASSUME IInv, NEW c \in Ctx, Lock(c)
    PROVE  TypeOK' /\ Only(c) /\ FamilyInv' /\ layouts \subseteq layouts' /\ Object(c)'
<1> USE DEF SettledKept, ObjectKept, ArraysKept, BuffersKept, CallKept
<1>0. /\ TypeOK /\ TypeOf(c) /\ FamilyInv /\ LayoutOf(c) /\ DotOf(c) /\ PendingOf(c)
      /\ CallOf(c) /\ BuffersOf(c) /\ ResultOf(c)
  BY Known, TypesOf
<1>1. /\ Only(c)
     /\ pc[c] = "locking" /\ pc'[c] = "locked" /\ ObjectKept(c) /\ BuffersKept(c) /\ CallKept(c)
     /\ result'[c] = result[c]
  BY <1>0, LockDoes
<1>2. layouts' = layouts /\ lock' \in Ctx \cup {Nobody}
  BY <1>0 DEF Lock, TypeOK, family
<1>3. /\ arg[c] \in DotNames \cup {"auto"} /\ dot[c] \in DotNames /\ FirstDot(c) \in DotNames
      /\ batch[c] \in Batch /\ batch[c].n \in Nat /\ BlockElems(batch[c]) \in Nat \ {0}
      /\ batch[c].kind \in {"chunks", "frames"}
  BY <1>0, Types
<1>4. info' = info /\ arg' = arg /\ FirstDot(c)' = FirstDot(c) /\ \A be \in Nat : auto_dot(be)' = auto_dot(be)
  BY <1>1, Fixed DEF Only
<1>5. TypeOf(c)'
  BY <1>0, <1>1, <1>3 DEF TypeOf, Places, Results
<1>6. TypeOK'
  BY <1>0, <1>1, <1>2, <1>5, TypesStep DEF TypeOK
<1>7. FamilyInv'
  BY <1>0, <1>2 DEF FamilyInv, LayoutsAreShared
<1>8. LayoutOf(c)'
  BY <1>0, <1>1, <1>2, <1>4 DEF LayoutOf
<1>9. DotOf(c)'
  BY <1>0, <1>1, <1>2, <1>3, <1>4 DEF DotOf, Wanted, Looking
<1>10. PendingOf(c)'
  BY <1>0, <1>1, <1>2, <1>4 DEF PendingOf
<1>11. CallOf(c)'
  BY <1>0, <1>1, <1>2, <1>4 DEF CallOf, Within
<1>12. BuffersOf(c)'
  BY <1>0, <1>1, <1>3 DEF BuffersOf, Within, TypeOf
<1>13. ResultOf(c)'
  BY <1>0, <1>1, <1>4 DEF ResultOf, Behind
<1> QED
  BY <1>1, <1>2, <1>6, <1>7, <1>8, <1>9, <1>10, <1>11, <1>12, <1>13 DEF Object

\* What is known of an object, after MakePowder.
LEMMA MakePowderKeeps ==
    ASSUME IInv, NEW c \in Ctx, MakePowder(c)
    PROVE  TypeOK' /\ Only(c) /\ FamilyInv' /\ layouts \subseteq layouts' /\ Object(c)'
<1> USE DEF SettledKept, ObjectKept, ArraysKept, BuffersKept, CallKept
<1>0. /\ TypeOK /\ TypeOf(c) /\ FamilyInv /\ LayoutOf(c) /\ DotOf(c) /\ PendingOf(c)
      /\ CallOf(c) /\ BuffersOf(c) /\ ResultOf(c)
  BY Known, TypesOf
<1>1. /\ Only(c)
     /\ pc[c] = "powder" /\ ObjectKept(c) /\ ArraysKept(c) /\ workspace'[c] = workspace[c] /\ CallKept(c)
     /\ \/ powder'[c] = nframes[c] /\ pc'[c] = "workspace" /\ result'[c] = result[c]
        \/ /\ powder'[c] = powder[c] /\ result'[c] = "memory"
           /\ pc'[c] = (IF layout[c] = NoLayout THEN "gone" ELSE "idle")
  BY <1>0, MakePowderDoes
<1>2. layouts' = layouts /\ lock' \in Ctx \cup {Nobody}
  BY <1>0 DEF MakePowder, TypeOK, family
<1>3. /\ arg[c] \in DotNames \cup {"auto"} /\ dot[c] \in DotNames /\ FirstDot(c) \in DotNames
      /\ batch[c] \in Batch /\ batch[c].n \in Nat /\ BlockElems(batch[c]) \in Nat \ {0}
      /\ batch[c].kind \in {"chunks", "frames"}
  BY <1>0, Types
<1>4. info' = info /\ arg' = arg /\ FirstDot(c)' = FirstDot(c) /\ \A be \in Nat : auto_dot(be)' = auto_dot(be)
  BY <1>1, Fixed DEF Only
<1>5. TypeOf(c)'
  BY <1>0, <1>1, <1>3 DEF TypeOf, Places, Results
<1>6. TypeOK'
  BY <1>0, <1>1, <1>2, <1>5, TypesStep DEF TypeOK
<1>7. FamilyInv'
  BY <1>0, <1>2 DEF FamilyInv, LayoutsAreShared
<1>8. LayoutOf(c)'
  BY <1>0, <1>1, <1>2, <1>4 DEF LayoutOf
<1>9. DotOf(c)'
  BY <1>0, <1>1, <1>2, <1>3, <1>4 DEF DotOf, Wanted, Looking
<1>10. PendingOf(c)'
  BY <1>0, <1>1, <1>2, <1>4 DEF PendingOf
<1>11. CallOf(c)'
  BY <1>0, <1>1, <1>2, <1>4 DEF CallOf, Within
<1>12. BuffersOf(c)'
  BY <1>0, <1>1, <1>3 DEF BuffersOf, Within, TypeOf
<1>13. ResultOf(c)'
  BY <1>0, <1>1, <1>4 DEF ResultOf, Behind
<1> QED
  BY <1>1, <1>2, <1>6, <1>7, <1>8, <1>9, <1>10, <1>11, <1>12, <1>13 DEF Object

\* What is known of an object, after MakeWorkspace.
LEMMA MakeWorkspaceKeeps ==
    ASSUME IInv, NEW c \in Ctx, MakeWorkspace(c)
    PROVE  TypeOK' /\ Only(c) /\ FamilyInv' /\ layouts \subseteq layouts' /\ Object(c)'
<1> USE DEF SettledKept, ObjectKept, ArraysKept, BuffersKept, CallKept
<1>0. /\ TypeOK /\ TypeOf(c) /\ FamilyInv /\ LayoutOf(c) /\ DotOf(c) /\ PendingOf(c)
      /\ CallOf(c) /\ BuffersOf(c) /\ ResultOf(c)
  BY Known, TypesOf
<1>1. /\ Only(c)
     /\ pc[c] = "workspace" /\ ObjectKept(c) /\ ArraysKept(c) /\ powder'[c] = powder[c]
     /\ batch'[c] = batch[c] /\ calls'[c] = calls[c]
     /\ \/ /\ workspace'[c] \in Nat /\ workspace'[c] >= BlockElems(batch[c])
           /\ callpipe'[c] = PipeOfTheCall(c) /\ pc'[c] = "driver" /\ result'[c] = result[c]
        \/ /\ workspace'[c] = workspace[c] /\ callpipe'[c] = callpipe[c] /\ result'[c] = "memory"
           /\ pc'[c] = (IF layout[c] = NoLayout THEN "gone" ELSE "idle")
  BY <1>0, MakeWorkspaceDoes
<1>2. layouts' = layouts /\ lock' \in Ctx \cup {Nobody}
  BY <1>0 DEF MakeWorkspace, TypeOK, family
<1>3. /\ arg[c] \in DotNames \cup {"auto"} /\ dot[c] \in DotNames /\ FirstDot(c) \in DotNames
      /\ batch[c] \in Batch /\ batch[c].n \in Nat /\ BlockElems(batch[c]) \in Nat \ {0}
      /\ batch[c].kind \in {"chunks", "frames"}
  BY <1>0, Types
<1>4. info' = info /\ arg' = arg /\ FirstDot(c)' = FirstDot(c) /\ \A be \in Nat : auto_dot(be)' = auto_dot(be)
  BY <1>1, Fixed DEF Only
<1>5. TypeOf(c)'
  <2>1. PipeOfTheCall(c) \in Pipe
    BY <1>0 DEF PipeOfTheCall, TypeOf
  <2> QED
    BY <1>0, <1>1, <2>1 DEF TypeOf, Places, Results
<1>6. TypeOK'
  BY <1>0, <1>1, <1>2, <1>5, TypesStep DEF TypeOK
<1>7. FamilyInv'
  BY <1>0, <1>2 DEF FamilyInv, LayoutsAreShared
<1>8. LayoutOf(c)'
  BY <1>0, <1>1, <1>2, <1>4 DEF LayoutOf
<1>9. DotOf(c)'
  BY <1>0, <1>1, <1>2, <1>3, <1>4 DEF DotOf, Wanted, Looking
<1>10. PendingOf(c)'
  BY <1>0, <1>1, <1>2, <1>4 DEF PendingOf
<1>11. CallOf(c)'
  <2>1. layout[c] # NoLayout /\ pc[c] \in Within
    BY <1>0, <1>1 DEF LayoutOf, Within
  <2>2. CASE pc'[c] = "driver"
    BY <1>0, <1>1, <2>1, <2>2 DEF CallOf, PipeOfTheCall
  <2>3. CASE pc'[c] \in {"idle", "gone"}
    BY <1>0, <1>1, <2>3 DEF CallOf, Within
  <2> QED
    BY <1>1, <2>2, <2>3
<1>12. BuffersOf(c)'
  BY <1>0, <1>1, <1>3 DEF BuffersOf, Within, TypeOf
<1>13. ResultOf(c)'
  BY <1>0, <1>1, <1>4 DEF ResultOf, Behind
<1> QED
  BY <1>1, <1>2, <1>6, <1>7, <1>8, <1>9, <1>10, <1>11, <1>12, <1>13 DEF Object

\* What is known of an object, after Run.
LEMMA RunKeeps ==
    ASSUME IInv, NEW c \in Ctx, Run(c)
    PROVE  TypeOK' /\ Only(c) /\ FamilyInv' /\ layouts \subseteq layouts' /\ Object(c)'
<1> USE DEF SettledKept, ObjectKept, ArraysKept, BuffersKept, CallKept
<1>0. /\ TypeOK /\ TypeOf(c) /\ FamilyInv /\ LayoutOf(c) /\ DotOf(c) /\ PendingOf(c)
      /\ CallOf(c) /\ BuffersOf(c) /\ ResultOf(c)
  BY Known, TypesOf
<1>1. /\ Only(c)
     /\ pc[c] = "driver" /\ ObjectKept(c) /\ BuffersKept(c) /\ CallKept(c)
     /\ pc'[c] = (IF layout[c] = NoLayout THEN "gone" ELSE "idle")
     /\ result'[c] = (IF WrongEntry(c) THEN "layout"
           ELSE IF batch[c].kind = "chunks" /\ batch[c].first = "cut" THEN "corrupt"
           ELSE IF WrongLayout(c) THEN "layout"
           ELSE IF workspace[c] < BlockElems(batch[c]) THEN "too small"
           ELSE IF Decodes(c) THEN "ok" ELSE "corrupt")
  BY <1>0, RunDoes
<1>2. layouts' = layouts /\ lock' \in Ctx \cup {Nobody}
  BY <1>0 DEF Run, TypeOK, family
<1>3. /\ arg[c] \in DotNames \cup {"auto"} /\ dot[c] \in DotNames /\ FirstDot(c) \in DotNames
      /\ batch[c] \in Batch /\ batch[c].n \in Nat /\ BlockElems(batch[c]) \in Nat \ {0}
      /\ batch[c].kind \in {"chunks", "frames"}
  BY <1>0, Types
<1>4. info' = info /\ arg' = arg /\ FirstDot(c)' = FirstDot(c) /\ \A be \in Nat : auto_dot(be)' = auto_dot(be)
  BY <1>1, Fixed DEF Only
<1>5. TypeOf(c)'
  BY <1>0, <1>1, <1>3 DEF TypeOf, Places, Results
<1>6. TypeOK'
  BY <1>0, <1>1, <1>2, <1>5, TypesStep DEF TypeOK
<1>7. FamilyInv'
  BY <1>0, <1>2 DEF FamilyInv, LayoutsAreShared
<1>8. LayoutOf(c)'
  BY <1>0, <1>1, <1>2, <1>4 DEF LayoutOf
<1>9. DotOf(c)'
  BY <1>0, <1>1, <1>2, <1>3, <1>4 DEF DotOf, Wanted, Looking
<1>10. PendingOf(c)'
  BY <1>0, <1>1, <1>2, <1>4 DEF PendingOf
<1>11. CallOf(c)'
  BY <1>0, <1>1, <1>2, <1>4 DEF CallOf, Within
<1>12. BuffersOf(c)'
  BY <1>0, <1>1, <1>3 DEF BuffersOf, Within, TypeOf
<1>13. ResultOf(c)'
  <2>1. layout[c] # NoLayout /\ workspace[c] >= BlockElems(batch[c]) /\ workspace[c] \in Nat
    BY <1>0, <1>1 DEF LayoutOf, BuffersOf, TypeOf
  <2>2. IF Behind(c) THEN c \in Starved /\ WrongEntry(c)
        ELSE callpipe[c].dot = layout[c].key.dot /\ ~WrongLayout(c)
    BY <1>0, <1>1, Fits
  <2>3. SUFFICES ASSUME Good(batch[c]), codec[c] = DataCodec
                 PROVE  result'[c] = "ok" \/ (result'[c] = "layout" /\ Behind(c))
    BY <1>1, <1>4 DEF ResultOf, Behind
  <2>4. batch[c].first = "good"
    BY <2>3 DEF Good
  <2>5. CASE Behind(c)
    BY <1>1, <2>2, <2>5
  <2>6. CASE ~Behind(c)
    <3>1. ~WrongEntry(c) /\ ~WrongLayout(c)
      BY <2>2, <2>6 DEF WrongEntry
    <3>2. Decodes(c)
      BY <1>0, <1>1, <1>3, <2>1, <2>3 DEF Decodes, CallOf, TypeOf, Within
    <3>3. ~(workspace[c] < BlockElems(batch[c])) /\ batch[c].first # "cut"
      BY <1>3, <2>1, <2>4
    <3> QED
      BY <1>1, <3>1, <3>2, <3>3
  <2> QED
    BY <2>5, <2>6
<1> QED
  BY <1>1, <1>2, <1>6, <1>7, <1>8, <1>9, <1>10, <1>11, <1>12, <1>13 DEF Object

\* What is known of an object, after UnderTheLock.
LEMMA UnderTheLockKeeps ==
    ASSUME IInv, NEW c \in Ctx, UnderTheLock(c)
    PROVE  TypeOK' /\ Only(c) /\ FamilyInv' /\ layouts \subseteq layouts' /\ Object(c)'
<1> USE DEF SettledKept, ObjectKept, ArraysKept, BuffersKept, CallKept
<1>0. /\ TypeOK /\ TypeOf(c) /\ FamilyInv /\ LayoutOf(c) /\ DotOf(c) /\ PendingOf(c)
      /\ CallOf(c) /\ BuffersOf(c) /\ ResultOf(c)
  BY Known, TypesOf
<1>1. /\ Only(c)
     /\ pc[c] = "locked" /\ SettledKept(c) /\ pipe'[c] = pipe[c] /\ dot'[c] = dot[c]
     /\ BuffersKept(c) /\ CallKept(c)
     /\ \/ Taken(c)
        \/ /\ layout'[c] = layout[c] /\ (CannotBuild(dot[c], Wanted(c)) \/ c \in Starved)
           /\ result'[c] = (IF CannotBuild(dot[c], Wanted(c)) THEN "matrix" ELSE "memory")
           /\ pc'[c] = (IF layout[c] = NoLayout THEN "gone" ELSE "idle")
  BY <1>0, UnderTheLockDoes
<1>a. /\ lock' = Nobody
      /\ \/ layouts' = layouts
         \/ /\ Built(Sought(c)) = {} /\ layouts' = layouts \cup {[key |-> Sought(c), id |-> NextId]}
  BY DEF UnderTheLock, Build, BuildAlways, Unlock
<1>b. dot[c] \in DotNames /\ Wanted(c) \in Nat \ {0}
  BY <1>0, Types DEF Wanted
<1>c. /\ Sought(c) \in [dot : DotNames \cup {"none"}, be : Nat] /\ Sought(c).dot \in DotNames
      /\ Sought(c).dot \in BlockDots <=> Sought(c).be # AnyBlock
  BY <1>b DEF Sought, Key, AnyBlock
<1>d. NextId \in Nat
  BY <1>0, FS_CardinalityType DEF NextId, FamilyInv
<1>e. [key |-> Sought(c), id |-> NextId] \in Lay
  BY <1>c, <1>d DEF Lay
<1>2. layouts \subseteq layouts' /\ layouts' \subseteq Lay /\ lock' \in Ctx \cup {Nobody}
  BY <1>0, <1>a, <1>e DEF TypeOK
<1>3. /\ arg[c] \in DotNames \cup {"auto"} /\ dot[c] \in DotNames /\ FirstDot(c) \in DotNames
      /\ batch[c] \in Batch /\ batch[c].n \in Nat /\ BlockElems(batch[c]) \in Nat \ {0}
      /\ batch[c].kind \in {"chunks", "frames"}
  BY <1>0, Types
<1>4. info' = info /\ arg' = arg /\ FirstDot(c)' = FirstDot(c) /\ \A be \in Nat : auto_dot(be)' = auto_dot(be)
  BY <1>1, Fixed DEF Only
<1>5. TypeOf(c)'
  <2>1. layout'[c] \in Lay
    BY <1>0, <1>1, <1>2 DEF TypeOf, TypeOK, Taken
  <2> QED
    BY <1>0, <1>1, <2>1 DEF TypeOf, Places, Results, Taken
<1>6. TypeOK'
  BY <1>0, <1>1, <1>2, <1>5, TypesStep DEF TypeOK
<1>7. FamilyInv'
  <2>1. CASE layouts' = layouts
    BY <1>0, <2>1 DEF FamilyInv, LayoutsAreShared
  <2>2. CASE Built(Sought(c)) = {} /\ layouts' = layouts \cup {[key |-> Sought(c), id |-> NextId]}
    <3> DEFINE l == [key |-> Sought(c), id |-> NextId]
    <3>1. l.key = Sought(c) /\ layouts' = layouts \cup {l}
      BY <2>2
    <3>2. \A k \in layouts : k.key # l.key
      BY <2>2, <3>1 DEF Built
    <3> HIDE DEF l
    <3>3. IsFiniteSet(layouts')
      BY <1>0, <3>1, FS_AddElement DEF FamilyInv
    <3>4. LayoutsAreShared'
      BY <1>0, <3>1, <3>2 DEF FamilyInv, LayoutsAreShared
    <3>5. \A k \in layouts' : k.key.dot \in DotNames /\ (k.key.dot \in BlockDots <=> k.key.be # AnyBlock)
      BY <1>0, <1>c, <3>1 DEF FamilyInv
    <3> QED
      BY <3>3, <3>4, <3>5 DEF FamilyInv
  <2> QED
    BY <1>a, <2>1, <2>2
<1>8. LayoutOf(c)'
  <2>1. CASE Taken(c)
    <3>1. layout'[c] \in layouts' /\ layout'[c].key = Key(dot[c], BlockElems(batch[c]))
      BY <2>1 DEF Taken, Sought, Wanted
    <3>2. layout'[c] # NoLayout /\ layout'[c].key.be \in {AnyBlock, BlockElems(batch[c])}
      BY <1>3, <3>1 DEF Key, NoLayout, DotNames, BlockDots
    <3>3. pc'[c] \in {"idle", "powder"}
      BY <2>1 DEF Taken
    <3> QED
      BY <1>1, <3>1, <3>2, <3>3 DEF LayoutOf
  <2>2. CASE ~Taken(c)
    BY <1>0, <1>1, <1>2, <2>2 DEF LayoutOf
  <2> QED
    BY <2>1, <2>2
<1>9. DotOf(c)'
  <2>1. CASE Taken(c)
    <3>1. layout'[c].key.dot = dot[c] /\ pc'[c] \in {"idle", "powder"}
      BY <2>1 DEF Taken, Sought, Key
    <3> QED
      BY <1>0, <1>1, <1>4, <3>1 DEF DotOf, Looking
  <2>2. CASE ~Taken(c)
    <3>1. Wanted(c)' = Wanted(c)
      BY <1>1 DEF Wanted
    <3>2. auto_dot(Wanted(c))' = auto_dot(Wanted(c))
      BY <1>1, <1>4 DEF auto_dot, Wanted
    <3>3. arg[c] # "auto" \/ c \in Starved
      <4>1. arg[c] = "auto" => dot[c] = auto_dot(Wanted(c))
        BY <1>0, <1>1 DEF DotOf, Looking
      <4> QED
        BY <1>0, <1>1, <1>3, <2>2, <4>1, AutoDot DEF Wanted
    <3> QED
      BY <1>0, <1>1, <1>4, <2>2, <3>1, <3>2, <3>3 DEF DotOf, Looking, FirstDot
  <2> QED
    BY <2>1, <2>2
<1>10. PendingOf(c)'
  <2>1. CASE Taken(c)
    <3>1. codecPending[c] => layout'[c].key.be \in {AnyBlock, DefaultElems}
      BY <1>0, <1>1, <2>1 DEF PendingOf, Taken, Sought, Key, Wanted, BlockElems
    <3> QED
      BY <1>0, <1>1, <1>4, <2>1, <3>1 DEF PendingOf, Taken
  <2>2. CASE ~Taken(c)
    BY <1>0, <1>1, <1>4, <2>2 DEF PendingOf
  <2> QED
    BY <2>1, <2>2
<1>11. CallOf(c)'
  <2>1. CASE layout[c] = NoLayout
    <3>1. pc'[c] \in {"idle", "gone"} \/ (layout'[c] = NoLayout /\ pc'[c] \notin {"codec", "mask", "driver"})
      BY <1>0, <1>1, <2>1 DEF Taken
    <3> QED
      BY <1>1, <3>1 DEF CallOf, Within
  <2>2. CASE layout[c] # NoLayout
    <3>1. pc[c] \in Within /\ pc'[c] \notin {"codec", "mask", "driver"}
      BY <1>0, <1>1, <2>2 DEF LayoutOf, Within, Taken
    <3> QED
      BY <1>0, <1>1, <2>2, <3>1 DEF CallOf
  <2> QED
    BY <2>1, <2>2
<1>12. BuffersOf(c)'
  <2>1. CASE layout[c] = NoLayout
    <3>1. pc'[c] \in {"idle", "gone"} \/ (layout'[c] = NoLayout /\ pc'[c] \notin {"workspace", "driver"})
      BY <1>0, <1>1, <2>1 DEF Taken
    <3> QED
      BY <1>0, <1>1, <3>1 DEF BuffersOf, Within
  <2>2. CASE layout[c] # NoLayout
    <3>1. pc[c] \in Within /\ pc'[c] \notin {"workspace", "driver"}
      BY <1>0, <1>1, <2>2 DEF LayoutOf, Within, Taken
    <3> QED
      BY <1>0, <1>1, <2>2, <3>1 DEF BuffersOf
  <2> QED
    BY <2>1, <2>2
<1>13. ResultOf(c)'
  <2>1. CASE Taken(c)
    <3>1. pc'[c] = "idle" => calls'[c] = 0
      BY <1>0, <1>1, <2>1 DEF LayoutOf, Taken
    <3> QED
      BY <3>1 DEF ResultOf
  <2>2. CASE ~Taken(c)
    <3>1. arg[c] = "auto" => ~CannotBuild(dot[c], Wanted(c))
      <4>1. arg[c] = "auto" => dot[c] = auto_dot(Wanted(c))
        BY <1>0, <1>1 DEF DotOf, Looking
      <4> QED
        BY <1>0, <1>3, <4>1, AutoDot DEF Wanted
    <3> QED
      BY <1>1, <1>4, <2>2, <3>1 DEF ResultOf
  <2> QED
    BY <2>1, <2>2
<1> QED
  BY <1>1, <1>2, <1>6, <1>7, <1>8, <1>9, <1>10, <1>11, <1>12, <1>13 DEF Object

-----------------------------------------------------------------------------
(* The theorems *)

\* A plan starts with one layout, and an object with nothing settled.
LEMMA InitIInv == Init => IInv
<1> SUFFICES ASSUME Init PROVE IInv
  OBVIOUS
<1> USE DEF Init
<1>1. info \in Matrices /\ \A c \in Ctx : arg[c] \in Dots[c]
  OBVIOUS
<1>2. info \in Matrix /\ \A c \in Ctx : arg[c] \in DotNames \cup {"auto"}
  BY <1>1, DecoderAssumption
<1>3. auto_dot(DefaultElems) \in DotNames
  BY <1>2 DEF auto_dot, DotNames, BlockDots, DefaultElems, BsbMax, Matrix
<1>4. \A c \in Ctx : FirstDot(c) \in DotNames
  BY <1>2, <1>3 DEF FirstDot
<1>5. \A c \in Ctx : Resolve(c, "lz4") = [decode |-> "lz4", mask |-> "pixel", dot |-> FirstDot(c)]
  BY DEF Resolve, FirstDot
<1>6. /\ pipe \in [Ctx -> Pipe] /\ callpipe \in [Ctx -> Pipe]
      /\ \A c \in Ctx : /\ pipe[c].decode = codec[c] /\ pipe[c].dot = FirstDot(c)
                        /\ dot[c] = FirstDot(c) /\ pipe[c].mask = "pixel"
  BY <1>4, <1>5 DEF Pipe, Codecs
<1> DEFINE key == Key(auto_dot(DefaultElems), DefaultElems)
<1>7. /\ key \in [dot : DotNames \cup {"none"}, be : Nat] /\ key.dot \in DotNames
      /\ key.dot \in BlockDots <=> key.be # AnyBlock
  BY <1>3 DEF Key, AnyBlock, DefaultElems
<1>8. layouts = {[key |-> key, id |-> 1]}
  OBVIOUS
<1> HIDE DEF key
<1>9. layouts \subseteq Lay /\ FamilyInv
  <2> DEFINE l == [key |-> key, id |-> 1]
  <2>1. l.key = key /\ l \in Lay /\ layouts = {l}
    BY <1>7, <1>8 DEF Lay
  <2> HIDE DEF l
  <2>2. IsFiniteSet(layouts)
    BY <2>1, FS_Singleton
  <2> QED
    BY <1>7, <2>1, <2>2 DEF FamilyInv, LayoutsAreShared
<1>10. NoLayout \in Lay /\ NoCall \in Batch
  BY DEF NoLayout, Lay, NoCall, Batch, AnyBlock, DefaultElems
<1>11. TypeOK
  <2>1. /\ codecPending \in [Ctx -> BOOLEAN] /\ codec \in [Ctx -> Codecs] /\ maskPending \in [Ctx -> BOOLEAN]
        /\ dot \in [Ctx -> DotNames] /\ layout \in [Ctx -> Lay]
    BY <1>4, <1>6, <1>10 DEF Codecs
  <2>2. /\ nframes \in [Ctx -> Nat] /\ powder \in [Ctx -> Nat] /\ workspace \in [Ctx -> Nat]
        /\ arrays \in [Ctx -> [{"values", "indices", "npx", "cursors"} -> Nat]]
    OBVIOUS
  <2>3. /\ pc \in [Ctx -> Places] /\ result \in [Ctx -> Results]
        /\ batch \in [Ctx -> Batch] /\ calls \in [Ctx -> Nat]
    BY <1>10 DEF Places, Results
  <2> QED
    BY <1>1, <1>6, <1>9, <2>1, <2>2, <2>3 DEF TypeOK, Places, Results
<1>12. ASSUME NEW c \in Ctx PROVE Object(c)
  <2>1. /\ pc[c] = "new" /\ layout[c] = NoLayout /\ batch[c] = NoCall /\ codecPending[c] /\ maskPending[c]
        /\ calls[c] = 0 /\ nframes[c] = 0 /\ \A a \in DOMAIN arrays[c] : arrays[c][a] = 0
    OBVIOUS
  <2>2. LayoutOf(c) /\ BuffersOf(c) /\ CallOf(c) /\ ResultOf(c)
    BY <2>1 DEF LayoutOf, BuffersOf, CallOf, ResultOf, Within
  <2>3. Wanted(c) = DefaultElems
    BY <2>1 DEF Wanted, BlockElems, NoCall
  <2>4. DotOf(c)
    BY <1>6, <2>1, <2>3 DEF DotOf, FirstDot
  <2>5. PendingOf(c)
    BY <1>6, <2>1 DEF PendingOf, NoCall, NoLayout
  <2> QED
    BY <2>2, <2>4, <2>5 DEF Object
<1> QED
  BY <1>9, <1>11, <1>12 DEF IInv

\* What a step of one object leaves of every object.
LEMMA StepKeeps ==
    ASSUME IInv, NEW c \in Ctx, Call(c) \/ Step(c)
    PROVE  IInv'
<1>1. TypeOK' /\ Only(c) /\ FamilyInv' /\ layouts \subseteq layouts' /\ Object(c)'
  BY CallKeeps, SettleCodecKeeps, SettleMaskKeeps, GrowOutputsKeeps, CheckLayoutKeeps,
           LookUpKeeps,
     LockKeeps, UnderTheLockKeeps, MakePowderKeeps, MakeWorkspaceKeeps, RunKeeps DEF Step
<1>2. ASSUME NEW d \in Ctx, d # c PROVE Object(d)'
  <2>1. Same(d) /\ info' = info /\ arg' = arg
    BY <1>1, <1>2 DEF Only
  <2>2. Object(d)
    BY DEF IInv
  <2> QED
    BY <1>1, <2>1, <2>2, Keep
<1> QED
  BY <1>1, <1>2 DEF IInv

\* Nothing changes.
LEMMA NothingKeeps ==
    ASSUME IInv, UNCHANGED vars
    PROVE  IInv'
<1>1. UNCHANGED <<info, layouts, lock, arg, codecPending, codec, maskPending, pipe, dot, layout, nframes,
                  arrays, powder, workspace, pc, batch, callpipe, result, calls>>
  BY DEF vars, family, object, buffers
<1>2. TypeOK' /\ FamilyInv'
  BY <1>1 DEF IInv, TypeOK, FamilyInv, LayoutsAreShared
<1>3. ASSUME NEW d \in Ctx PROVE Object(d)'
  BY <1>1, Keep DEF Same, IInv
<1> QED
  BY <1>2, <1>3 DEF IInv

\* The invariant is inductive.
LEMMA Inductive == IInv /\ [Next]_vars => IInv'
BY StepKeeps, NothingKeeps DEF Next, Over

\* The inductive invariant holds in every behaviour of Decoder.
THEOREM Correct == Spec => []IInv
<1>1. Init => IInv
  BY InitIInv
<1>2. IInv /\ [Next]_vars => IInv'
  BY Inductive
<1> QED
  BY <1>1, <1>2, PTL DEF Spec

\* TypeOK: the variables of every object have their types, and its pipeline has its codec and its dot.
THEOREM TypeCorrect == Spec => []TypeOK
<1>1. IInv => TypeOK
  BY DEF IInv
<1> QED
  BY <1>1, Correct, PTL

\* LayoutsAreShared: _Family.layout looks again under the lock, so it builds a layout once however
\* many threads ask for it.
THEOREM OneLayoutPerKey == Spec => []LayoutsAreShared
<1>1. IInv => LayoutsAreShared
  BY DEF IInv, FamilyInv
<1> QED
  BY <1>1, Correct, PTL

\* PipelineFitsLayout: bslz4_resolve and bslz4_driver_run are called with a pipeline and a layout
\* that fit each other, unless the object ran out of memory before, and then the C code refuses them.
THEOREM WhatReachesCFits == Spec => []PipelineFitsLayout
<1>1. IInv => PipelineFitsLayout
  BY Fits DEF IInv, Object, PipelineFitsLayout
<1> QED
  BY <1>1, Correct, PTL

\* BuffersHoldTheBatch: the arrays _ensure_capacity leaves hold the batch, which the C code does not
\* check, also after calls that ran out of memory half way.
THEOREM BuffersAreLargeEnough == Spec => []BuffersHoldTheBatch
<1>1. ASSUME IInv, NEW c \in Ctx, pc[c] = "driver"
      PROVE  /\ \A a \in DOMAIN arrays[c] : arrays[c][a] >= batch[c].n
             /\ powder[c] >= batch[c].n /\ workspace[c] >= BlockElems(batch[c])
  <2>1. BuffersOf(c) /\ LayoutOf(c) /\ TypeOf(c) /\ batch[c].n \in Nat
    BY <1>1, Types, TypesOf DEF IInv, Object
  <2>2. nframes[c] >= batch[c].n /\ powder[c] = nframes[c] /\ workspace[c] >= BlockElems(batch[c])
    BY <1>1, <2>1 DEF BuffersOf, LayoutOf, Within
  <2>3. ASSUME NEW a \in DOMAIN arrays[c] PROVE arrays[c][a] >= batch[c].n
    <3>1. arrays[c][a] \in Nat /\ nframes[c] \in Nat /\ arrays[c][a] >= nframes[c]
      BY <2>1 DEF TypeOf, BuffersOf
    <3> QED
      BY <2>1, <2>2, <3>1
  <2> QED
    BY <2>2, <2>3
<1>2. IInv => BuffersHoldTheBatch
  BY <1>1 DEF BuffersHoldTheBatch
<1> QED
  BY <1>2, Correct, PTL

\* GoodBatchDecodes: a call of good chunks fails only for want of memory, for a dot the caller chose
\* that cannot represent the matrix, or behind after memory ran out.
THEOREM GoodBatchesDecode == Spec => []GoodBatchDecodes
<1>1. IInv => GoodBatchDecodes
  BY DEF IInv, Object, ResultOf, GoodBatchDecodes
<1> QED
  BY <1>1, Correct, PTL

\* The only step that makes the pipeline anew comes before the mask is settled.
LEMMA StepKeepsMask ==
    ASSUME IInv, NEW c \in Ctx, Call(c) \/ Step(c), pipe[c].mask = "planes"
    PROVE  pipe'[c].mask = "planes"
<1> USE DEF ObjectKept
<1>1. TypeOK /\ PendingOf(c) /\ pipe[c] \in Pipe
  BY DEF IInv, Object, TypeOK
<1>2. CASE SettleCodec(c)
  <2>1. ~maskPending[c] /\ ~codecPending[c]
    BY <1>1 DEF PendingOf
  <2> QED
    BY <1>1, <1>2, <2>1, SettleCodecDoes
<1>3. CASE SettleMask(c)
  <2>1. pipe'[c] \in {pipe[c], [pipe[c] EXCEPT !.mask = "planes"]}
    BY <1>1, <1>3, SettleMaskDoes
  <2> QED
    BY <1>1, <2>1 DEF Pipe
<1>4. CASE CheckLayout(c)
  <2>1. pipe'[c] = pipe[c] \/ pipe'[c] = [pipe[c] EXCEPT !.dot = dot'[c]]
    BY <1>1, <1>4, CheckLayoutDoes
  <2> QED
    BY <1>1, <2>1 DEF Pipe
<1>5. CASE Call(c) \/ GrowOutputs(c) \/ LookUp(c) \/ Lock(c) \/ UnderTheLock(c)
  BY <1>1, <1>5, CallDoes, GrowOutputsDoes, LookUpDoes, LockDoes, UnderTheLockDoes
<1>6. CASE MakePowder(c) \/ MakeWorkspace(c) \/ Run(c)
  BY <1>1, <1>6, MakePowderDoes, MakeWorkspaceDoes, RunDoes
<1> QED
  BY <1>2, <1>3, <1>4, <1>5, <1>6 DEF Step

\* MaskChoiceStays: _settle_codec never undoes what _settle_mask found in the first frame.
THEOREM TheMaskChoiceStays == Spec => MaskChoiceStays
<1>1. ASSUME IInv, [Next]_vars
      PROVE  [\A c \in Ctx : pipe[c].mask = "planes" => pipe'[c].mask = "planes"]_vars
  <2>1. CASE UNCHANGED vars
    BY <2>1
  <2>2. ASSUME NEW d \in Ctx, Call(d) \/ Step(d), NEW c \in Ctx, pipe[c].mask = "planes"
        PROVE  pipe'[c].mask = "planes"
    <3>1. CASE c = d
      BY <1>1, <2>2, <3>1, StepKeepsMask
    <3>2. CASE c # d
      <4>1. Only(d)
        BY <1>1, <2>2, CallKeeps, SettleCodecKeeps, SettleMaskKeeps, GrowOutputsKeeps, CheckLayoutKeeps,
           LookUpKeeps,
           LockKeeps, UnderTheLockKeeps, MakePowderKeeps, MakeWorkspaceKeeps, RunKeeps DEF Step
      <4> QED
        BY <2>2, <3>2, <4>1 DEF Only, Same
    <3> QED
      BY <3>1, <3>2
  <2> QED
    BY <1>1, <2>1, <2>2 DEF Next, Over
<1> QED
  BY <1>1, Correct, PTL DEF MaskChoiceStays, Spec
=============================================================================
