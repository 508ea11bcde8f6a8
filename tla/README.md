# bslz4_to_sparse: a TLA+ development

`bslz4_to_sparse` decodes detector frames stored as bitshuffle-lz4 (or zstd) chunks straight into
lists of pixels above a threshold, and, on the way, multiplies every frame by a sparse matrix (an
integration, the *powder*). A conveyor of reader and worker threads feeds whole scans through it.
This directory holds the models of the parts whose behaviour is hard to test, the TLC runs that
check them on small instances, and TLAPS proofs about them for every instance. `PROJECT.json` maps
every definition to the lines it was translated from.

Short paths are below `src/src/`, the package directory of the repository.

## The system

| part | state it keeps | operations | talks to | modelled in |
|---|---|---|---|---|
| conveyor engine (`conveyor/_engine.py`) | queues of empty and full buffers, a queue of units, a barrier, two events, a queue of results | `run`, `_reader`, `_worker` | backends and sinks, by calls of the workers; its caller, by an exception | `Conveyor`, `Delivery` |
| backends (`_backends.py`) | a plan, made once per process | `prepare`, `make_worker` | the decoder objects | no |
| iterator (`_iter.py`) | a bounded queue, a closed event | `iterate`, `_QueueSink` | the engine, from a thread of its own | `Iterate` |
| sinks and files (`_sinks.py`, `_sparsefile.py`, `_ringfile.py`, `_diffmapio.py`) | open temporary files, what is held of a unit | `begin`, `begin_unit`, `write`, `end_unit`, `end` | the file system | no |
| index and work units (`_index.py`, `_source.py`) | a cached index of the chunks of a file | `index`, `make_work_units` | HDF5 | no |
| decoder objects (`__init__.py`) | codec and mask step settled or not, dot, layout, buffers | `multi`, `from_buffer`, `from_frames` | the plan, the extension module | `Decoder` |
| plan (`_matrix.py`) | the layouts built so far, a lock | `_Family.layout` | all the objects of the plan | `Decoder`, `Dots` |
| pipeline resolution (`_pipeline.py`, `pipeline/registry.c`) | none | `resolve`, `bslz4_resolve` | | a part, in `Decoder` |
| generated wrapper (`bslz4_to_sparse_wrapper.c`, `c2py_runtime/`) | what a call has pinned, the GIL flag, the layout of numpy arrays | a function per entry point | Python above, the C functions below | `EntryPoints`, `Wrapper` |
| entry points (`bslz4_to_sparse.c`) | none | the C functions | the driver | `EntryPoints`, `Decoder` |
| driver (`pipeline/driver.c`) | per call: cursors, counts, levels, workspace | `run`, `decompress`, `block_starts`, `check_frames` | the kernels | `Framing`, `BlockLoop`, `Kernels` |
| kernels (`steps/*`) | buffers from block to block | mask, untranspose, collect, dot | | `Kernels`, `Lowplanes`, `Collect`, `Dots` |
| zero-aware lz4 decoder (`steps/lz4zero.h`) | the output, the zeros not written | `bslz4_lz4_decode_zero` | | `Lz4Zero` |
| GPU (`cuda/*`) | streams, pinned buffers | as the backends | CUDA | no |

What is hard here: the engine's shutdown, where any thread may fail at any point while the others
wait for it in a queue, at a barrier or for a result; buffers that pass from thread to thread by
number; a selection of pixels made in one pass that must equal one made afterwards; size words of a
file that may hold anything; decoder objects that settle their own set-up on the first data they see
and may fail half way; layouts shared by threads; arrays that C code uses without the GIL while the
program goes on; decoders that leave memory unwritten and kernels that write and read past what they
keep. The list of them, line by line, is `hazards` in `PROJECT.json`, each with the properties that
would notice it going wrong or the reason why none does yet.

## The modules

### Conveyor, Delivery

`Conveyor` is `_engine.py`: `run()` (`main`, `raised`, `results`), the worker threads (`w`), the
reader threads (`r`), the queues `free_q`, `ready_q`, `todo` (`free`, `ready`, `taken`), the barrier
and the events `go` and `stop`. A step is what a thread does up to the next operation that may
block, be watched or raise. Every call that may raise has an alternative that does, when the
constant `MayFail` names it; `MayHang` names the workers whose start may never return.

`Delivery` is what a run promises, without any of that: every unit is given to one sink, whole and
in order, one unit at a time; the call returns only when everything was delivered; it raises only if
something failed; nothing reaches a sink after the call. `Conveyor` implements it (property
`KeepsItsPromise`, with the call log of the sinks shared, `stop` for "failed" and the program
counter of `run()` for the outcome).

Fairness (`FairSpec`): weak, per thread. The operating system runs every thread, and a call returns
or raises; a start in `MayHang` is excepted.

### Iterate

`_iter.py` on top of `Delivery`: a run whose sinks copy each batch onto one bounded queue (`Write`,
`WriteTest`, `WritePut`, `WriteFull`, `WriteClosed`: room, or a look at `closed` each time the
queue was full), the thread that runs it and then puts the end marker (`GoReturns`, `GoRaises`,
`GoMark`, `GoLeaves`), and the generator (`Get`, `GetEnd`, `NextBatch`, `Leave`, `Join`). `run()` is
taken at its promise, which `Conveyor` is shown to keep: the model instantiates `Delivery` and
couples its steps to the queue, so a batch counts as delivered when its put succeeds, and it adds
which errors were raised, since the generator looks at the text of the error: any error whose `repr`
holds `_Closed` is dropped (`NamesClosed`), the `_Closed` of a worker ("closed") and any other that
happens to, such as a short read of a file with the word in its path ("naming"). `Holds(items, u, n)`
says that of unit `u` some items hold the first `n` batches, each once and in their order. The
copying and trimming of arrays is left out. Fairness: weak, for each worker, for the thread of `run()` and for
a consumer whose loop body ends; a consumer is never obliged to leave.

### Decoder

`chunk2sparseCSC` objects on one plan, each with its thread: what is settled on the first chunk
(`SettleCodec`, `SettleMask`), the buffers (`GrowOutputs`, `MakePowder`, `MakeWorkspace`), the
layout when the block size changes (`CheckLayout`, `LookUp`, `Lock`, `UnderTheLock`) and the call of
the C code with its refusals (`Run`). Memory may run out at every allocation of an object in
`Starved`; chunks may be truncated or damaged. The pipeline a call goes on with is part of the state
(`callpipe`): `from_frames` takes it before the dot may be chosen again, the other calls after.
`Behind` names the objects whose dot, layout and pipeline of the call can differ for that. Weak fairness per object: a thread that began a call
goes on with it.

### EntryPoints, Wrapper

`EntryPoints` has a table, `Methods`, of the functions of the extension module: the parameters in
the order they are taken, which are pinned for writing, which the `restrict` test counts as written,
and, per function, what is asked of types, sizes and integers (`<function>Checks`,
`<function>Ranges`). An array is a record of its kind, format, shape, strides and address.
`Wrapper` takes a call through the generated code: `Enter`, one pin per array by the fast path for
numpy arrays (`PinProbe`, `PinFill`, `Publish`, `PinDeclined`) or by the buffer protocol
(`PinBuffer`), `CheckOverlap`, `Examine`, the C function with or without the GIL (`SaveThread`,
`CFunction`, `RestoreThread`), and the release of every pin on each way out. Other threads call at
the same time, resize arrays (`Resize`, refused while the array is pinned) and set the flag that
says whether the GIL is released (`SetRelease`). Strong fairness of each calling thread: the
interpreter hands the GIL to whoever waits for it, again and again.

A caller's side of the contract is `WellFormed`: a call names a function of the table and gives one
array per parameter, of axes of some lengths and strides, whose size of an element is that of its format. That the arguments of the C
function are what the documents of the entry points promise is two properties: `WritesAreItsOwn`
(what it writes is writable and overlaps nothing else) and `ArgumentsAreFlat` (the elements are where
a pointer and a count find them).

What the wrapper does not test it leaves to its Python caller, and `SizesFit` does not claim it: the
sizes of `outpx`, `output_adr`, `npx_out`, `cursors` and `powder`, what the pointers and the index
of `note_chunk` point to, and the element size of the array `read_counters` fills (`output_adr` and
`npx_out` take 8 byte integers too). `Decoder` shows that the objects of `__init__.py` make these
arrays large enough.

### Framing

How the bytes of a chunk are found: header, size words, blocks, raw end, in the three walks of
`driver.c` (`block_starts` over chunks for the GPU, `run` block by block, `decompress` chunk by
chunk), each with bounds of its own. The model takes the same chunks through all three, so that
they can be compared. Size words, lengths and the block size of a header are any numbers. The
entry points do not ask the same of a header: only `decompress` looks whether a block is whole groups
of 8 pixels, if it is to unshuffle (`Refused`, `driver.c:479`; `test_decompress.py:145-147` has such a
header). `block_starts` and `run` walk the blocks of any header. `run` then transposes the pixels of a
block, which the transpose may refuse when they are not a multiple of 8 (`MayNotTranspose`; the
transposes are other projects'), and gives out whole pixels of each block (`GivenOut`), so a block size
that is not whole pixels gives fewer pixels than the frame has. The properties state these exceptions:
`DecodersAgree` and `StartsAreTheBlocks` that there is no other, `AcceptedFramesAreWhole` claims
nothing of `run` for blocks that are not whole pixels.

### BlockLoop

`bslz4_driver_run` over blocks already found: for each block, for each frame, decode, raise the
threshold if the list of the frame became too long, collect, add to the powder; the tail; the last
raise and the cut at `howmany`; and what `_toppix.py` makes of the request and the answer. A second
call on the same object and calls that fail half way are part of it. A list is the set of its
pixels, since it is in pixel order. The reference is in the module: `Selected`, `Kept` and `Chosen`
say which pixels a selection made afterwards, on the whole frame, would keep.

### Kernels, Lowplanes, Collect, Dots

What the steps compute for one frame, block by block, by every way through them. `Collect` has the
scalar loop and the five vector tiers that list the pixels above the cut; `Lowplanes` the masks, the
untranspose step, and the fused collects that read the low planes of a block directly; `Dots` the
layouts of a matrix (`csc`, `csc-run`, `csc-nosplit`, their integer forms, the padded ones,
`bsb-csr`) and what the sparse and the dense route add to the powder. `Kernels` runs them over the
blocks and the tail of a frame with the buffer the decoder leaves: of a block it says only that the
bytes before `nz_end` are right and the pixels past it zero, which is what `ZeroDecoderAgrees`
states of `Lz4Zero`; the memory there holds the block before.

Scale: registers have a quarter of their lanes, and a byte of a bit plane, eight pixels, is one
pixel. A block of any number of bytes per plane is thus a block of any number of pixels, and a group
of 64 pixels is 4. The ratios between the widths of a tier are the real ones. Sums are exact; two
things floats do are kept, that a NaN takes over its sum and that a float holds integers up to
`FloatExact` only.

### Lz4Zero

`bslz4_lz4_decode_zero`, run by run: it skips matches that can only give zeros, fills the zeros it
left out before the next byte that is not zero, copies in chunks of fixed size and by doubling.
Beside it the model keeps the output of a decoder that writes every byte. The input is chosen as it
is read; the extension bytes of long lengths are part of the lengths.

## The runs

| run | instance | shows |
|---|---|---|
| `conveyor` | 2 workers, 2 buffers each, 3 units read in 2 pieces, any call may raise or time out | types, one user of a buffer, whole units, `todo` never dry, units in flight bounded; implements `Delivery`; nobody hangs and no success is reported wrongly |
| `conveyor_hang` (violated) | 1 worker that hangs in its start | `run()` does not give up after `start_timeout`: it waits for results without a limit |
| `conveyor_start_error` (violated) | a worker fails to start | the error can be missing from the exception: results of readers are taken for reports of workers |
| `iterate` | 2 workers, 3 units of 2 batches, a queue of 2 | every write arrives once and in order; a loop that ends without an exception saw everything, or everything that was written before an error with `_Closed` in its text by chance; the loop ends, also when left with the queue full and workers waiting |
| `top` | 2 frames of 2 blocks and a tail, pixels of 1 and 2, one masked, 8 lists of thresholds, `howmany` up to 3, with and without a powder, failed calls between | raising in the loop selects what selecting afterwards would; lists stay short; frames and calls do not disturb each other; every unmasked pixel is in the powder once |
| `framing` | 2 chunks of every kind that matters, three shapes of frame, six block sizes other than the default, pixels of 2 bytes | nothing outside a chunk is read, the walks agree but for blocks of no whole groups, accepted frames are whole |
| `decoder` | an object that makes three calls with every kind of batch, beside another being made; 4 matrices | what reaches the C code fits, layouts built once, good batches decode, calls return |
| `decoder_codec` (violated) | a bad first chunk of zstd data | the object stays on lz4 and every good chunk fails after it |
| `calls` | every function as documented and with one thing changed, about 2000 calls; pairs of calls on the same arrays with and without a GIL | what reaches the C function is flat, long enough, writable and disjoint; pins are released once on each way out; arrays do not move under it; the GIL is taken back; good calls are carried out and every call returns |
| `kernels` | frames of two blocks and a tail by every tier, mask step, layout and route; every stream of a 12 byte lz4 block | the list is the selection, the powder the sum; stores stay in their buffers; zeros left unwritten are never read as anything else |
| `lowplanes_vsx` (violated) | the VSX collect of a block that is not of whole groups of 64 pixels | it lists pixels of the next plane |
| `padded_nan` (violated) | a NaN at a masked pixel of a float frame, a padded layout | bins of the powder become NaN |

Why the bounds are enough. *Conveyor*: two workers are all that can meet at the barrier or over a
buffer number; two buffers each let a reader be ahead of its worker; with three units for two workers one
of them reads twice and reuses what it gave back or finds the other still busy; two pieces make a unit that
is partly read. A batch more or more units repeat these; `Delivery` counts batches, and the proofs hold for
every number of all of them. *Iterate*: a queue of two is full with one item of each worker, or two of
one, and there are three times as many batches. *top*: a list can become too long in either
block or in the tail, to be raised before the next block, before the tail or at the end, by several levels
at once; cuts of 0 and 1 have the pixels of 1 and 2 above, at and above, and below the levels that follow;
two frames are what one can disturb of another. That more blocks repeat this is proved. *Framing*: a frame of a full block,
a tail block and raw bytes, and each without one of the last two; lengths that end in each of them;
size words that are right, too long for some chunks, and too long for all; blocks of whole pixels and
not whole groups (24 bytes), of neither (33), larger than the frame with whole groups (64) and without (72), and of
one group (16); frames of a byte too many and larger than a decoder takes (`Int32Max` is 100). *Decoder*: three
calls are one that settles the object, one that runs out of memory half way and one that finds what
that left; the second object is there to build and to find the layout of the same key; block sizes of
4096, 16384 and 131072 pixels are the default, more than `padded` is chosen for and more than `bsb-csr` can take; the matrices take each branch of
`auto_dot` that looks at the block size, and one that does not. *calls*: a pin, an overlap or a
check looks at one or two arguments, so calls with one thing changed reach each refusal, and each
refusal is reached with every pin before it made; `IntMax` is 100, beyond every size but those meant
to pass it; one array (`Movable`) and one resize (`MaxResizes`) are what it takes to move memory
under a call. *kernels*: blocks of whole vectors, of part of one, and of both, so that each main
loop and each remainder runs, and a second block that finds what the first left; values on both
sides of the sign bit that vectors compare with. *Lz4Zero*: the chunk sizes are scaled (32, 16, 64 and
512 are 5, 3, 6 and 6) so that a 12 byte block has runs shorter and longer than each; slacks of 0
(every copy exact), 3 and 8 (chunked copies up to the end).

`CHECK_DEADLOCK FALSE` is used for `conveyor_hang` only, where a hung thread really stops everything.

## Findings

The five violated runs above, with the lines they contradict, are `findings` in `PROJECT.json`.
Seen on the way, without a run of their own:

* `run()` raises the first error in the queue of results, which can be a `BrokenBarrierError` of a
  worker that another one's failure freed (`conveyor/_engine.py:346`; `test_conveyor.py:156` expects
  the cause).
* `iterate` drops every error whose text has `_Closed` in it (`conveyor/_iter.py:84`), so that a run that
  fails on a file with the word in its path (`conveyor/_engine.py:119`) looks like one that ended:
  the loop ends without an exception and incomplete. `AnEndedLoopIsComplete` states that no other
  error is lost.
* `run` and `block_starts` accept a header whose block size is not whole groups of 8 pixels, which
  `decompress` refuses (`pipeline/driver.c:479`); when it is not whole pixels either, `run` returns 0 with
  fewer pixels than the frame has.
* `last_cut` may be below the cut that was asked for when a threshold of the request is
  (`_toppix.py:141`), against `__init__.py:513-514`.
* The wrapper tests some arguments by the size of an element only, so that arrays in the other byte
  order reach the C code (`c2py_runtime.h:597-602` says such a format has no type).
* When the automatic dot is chosen again and memory runs out while its layout is built, the object
  keeps the new dot and the old layout. `from_frames` and batches of the old block size then fail
  with -109 until a batch of another block size comes. When the dot would be chosen back, `from_frames`
  still fails once: it takes its copy of the pipeline (`__init__.py:867`) before the dot is looked at,
  although the comment there says "after the settling above". This second case was found when the
  proof of `PipelineFitsLayout` failed. The property states that these are the only mismatches there
  are, and that the C code refuses them.

## The proofs

Every theorem is for all values of the constants; `theorems` in `PROJECT.json` lists them. They follow
from the inductive invariants described below, `IInv` in most modules. The type invariants of
`BlockLoop`, `Decoder` and `Wrapper` are proved and left out of the runs.

**`ConveyorProofs`**, for every number of workers, buffers, units, batches and pieces and every choice of
what fails: `TypeCorrect`; `BuffersAreOwned`, `OneUserOfABuffer`, `DecodedUnitIsWhole`; `TodoIsNeverEmpty`
(no reader waits for an item that does not come); `ReadAheadFits` (the units in flight fit the buffers).

"One user of a buffer" is not inductive: nothing in it says that a buffer in a free queue is not
also in a ready queue. The inductive invariant is `TypeOK /\ Ownership` (`Conveyor.tla`): each buffer
of worker `k` is in at most one of four places, its free queue, its reader's hands, its ready queue,
its worker's hands; it holds the unit it is queued with; and once the worker has left its loop, when
the wakers that all name buffer 0 go into the free queue, the reader has ended or will see `stop`
first. One lemma per kind of step, then `TypedAndOwned`, from which the theorems follow.
`TodoIsNeverEmpty` adds `TodoInv`: the end marks taken are as many as the readers that have left for
good, so a reader that still asks leaves one for itself. `ReadAheadFits` maps the units in flight
one to one into the block of buffers of their worker, which `Ownership` allows.

The second half of the module is `RunKeepsItsPromise`, `Spec => KeepsItsPromise`: the engine implements
`Delivery`. It maps `log` and `sink` to themselves, `stop` to `failed` and `main` to `outcome`. `Delivery` does not
see who has a unit, so that its steps are legal is shown with `KeepInv`, which adds to
`TypeOK /\ Ownership`:

* `StartInv`: nobody is past the barrier before it opens, and a start that was given up lets nobody
  into its loop, so no sink is called after `run` raised;
* `ResultsInv`: one result per thread that is done, with its error; an error and `stop` come
  together, but for an abandoned start. So `run` raises only when something failed;
* `SinkInv`: a sink is begun before the barrier and ended only after the loop;
* `UnitInv`: a unit is in one buffer at most; the worker that has it is the only one that has called
  a sink about it, in order, unless that worker failed;
* `WholeInv`: while nobody failed, each unit taken is in a buffer or delivered, a reader leaves only
  after the last unit, and nothing is behind a DONE. So a run that returns has delivered everything.

A call of a sink is then a `Deliver`, the first `stop` a `Fail`, the end of `run` a `Return` or a
`Raise`, the start and end of a sink its `BeginSink` and `EndSink`; every other step is a stutter.

**`IterateProofs`**, for every number of workers, units and batches and every depth of the queue:
`TypeCorrect`, `WritesArriveOnce`, `EndedLoopsAreComplete`. That a write arrives once needs to know
which batch a worker carries while its put is tried again: `WriteInv` says the unit is still its own
and the batch is the next one of its log, which no other worker can change (`OthersKeepTheirUnit`);
`LogInv` that the log of a unit is the calls of `Delivery`, so that its writes can be counted from
its length (`WritesCounted`). That a loop that ended is complete needs the end mark to be last
(`MarkInv`: it is put after every worker is out), so that what the generator has then is all that
was written; and that "closed" is not among the errors of a loop that was not left (`LoopInv`). So the
error dropped at the end, if there is one, is no `_Closed` and has the word in its text by chance; if
there is none, `run()` returned.

**`DecoderProofs`**, for every set of objects, batches, matrices and every place memory runs out:
`TypeCorrect`; `OneLayoutPerKey`; `WhatReachesCFits` (`PipelineFitsLayout`); `BuffersAreLargeEnough`;
`GoodBatchesDecode`; and the action property `TheMaskChoiceStays`. The invariant says of each object
which layout it has at each place of a call (`LayoutOf`), that its dot is the first one or one chosen
for larger blocks, while the layout may still be of the first (`DotOf`), which of its settings were
not changed yet (`PendingOf`), which pipeline the call goes on with (`CallOf`), and what the buffers
hold (`BuffersOf`); and of the plan that its layouts are one per key. Each action is reduced to what
it does to its object (`ActionDoes`), so that the others are unchanged, and shown to keep all of
this (`ActionKeeps`). A layout is added only under the lock after a second look, which is where
`OneLayoutPerKey` comes from.

**`FramingProofs`**, for every number of chunks, header, size word and length: `TypeCorrect`;
`NoReadOutside`; `TheDecodersAgree`; `TheStartsAreTheBlocks`; `TheFramesAreWhole`.
`NoReadOutside` has an invariant of its own, `Cursor` (which block of which chunk the walk can be at,
per entry point) and `Inside` (a walk never is past the end of its chunk), on which the comparison
of a size word with what is left depends, since the code subtracts; the arithmetic of blocks, tail
and raw bytes is in `Division` and `Sizes`. For the others `WalkInv` compares walks that go through
the chunks in different orders with one definition: `Start(g, i)` is where block `i` of chunk `g`
is if every block before it fits. A walk is at the `Start` of its next block (`PosInv`), has decoded
and filled what is before it (`DecodedInv`), has found those blocks (`FoundInv`), and its result
says whether all chunks are as it needs them (`ResultInv`), which is the same condition for both decoders
but for `Declined`, the block sizes `decompress` refuses to unshuffle. What `run` gives out is counted for
block sizes of whole pixels (`Exact`): every block but the raw end is then whole pixels (`WholePixels`), and
nothing is lost of them (`GivesAll`). No header is excluded by an assumption.

**`BlockLoopProofs`**, for every number of frames, pixels and pixels of a block, every mask, all values
and all lists of thresholds: `TypeCorrect`; `RaisingIsSelecting` (`AnswerIsTheSelection`);
`PowderIsWhole`; `ListsAreShort`. The list of a frame is the seen unmasked pixels above its level
(`ListAt`); every lower level already had too many, and more pixels only make more (`LevelAt`);
once settled, a level is the last or has few enough (`SettledAt`). Since the selection made
afterwards is the lowest level that has not too many pixels, the two are the same. What was seen
depends on block, frame and place of the loop, so that a step of one frame is shown to leave the
others alone, and the blocks to cover each pixel once.

**`WrapperProofs`**, for every number of threads, functions of the table called with any well-formed
arguments, arrays that are moved or not, with and without a GIL: `TypeCorrect`; `PinsAreReleasedOnce`;
`PointersStayGood`; `TheLayoutIsWhole`; `NoPythonWithoutTheGil`; `NothingWrittenIsShared`; `TheSizesFit`;
`TheArgumentsAreFlat`.
The invariant says at each place of a call which of its pins are made, those before its position on
the way in and at most those up to it on the way out (`PlaceInv`); that what is counted of an object
is the number of pins on it over all threads (`CountInv`), so that an array with an export is not
moved (`StaysInv`); who has the GIL (`GilInv`); and that the checks a call has passed hold as long as
it goes on (`CallInv`), for they are about the arguments, which the calls of other threads cannot
change. That a pin is made and released once is counted by adding and taking away one element of the
set of pins (`PinIs`, `PinIsNext`). `WrapperAssumption` asks of the calls only that they are `WellFormed`.

`TheArgumentsAreFlat` holds for arrays of any number of axes, each of any length and stride, and is an
induction on the axes (`RowsCover`, `ColumnsCover`): the offsets along the first k of them are the
multiples of one number, each below the product of their lengths. The next axis multiplies how many
there are, and its stride is either all that is before it (`AxisOutside`, column order) or what all
before it is a multiple of (`AxisInside`, row order). An offset is then a number written with one more digit
(`DigitPut`, `DigitTaken`). An axis of length 1 has the digit 0, which is why the code need not look at its
stride. The products and the sums are folds, of which `FoldLast` of `Folding` says that the last
element is folded in last; `ProductFirst` is the same for the first factor.

**`KernelsProofs`**, for every set of pipelines, frames and masks (pixels below `Word` where there are
planes or vectors, `KernelsAssumption`) and every size of block: `TheBlockIsThePixels`
(`BlockIsThePixels`), `TheListIsTheSelection` (`ListIsTheSelection`), `NoStorePastTheBuffer`
(`StoresStayInside`). The argument goes up in five steps.

* `FoldKeeps` of **`Folding`**: a fold from left to right keeps an invariant of its steps. The kernels
  are folds over the vectors, groups or windows of a block, and the provers cannot take a step or an
  invariant as the parameter of a lemma; so `Folding` has them as constants, and there is one
  INSTANCE per loop. Its induction on numbers is the hypothesis `Counted`, which
  `NumbersAreCounted` proves where it is used.
* `CollectGtLists` and `CollectNzLists`: what a tier has stored after so many pixels is the list of the
  selected ones, and its buffers reach no further (`Collected`, `SoFar`). A tier that stores a whole
  register stores junk behind its list, which the next store goes over; that it has room is the last
  conjunct's work. The tiers that compare signed lanes after a bias select what the others do
  (`BiasedBitsAreBits`), the two-part stores of addresses meet (`PartStored`), and the windows
  VSX passes over or does pixel by pixel are followed by its state machine of misses.
* `UntransposedPixels`: a buffer `StandsFor` a block if it has its bits up to `nz_end` and the bits
  past that are 0, whatever the buffer has there. Every way of untransposing, the one that reads
  the low planes only included, gives the block back.
* `LowplanesListed`: the fused collects, with their tiles and groups, list what the scalar loop
  would list of the untransposed block, and leave the buffer standing for it if they decline.
* `BlockInv` and `ListInv`: at each stage of the loop of a frame the buffer or the block shows the
  pixels of the frame, with the masked ones 0 if the planes were masked (`Seen`), and the list is the
  `Selection` of the pixels before `i0`; the list of a block goes behind it (`SelectionsJoin`). TLC
  checked both on the instance of run `kernels`.

The two theorems about lists have the hypothesis `WholeGroups`: a pipeline with the fused collect of VSX has
blocks of whole groups of 64 pixels. It is what the code does not check: run `lowplanes_vsx` has a
pipeline without it and shows the list to be wrong (see Findings). `TheBlockIsThePixels` needs no
hypothesis. The widths of vectors, groups, tiles and words are not constants: they are the scaled
ones of the model, and the theorems are about those.

The last part of the module is about `Lz4Zero`, for every size of block, slack and chunk and every input:
`DecodeTypeCorrect`, `DecodesThePlainOutput` (`ZeroDecoderAgrees`), `NoStorePastTheSlack` (`StaysInSlack`).
Here the three together are inductive: memory up to `written` is the plain output, and the plain
output from `zero_from` on is zero. A copy reads below its own start only, where the zeros have just
been filled in; a skipped match reads known zeros only, and so gives zeros; a chunked copy is made
only if the rounded length fits before the end of the slack (`CopyStoreBounds`, `ZeroStoreBounds`,
`LiteralStoreBounds`). The end of the data is found by well-founded induction on a set of positions,
and the periods of an overlapping match by the lemma on `%`. So what `Kernels` takes from a decoded
block, that it stands for the pixels, holds for blocks of any size.

Induction over the natural numbers is used with the predicate as a set: the library's induction
theorems take an operator, which the provers cannot instantiate, but `WFMin` takes a set, and from
it follow `Smallest` and `Induction` (`FramingProofs`): a set with 0 and with n + 1 whenever it has n
has every number (`NumbersAreCounted` in `KernelsProofs` and `WrapperProofs`). Functions defined by recursion on a number (`Start`) are reasoned about that way.

All proofs assume only what the modules' ASSUMEs say of the constants; TLC evaluates those.

Model-checked only:

* liveness (`EveryoneEnds`, `TheLoopEnds`, both `CallsReturn`), which is beyond TLAPS, and
  `GoodCallsGetThrough`, which compares the wrapper with the calls built for `MCWrapper`;
* `PowderIsTheSum`: the powder of a route is a sum over the entries of a matrix in the order of its
  layout, the property one over pixels and entries; that they are equal is a reordering of sums,
  which is an induction over data for each layout. The selection the sparse route adds up is proved.

## What is not modelled

* Rounding of float sums, pixels above `FloatExact`, the counters of the steps, the registry's
  `step_available`.
* The table of lanes that the first caller fills without a guard (`steps/collect.hpp:290`): every
  writer writes the same bytes.
* DLPack, parsing of keyword arguments and texts of errors in the wrapper; loading the Python ABI.
* Memory that runs out inside `_settle_mask`, for the arrays of its trial (`__init__.py:329-342`); what a
  failing trial does otherwise is in `SettleMask`.
* A worker process that is killed, and pickling of a plan for one.
* Sinks, files, index, work units, backends, clipping, geometry; the GPU back ends, whose order of
  asynchronous copies is CUDA's. `components` in `PROJECT.json` gives the reason for each.
* Vendored lz4, zstd and bitshuffle: the plain decoder is what `Lz4Zero` compares with.

## Plan

Written, in this order: `Conveyor` with `Delivery` and `ConveyorProofs`; `BlockLoop`; `Framing` with
`FramingProofs`; `Decoder`; `Iterate`; `EntryPoints` and `Wrapper`; `Collect`, `Lowplanes`, `Dots`
and `Kernels`; `Lz4Zero`; the promise in `ConveyorProofs`; `DecoderProofs`; `BlockLoopProofs`; the walks in
`FramingProofs`; `WrapperProofs`; `IterateProofs`; `Folding` and `KernelsProofs`. Next:

1. `SparseFiles` and `Index`: parts of a file written to a temporary name and renamed, with crashes,
   two writers, a stale index. Abstract specification: a file appears whole or not at all.
2. `Resolve`: `_pipeline.resolve` and `bslz4_resolve` accept the same pipelines.
3. `WorkUnits`, a pure function against its definition.
4. The sharing of a plan by workers (`_backends.py`), pickling, the pool of `_diffmapio.py`; the GPU
   back end after a survey.

Proofs: `PowderIsTheSum` of `Kernels`, layout by layout, beginning with `csc` on the dense route.
