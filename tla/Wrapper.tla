------------------------------- MODULE Wrapper -------------------------------
(***************************************************************************)
(* A call of a function of the extension module, from the interpreter      *)
(* through the generated wrapper to the C function and back: the arguments *)
(* are pinned one after the other, compared and checked, the GIL may be    *)
(* released around the C function, and whatever was pinned is released on  *)
(* every way out.  Several threads call at once; the layout of a numpy     *)
(* array, which the first call finds out, is shared by them.               *)
(*                                                                         *)
(* A build without a GIL runs the threads freely; in a build with one a    *)
(* thread keeps it from the call to the return, but for the C function.    *)
(* The rest of the program is Resize (it reallocates a buffer that no call *)
(* holds) and SetRelease (it writes the flag that the module publishes).   *)
(***************************************************************************)
EXTENDS EntryPoints, Functions

CONSTANTS
    Threads,
    Cases,          \* the programs: records [build, plan], of which build is a record [gil, pypy] and
                    \* plan a function from the threads that make a call to that call
    Movable,        \* bound: the buffers that may be reallocated
    MaxResizes      \* bound: how often

NoThread == "nobody"
NoObject == "null"

\* A call is of a function of the module, with a value for each of its parameters.  An array is an
\* object and some elements of it, of the size of their type; long has the size of the platform's or of
\* the standard format.
WellFormedArray(x) ==
    /\ x.obj # NoObject /\ x.at \in Int
    /\ x.shape \in Seq(Nat) /\ x.strides \in [DOMAIN x.shape -> Int] /\ x.size \in Nat
    /\ FormatItemsize(x.letter) # 0 /\ x.letter \notin {"l", "L"} => x.size = FormatItemsize(x.letter)
WellFormed(call) ==
    /\ call.fn \in DOMAIN Methods
    /\ DOMAIN call.a = {Methods[call.fn].order[i] : i \in DOMAIN Methods[call.fn].order}
    /\ \A p \in DOMAIN call.a : WellFormedArray(call.a[p])
    /\ DOMAIN call.v = Methods[call.fn].ints /\ \A i \in DOMAIN call.v : call.v[i] \in Int
    /\ call.top[1] \in Int /\ call.top[2] \in Int

ASSUME WrapperAssumption ==
    /\ NoThread \notin Threads
    /\ \A c \in Cases : /\ c.build \in [gil : BOOLEAN, pypy : BOOLEAN]
                        /\ DOMAIN c.plan \subseteq Threads /\ \A t \in DOMAIN c.plan : WellFormed(c.plan[t])

VARIABLES
    build, plan,
    holder,         \* the thread that has the GIL, or NoThread
    enabled,        \* _c2py_gil_release_enabled
    layout,         \* C2PY_NDARRAY: which of its three fields are set
    th,             \* thread -> where its call is
    held,           \* thread -> parameter -> its pin: the kind and the object to release
    seen,           \* thread -> parameter -> the memory its pointer is into
    exports, refs,  \* object -> buffer exports and references the wrapper holds
    gen             \* object -> how often its memory was moved

vars == <<build, plan, holder, enabled, layout, th, held, seen, exports, refs, gen>>
counts == <<exports, refs>>

\* A call is a record: fn, nargs (is the number of arguments right), junk (the ints that are none), a
\* and v (the arrays and the ints), top (the first values of the array top).
CallOf(t) == plan[t]
FnOf(t) == Methods[CallOf(t).fn]
Order(t) == FnOf(t).order
Params(t) == {Order(t)[i] : i \in DOMAIN Order(t)}
Arg(t, p) == CallOf(t).a[p]
Callers == DOMAIN plan
Objects == UNION {{Arg(t, p).obj : p \in Params(t)} : t \in Callers}

\* pin.kind is not set before the pin is made, pin.buf is zero
PinKinds == {"NONE", "PEP3118", "NDARRAY", "DLPACK"}
Unset == [kind |-> "unset", obj |-> NoObject]

Runs(t) == build.gil => holder = t
Here(t, where) == th[t].pc = where /\ Runs(t)
Goto(t, where) == th' = [th EXCEPT ![t].pc = where]
Fail(t, where) == th' = [th EXCEPT ![t].pc = where, ![t].err = TRUE, ![t].i = Len(Order(t))]

Init ==
    /\ \E c \in Cases : build = c.build /\ plan = c.plan
    /\ holder = NoThread /\ enabled = TRUE
    /\ layout = [off |-> FALSE, probed |-> FALSE, type |-> FALSE]
    /\ th = [t \in Callers |-> [pc |-> "out", i |-> 1, save |-> FALSE, err |-> FALSE, ret |-> FALSE]]
    /\ held = [t \in Callers |-> [p \in Params(t) |-> Unset]]
    /\ seen = [t \in Callers |-> [p \in Params(t) |-> 0]]
    /\ exports = [x \in Objects |-> 0] /\ refs = exports /\ gen = exports

-----------------------------------------------------------------------------
(* Into the call *)

\* the number of arguments and the integers among them, before anything is pinned
Enter(t) ==
    /\ th[t].pc = "out" /\ (build.gil => holder = NoThread)
    /\ holder' = IF build.gil THEN t ELSE holder
    /\ IF ~CallOf(t).nargs \/ CallOf(t).junk \intersect FnOf(t).ints # {}
       THEN Fail(t, "back")
       ELSE Goto(t, IF Order(t) = <<>> THEN "examine" ELSE "pin")
    /\ UNCHANGED <<build, plan, enabled, layout, held, seen, counts, gen>>

This(t) == Order(t)[th[t].i]
ThisArg(t) == Arg(t, This(t))
MayPin(t) == This(t) \in FnOf(t).writes => ThisArg(t).writable

Next1(t) == IF th[t].i < Len(Order(t)) THEN [th[t] EXCEPT !.i = @ + 1, !.pc = "pin"]
            ELSE [th[t] EXCEPT !.pc = "overlap"]
Pinned(t, kind) ==
    /\ held' = [held EXCEPT ![t] = [@ EXCEPT ![This(t)] = [kind |-> kind, obj |-> ThisArg(t).obj]]]
    /\ seen' = [seen EXCEPT ![t] = [@ EXCEPT ![This(t)] = gen[ThisArg(t).obj]]]

\* Nothing to release if it was the first argument; otherwise every pin is, made or not.
PinFailsAtOnce(t) == Fail(t, "back")
PinFails(t) == Fail(t, IF th[t].i = 1 THEN "back" ELSE "unpin")

\* an array of which the fast path knows the element
Castable(x) == x.prefix # ">" /\ FormatItemsize(x.letter) # 0

NdarrayTried(t) == Here(t, "pin") /\ ~build.pypy /\ ThisArg(t).kind = "ndarray"

\* the fast path: the layout is known, a reference is held instead of an export
PinFill(t) ==
    /\ NdarrayTried(t) /\ layout.type
    /\ \/ ~MayPin(t) /\ PinFails(t) /\ UNCHANGED <<held, seen, refs>>
       \/ MayPin(t) /\ ~Castable(ThisArg(t)) /\ Goto(t, "buffer") /\ UNCHANGED <<held, seen, refs>>
       \/ /\ MayPin(t) /\ Castable(ThisArg(t)) /\ Pinned(t, "NDARRAY")
          /\ refs' = [refs EXCEPT ![ThisArg(t).obj] = @ + 1]
          /\ th' = [th EXCEPT ![t] = Next1(t)]
    /\ UNCHANGED <<build, plan, holder, enabled, layout, exports, gen>>

\* The first array: its buffer is exported, and if the data pointer is found in it the layout is published.
\* An empty array may have none.
PinProbe(t) ==
    /\ NdarrayTried(t) /\ ~layout.type /\ ~layout.probed
    /\ \/ ~MayPin(t) /\ PinFails(t) /\ UNCHANGED <<held, seen, exports>>
       \/ MayPin(t) /\ Bytes(ThisArg(t)) = 0 /\ Goto(t, "buffer") /\ UNCHANGED <<held, seen, exports>>
       \/ /\ MayPin(t) /\ Pinned(t, "PEP3118") /\ Goto(t, "publish")
          /\ exports' = [exports EXCEPT ![ThisArg(t).obj] = @ + 1]
    /\ UNCHANGED <<build, plan, holder, enabled, layout, refs, gen>>
\* in this order: who sees the type sees the offset
PublishTypeFirst(t) ==
    /\ Here(t, "publish")
    /\ layout' = IF ~layout.type THEN [layout EXCEPT !.type = TRUE]
                 ELSE IF ~layout.off THEN [layout EXCEPT !.off = TRUE] ELSE [layout EXCEPT !.probed = TRUE]
    /\ th' = [th EXCEPT ![t] = IF layout'.probed THEN Next1(t) ELSE @]
    /\ UNCHANGED <<build, plan, holder, enabled, held, seen, counts, gen>>
Publish(t) ==
    /\ Here(t, "publish")
    /\ layout' = IF ~layout.off THEN [layout EXCEPT !.off = TRUE]
                 ELSE IF ~layout.probed THEN [layout EXCEPT !.probed = TRUE] ELSE [layout EXCEPT !.type = TRUE]
    /\ th' = [th EXCEPT ![t] = IF layout'.type THEN Next1(t) ELSE @]
    /\ UNCHANGED <<build, plan, holder, enabled, held, seen, counts, gen>>

\* not a numpy array, or another thread is about to publish the layout
PinDeclined(t) ==
    /\ Here(t, "pin")
    /\ build.pypy \/ ThisArg(t).kind # "ndarray" \/ (layout.probed /\ ~layout.type)
    /\ Goto(t, "buffer")
    /\ UNCHANGED <<build, plan, holder, enabled, layout, held, seen, counts, gen>>

\* the buffer protocol
PinBufferPointerOnly(t) ==
    /\ Here(t, "buffer")
    /\ IF ThisArg(t).kind = "none" \/ ~MayPin(t)
       THEN PinFails(t) /\ UNCHANGED <<held, seen>>
       ELSE Pinned(t, "NONE") /\ th' = [th EXCEPT ![t] = Next1(t)]
    /\ UNCHANGED <<build, plan, holder, enabled, layout, counts, gen>>
PinBuffer(t) ==
    /\ Here(t, "buffer")
    /\ IF ThisArg(t).kind = "none" \/ ~MayPin(t)
       THEN PinFails(t) /\ UNCHANGED <<held, seen, exports>>
       ELSE /\ Pinned(t, "PEP3118")
            /\ exports' = [exports EXCEPT ![ThisArg(t).obj] = @ + 1]
            /\ th' = [th EXCEPT ![t] = Next1(t)]
    /\ UNCHANGED <<build, plan, holder, enabled, layout, refs, gen>>

CheckOverlap(t) ==
    /\ Here(t, "overlap")
    /\ IF NoOverlap(CallOf(t).a, FnOf(t).restrict) THEN Goto(t, "examine") ELSE Fail(t, "unpin")
    /\ UNCHANGED <<build, plan, holder, enabled, layout, held, seen, counts, gen>>

-----------------------------------------------------------------------------
(* _..._impl: the checks, the C function, and out *)

WayOut(t) == IF Order(t) = <<>> THEN "back" ELSE "unpin"

\* The flag is read once, on the way in.
Examine(t) ==
    /\ Here(t, "examine")
    /\ IF Accepted(CallOf(t).fn, CallOf(t).a, CallOf(t).v)
       THEN th' = [th EXCEPT ![t].pc = "save", ![t].save = enabled /\ FnOf(t).release]
       ELSE Fail(t, WayOut(t))
    /\ UNCHANGED <<build, plan, holder, enabled, layout, held, seen, counts, gen>>

SaveThread(t) ==
    /\ Here(t, "save")
    /\ Goto(t, "C")
    /\ holder' = IF th[t].save /\ build.gil THEN NoThread ELSE holder
    /\ UNCHANGED <<build, plan, enabled, layout, held, seen, counts, gen>>

\* whatever the C function answers, a code below 0 included, is the value of the call
CFunction(t) ==
    /\ th[t].pc = "C" /\ (th[t].save \/ Runs(t))
    /\ th' = [th EXCEPT ![t].pc = "restore", ![t].ret = TRUE, ![t].i = Len(Order(t))]
    /\ UNCHANGED <<build, plan, holder, enabled, layout, held, seen, counts, gen>>

RestoreThreadByFlag(t) ==
    /\ th[t].pc = "restore"
    /\ Goto(t, WayOut(t))
    /\ IF enabled /\ FnOf(t).release
       THEN (build.gil => holder = NoThread) /\ holder' = IF build.gil THEN t ELSE holder
       ELSE UNCHANGED holder
    /\ UNCHANGED <<build, plan, enabled, layout, held, seen, counts, gen>>
RestoreThread(t) ==
    /\ th[t].pc = "restore"
    /\ Goto(t, WayOut(t))
    /\ IF th[t].save
       THEN (build.gil => holder = NoThread) /\ holder' = IF build.gil THEN t ELSE holder
       ELSE Runs(t) /\ UNCHANGED holder
    /\ UNCHANGED <<build, plan, enabled, layout, held, seen, counts, gen>>

\* one pin; of one that was never made the kind is anything, and there is no object
UnpinBuffer(t) ==
    /\ Here(t, "unpin")
    /\ LET p == This(t)
           pin == held[t][p]
       IN  /\ \E kind \in IF pin.kind = "unset" THEN PinKinds ELSE {pin.kind} :
                 /\ exports' = IF kind = "PEP3118" /\ pin.obj # NoObject
                               THEN [exports EXCEPT ![pin.obj] = @ - 1] ELSE exports
                 /\ refs' = IF kind \in {"NDARRAY", "DLPACK"} /\ pin.obj # NoObject
                            THEN [refs EXCEPT ![pin.obj] = @ - 1] ELSE refs
           /\ held' = [held EXCEPT ![t] = [@ EXCEPT ![p] = [kind |-> "NONE", obj |-> NoObject]]]
    /\ th' = [th EXCEPT ![t] = IF th[t].i > 1 THEN [th[t] EXCEPT !.i = @ - 1] ELSE [th[t] EXCEPT !.pc = "back"]]
    /\ UNCHANGED <<build, plan, holder, enabled, layout, seen, gen>>

Return(t) ==
    /\ Here(t, "back")
    /\ Goto(t, "done")
    /\ holder' = NoThread
    /\ UNCHANGED <<build, plan, enabled, layout, held, seen, counts, gen>>

-----------------------------------------------------------------------------
(* The rest of the program *)

Outside == build.gil => holder = NoThread
InCall(t) == th[t].pc \notin {"out", "done"}

\* A buffer that is exported is not reallocated, nor a numpy array that somebody else refers to, the
\* arguments of a call under way included.
Resize(x) ==
    /\ Outside /\ gen[x] < MaxResizes
    /\ exports[x] = 0 /\ refs[x] = 0
    /\ ~\E t \in Callers : InCall(t) /\ \E p \in Params(t) : Arg(t, p).obj = x /\ Arg(t, p).kind = "ndarray"
    /\ gen' = [gen EXCEPT ![x] = @ + 1]
    /\ UNCHANGED <<build, plan, holder, enabled, layout, th, held, seen, counts>>

SetRelease ==
    /\ Outside
    /\ enabled' = ~enabled
    /\ UNCHANGED <<build, plan, holder, layout, th, held, seen, counts, gen>>

Thread(t) ==
    \/ Enter(t) \/ PinFill(t) \/ PinProbe(t) \/ Publish(t) \/ PinDeclined(t) \/ PinBuffer(t)
    \/ CheckOverlap(t) \/ Examine(t) \/ SaveThread(t) \/ CFunction(t) \/ RestoreThread(t)
    \/ UnpinBuffer(t) \/ Return(t)
AllDone == (\A t \in Callers : th[t].pc = "done") /\ UNCHANGED vars

Next == (\E t \in Callers : Thread(t)) \/ (\E x \in Movable \intersect DOMAIN gen : Resize(x)) \/ SetRelease \/ AllDone

Spec == Init /\ [][Next]_vars
FairSpec == Spec /\ \A t \in Threads : SF_vars(t \in Callers /\ Thread(t))

-----------------------------------------------------------------------------
(* Properties *)

TypeOK ==
    /\ build \in [gil : BOOLEAN, pypy : BOOLEAN] /\ Callers \subseteq Threads
    /\ holder \in Callers \union {NoThread} /\ enabled \in BOOLEAN
    /\ layout \in [off : BOOLEAN, probed : BOOLEAN, type : BOOLEAN]
    /\ \A t \in Callers :
          /\ th[t].pc \in {"out", "pin", "publish", "buffer", "overlap", "examine", "save", "C", "restore",
                           "unpin", "back", "done"}
          /\ th[t].i \in 0 .. Len(Order(t)) + 1
          /\ \A p \in Params(t) : /\ held[t][p].kind \in {"unset", "NONE", "PEP3118", "NDARRAY", "DLPACK"}
                                  /\ held[t][p].obj = NoObject \/ held[t][p].obj \in DOMAIN gen

\* The exports and the references of an object are those of the pins that calls hold, and a call that is
\* over holds none: what was pinned before an error is released once, what was not is not (the cleanup
\* of each _..._fastcall).
Pins(kind) == UNION {{<<t, p, held[t][p].obj>> : p \in {q \in Params(t) : held[t][q].kind = kind}} : t \in Callers}
PinsAreAccounted ==
    /\ LET buffers == Pins("PEP3118")  references == Pins("NDARRAY")
       IN  \A x \in DOMAIN exports :
              /\ exports[x] = Cardinality({q \in buffers : q[3] = x})
              /\ refs[x] = Cardinality({q \in references : q[3] = x})
    /\ \A t \in Callers : ~InCall(t) => \A p \in Params(t) : held[t][p].obj = NoObject

\* The memory a call has a pointer into is not moved until the call has let go of it, also while the C
\* function runs without the GIL and other threads run Python (c2py_pin).
StaysInPlace == \A t \in Callers : \A p \in Params(t) :
    held[t][p].obj # NoObject => seen[t][p] = gen[held[t][p].obj]

\* The C function gets flat memory, in one order of the axes or the other (c2py_check_contiguity).
\* Elements of no bytes are nowhere.
Indexes(x) == {i \in [DOMAIN x.shape -> 0 .. Count(x)] : \A d \in DOMAIN i : i[d] < x.shape[d]}
Offset(x, i) == FoldLeft(+, 0, [d \in DOMAIN i |-> i[d] * x.strides[d]])
Flat(x) == x.size # 0 => {Offset(x, i) : i \in Indexes(x)} = {k * x.size : k \in 0 .. Count(x) - 1}
ArgumentsAreFlat == \A t \in Callers : th[t].pc = "C" => \A p \in Params(t) : Flat(Arg(t, p))

\* It may write where it writes, and shares nothing it writes with another of its arguments: the restrict
\* of its declaration (bslz4_to_sparse.h), which the compiler takes on trust.
BytesOf(x) == x.at .. x.at + Bytes(x) - 1
WritesAreItsOwn == \A t \in Callers : th[t].pc = "C" =>
    \A p \in FnOf(t).writes :
        /\ Arg(t, p).writable
        /\ \A q \in Params(t) \ {p} : BytesOf(Arg(t, p)) \intersect BytesOf(Arg(t, q)) = {}

\* Every array is as long as the C function takes it to be from the sizes it is given: what each entry
\* point of bslz4_to_sparse.c and the driver reach in it.
Needs(a, v, p) ==
    LET frames == Count(a.compressed_ptrs)  pixels == Count(a.mask)  rows == Count(a.weights) \div v.width
    IN  CASE p \in {"compressed_lengths", "status"} -> 4 * frames
          [] p = "pipeline" -> 2 * 6
          [] p = "top_out" -> IF Count(a.top) = 0 THEN 0 ELSE 2 * 4 * frames
          [] p \in {"indptr", "csc_indptr"} -> 4 * (pixels + 1)
          [] p = "base" /\ "width" \in DOMAIN v -> 4 * (IF v.listed = 1 THEN rows ELSE pixels)
          [] p = "weights" -> 4 * v.width * (IF v.listed = 1 THEN rows ELSE pixels)
          [] p = "pixels" -> IF v.listed = 1 THEN 4 * rows ELSE 0
          [] p = "rowmap" -> IF v.listed = 1 THEN 4 * pixels ELSE 0
          [] p = "bin_ptr" -> 4 * (Count(a.bins) + 1)
          [] p = "idx" -> 2 * Count(a.data)
          [] p = "csc_indices" -> 4 * Count(a.csc_data)
          [] p = "nblocks" -> 8
          [] p = "lengths" /\ "offsets" \in DOMAIN a -> 4 * Count(a.offsets)
          [] OTHER -> 0
SizesFit == \A t \in Callers : th[t].pc = "C" =>
    LET c == CallOf(t)
    IN  /\ \A p \in Params(t) : Bytes(c.a[p]) >= Needs(c.a, c.v, p)
        /\ "top" \in Params(t) /\ Count(c.a.top) > 0 /\ TopFromArgs(Count(c.a.top), c.top)
              => Bytes(c.a.top) >= 8 * (2 + c.top[2])
        /\ \A i \in DOMAIN c.v : IsInt(c.v[i]) \/ i = "block_elems"

\* Who casts a numpy array has the offset of its data: the type is published last (c2py_pin_ndarray).
LayoutIsWhole == layout.type => layout.off

\* With a GIL no thread is in Python without it, however the flag is written meanwhile (_..._impl).
GilIsHeld == \A t \in Callers : build.gil /\ InCall(t) /\ th[t].pc \notin {"C", "restore"} => holder = t

\* Every call returns, the pins and the GIL of another call notwithstanding (_..._fastcall).
CallsReturn == \A t \in Threads : <>(t \in Callers => th[t].pc = "done")
=============================================================================
