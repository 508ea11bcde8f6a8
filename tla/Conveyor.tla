------------------------------ MODULE Conveyor ------------------------------
(***************************************************************************)
(* The conveyor engine, src/src/conveyor/_engine.py: run() and the worker  *)
(* and reader threads (or forked processes) it starts.                     *)
(*                                                                         *)
(*   todo      every unit and then one DONE per reader, queued before go   *)
(*   reader k  a free buffer of worker k, the next unit of todo, the read, *)
(*             then the buffer into ready[k]                               *)
(*   worker k  a full buffer of ready[k], batch after batch to the sink,   *)
(*             then the buffer back into free[k]                           *)
(*   run()     a barrier with every worker, then todo and go, then one     *)
(*             result of every thread                                      *)
(*                                                                         *)
(* A step is what one thread does up to the next operation that may block, *)
(* be watched or raise; several puts and sets in a row that cannot block   *)
(* are one step where nobody can tell (the except clauses, the wakers).    *)
(* A call that may raise has an alternative that raises when MayFail names *)
(* it.  Timings, statistics and page pinning are left out.                 *)
(***************************************************************************)
EXTENDS Integers, Sequences, FiniteSets

CONSTANTS W,        \* workers
          S,        \* slots_per_worker: buffers of each worker
          N,        \* units
          B,        \* batches of a unit (the calls of the decoder for it)
          P,        \* preadv calls that read a unit
          MayFail,  \* the calls that may raise in this model, see Calls
          MayHang   \* the workers whose start may hang

Calls == {"make",      \* pinning, first touch, make_worker, sink_factory, sink.begin
          "decode",    \* the decoder, sink.begin_unit, write, end_unit
          "end",       \* sink.end
          "pin",       \* sched_setaffinity of a reader
          "read",      \* os.open, os.preadv, a short read
          "timeout"}   \* start_timeout passes at the barrier

ASSUME ConveyorAssumption ==
    /\ W \in Nat \ {0} /\ S \in Nat \ {0} /\ N \in Nat \ {0}
    /\ B \in Nat \ {0} /\ P \in Nat \ {0}
    /\ MayFail \subseteq Calls /\ MayHang \subseteq 0 .. W - 1

VARIABLES main,     \* program counter of run()
          raised,   \* the errors in the exception of run(), {} without one
          barrier,  \* "filling", "open" or "broken"
          go, stop, \* the two events
          taken,    \* how many items have been taken from todo; -1 before they are put
          w,        \* worker k: program counter, error, and the unit in its hands
          r,        \* reader k: program counter, error, and the unit in its hands
          free,     \* free[k]: the queue of empty buffers of worker k
          ready,    \* ready[k]: the queue of full buffers of worker k
          buf,      \* what each buffer holds
          results,  \* res_q: every result put, in order
          log,      \* the calls the sinks got about each unit, in order
          sink      \* the lifetime of each sink

vars == <<main, raised, barrier, go, stop, taken, w, r, free, ready, buf, results, log, sink>>

Workers == 0 .. W - 1
Slots   == 0 .. W * S - 1
Units   == 1 .. N
Done    == 0                          \* _DONE on todo and on a ready queue

DoneItem  == [slot |-> 0, unit |-> Done]
Empty     == [unit |-> 0, got |-> 0]  \* a touched buffer
Whole(u)  == [unit |-> u, got |-> P]

\* The buffers of worker k, in the order it puts them on its free queue.
SlotsOffByOne(k) == [i \in 1 .. S |-> k * S + i]
SlotsOf(k) == [i \in 1 .. S |-> k * S + i - 1]

\* What a worker that stops puts on its free queue, for a reader blocked there.
NoWakers == <<>>
Wakers   == [i \in 1 .. S + 1 |-> 0]

\* Everything run() puts on todo.
Todo == [i \in 1 .. N + W |-> IF i <= N THEN i ELSE Done]

WorkerPC == {"start", "arrive", "barrier", "go", "get", "begin", "batch",
             "endunit", "drain", "end", "report", "done"}
ReaderPC == {"start", "slot", "take", "read", "deliver", "finish", "report", "done"}
MainPC   == {"arrive", "barrier", "queue", "abandon", "collect", "returned", "raised"}
Errors   == {"none", "cause", "broken"}   \* broken: a BrokenBarrierError

Init ==
    /\ main = "arrive" /\ raised = {}
    /\ barrier = "filling" /\ go = FALSE /\ stop = FALSE
    /\ taken = -1
    /\ w = [k \in Workers |-> [pc |-> "start", error |-> "none", slot |-> 0, unit |-> 0, batch |-> 0]]
    /\ r = [k \in Workers |-> [pc |-> "start", error |-> "none", slot |-> 0, unit |-> 0, got |-> 0]]
    /\ free  = [k \in Workers |-> <<>>]
    /\ ready = [k \in Workers |-> <<>>]
    /\ buf   = [s \in Slots |-> Empty]
    /\ results = <<>>
    /\ log  = [u \in Units |-> <<>>]
    /\ sink = [k \in Workers |-> "new"]

-----------------------------------------------------------------------------
(* The barrier of the W workers and run().  It is used once: the last party *)
(* to arrive opens it, abort() and a timeout break it for whoever has not   *)
(* left it yet.                                                             *)

AllWaitBut(k) == main = "barrier" /\ \A j \in Workers \ {k} : w[j].pc = "barrier"
AllWorkersWait == \A j \in Workers : w[j].pc = "barrier"

-----------------------------------------------------------------------------
(* The worker *)

\* Pin, touch the buffers, build the decoder, begin the sink, offer the buffers.
WorkerStart(k) ==
    /\ w[k].pc = "start"
    /\ w' = [w EXCEPT ![k].pc = "arrive"]
    /\ free' = [free EXCEPT ![k] = @ \o SlotsOf(k)]
    /\ sink' = [sink EXCEPT ![k] = "begun"]
    /\ UNCHANGED <<main, raised, barrier, go, stop, taken, r, ready, buf, results, log>>

WorkerWait(k) ==
    /\ w[k].pc = "arrive" /\ barrier # "broken" /\ ~AllWaitBut(k)
    /\ w' = [w EXCEPT ![k].pc = "barrier"]
    /\ UNCHANGED <<main, raised, barrier, go, stop, taken, r, free, ready, buf, results, log, sink>>

WorkerOpenBarrier(k) ==
    /\ w[k].pc = "arrive" /\ barrier # "broken" /\ AllWaitBut(k)
    /\ barrier' = "open"
    /\ w' = [w EXCEPT ![k].pc = "go"]
    /\ UNCHANGED <<main, raised, go, stop, taken, r, free, ready, buf, results, log, sink>>

WorkerPassBarrier(k) ==
    /\ w[k].pc = "barrier" /\ barrier = "open"
    /\ w' = [w EXCEPT ![k].pc = "go"]
    /\ UNCHANGED <<main, raised, barrier, go, stop, taken, r, free, ready, buf, results, log, sink>>

WorkerGo(k) ==
    /\ w[k].pc = "go" /\ go
    /\ w' = [w EXCEPT ![k].pc = "get"]
    /\ UNCHANGED <<main, raised, barrier, go, stop, taken, r, free, ready, buf, results, log, sink>>

\* The next full buffer; a DONE, or stop whatever the item is, ends the loop.
WorkerGetFreeing(k) ==
    /\ w[k].pc = "get" /\ ready[k] # <<>>
    /\ ready' = [ready EXCEPT ![k] = Tail(@)]
    /\ free' = [free EXCEPT ![k] = Append(@, Head(ready[k]).slot)]
    /\ LET item == Head(ready[k])
       IN  w' = IF item.unit = Done \/ stop
                THEN [w EXCEPT ![k].pc = "drain"]
                ELSE [w EXCEPT ![k] = [@ EXCEPT !.pc = "begin", !.slot = item.slot, !.unit = item.unit]]
    /\ UNCHANGED <<main, raised, barrier, go, stop, taken, r, buf, results, log, sink>>
WorkerGet(k) ==
    /\ w[k].pc = "get" /\ ready[k] # <<>>
    /\ ready' = [ready EXCEPT ![k] = Tail(@)]
    /\ LET item == Head(ready[k])
       IN  w' = IF item.unit = Done \/ stop
                THEN [w EXCEPT ![k].pc = "drain"]
                ELSE [w EXCEPT ![k] = [@ EXCEPT !.pc = "begin", !.slot = item.slot, !.unit = item.unit]]
    /\ UNCHANGED <<main, raised, barrier, go, stop, taken, r, free, buf, results, log, sink>>

\* One call of worker k's sink about the unit it has.
Logged(k, call, batch, data) ==
    log' = [log EXCEPT ![w[k].unit] =
                Append(@, [call |-> call, by |-> k, batch |-> batch, data |-> data])]

WorkerBeginUnit(k) ==
    /\ w[k].pc = "begin"
    /\ Logged(k, "begin_unit", 0, Empty)
    /\ w' = [w EXCEPT ![k] = [@ EXCEPT !.pc = "batch", !.batch = 1]]
    /\ UNCHANGED <<main, raised, barrier, go, stop, taken, r, free, ready, buf, results, sink>>

\* Decode one batch from the buffer and give the result to the sink.
WorkerBatch(k) ==
    /\ w[k].pc = "batch"
    /\ Logged(k, "write", w[k].batch, buf[w[k].slot])
    /\ w' = IF w[k].batch = B THEN [w EXCEPT ![k].pc = "endunit"] ELSE [w EXCEPT ![k].batch = @ + 1]
    /\ UNCHANGED <<main, raised, barrier, go, stop, taken, r, free, ready, buf, results, sink>>

WorkerEndUnit(k) ==
    /\ w[k].pc = "endunit"
    /\ Logged(k, "end_unit", 0, Empty)
    /\ w' = [w EXCEPT ![k] = [@ EXCEPT !.pc = "get", !.slot = 0, !.unit = 0, !.batch = 0]]
    /\ free' = [free EXCEPT ![k] = Append(@, w[k].slot)]
    /\ UNCHANGED <<main, raised, barrier, go, stop, taken, r, ready, buf, results, sink>>

\* After the loop: the reader may be blocked on the free queue.
WorkerDrain(k) ==
    /\ w[k].pc = "drain"
    /\ w' = [w EXCEPT ![k].pc = "end"]
    /\ free' = [free EXCEPT ![k] = @ \o Wakers]
    /\ UNCHANGED <<main, raised, barrier, go, stop, taken, r, ready, buf, results, log, sink>>

WorkerEnd(k) ==
    /\ w[k].pc = "end"
    /\ w' = [w EXCEPT ![k].pc = "report"]
    /\ sink' = [sink EXCEPT ![k] = "ended"]
    /\ UNCHANGED <<main, raised, barrier, go, stop, taken, r, free, ready, buf, results, log>>

\* The error worker k may raise where it is, if any: a call that fails, or the barrier, broken
\* before it arrived or before it left (also when it was opened and then aborted).
WorkerError(k) ==
    CASE w[k].pc = "start" /\ "make" \in MayFail                           -> "cause"
      [] w[k].pc \in {"begin", "batch", "endunit"} /\ "decode" \in MayFail -> "cause"
      [] w[k].pc = "end" /\ "end" \in MayFail                              -> "cause"
      [] w[k].pc \in {"arrive", "barrier"} /\ barrier = "broken"           -> "broken"
      [] OTHER                                                             -> "none"

\* The except clause: note the error, stop everyone, abort the barrier and wake the reader.
\* The result is a later step, so that others run between the abort and the result.
WorkerFailed(k) == [pc |-> "report", error |-> WorkerError(k), slot |-> 0, unit |-> 0, batch |-> 0]
WorkerRaisesQuietly(k) ==
    /\ WorkerError(k) # "none"
    /\ w' = [w EXCEPT ![k] = WorkerFailed(k)]
    /\ UNCHANGED <<main, raised, barrier, go, stop, taken, r, free, ready, buf, results, log, sink>>
WorkerRaises(k) ==
    /\ WorkerError(k) # "none"
    /\ w' = [w EXCEPT ![k] = WorkerFailed(k)]
    /\ stop' = TRUE
    /\ barrier' = "broken"
    /\ free' = [free EXCEPT ![k] = @ \o Wakers]
    /\ UNCHANGED <<main, raised, go, taken, r, ready, buf, results, log, sink>>

WorkerReport(k) ==
    /\ w[k].pc = "report"
    /\ w' = [w EXCEPT ![k].pc = "done"]
    /\ results' = Append(results, [role |-> "worker", k |-> k, error |-> w[k].error])
    /\ UNCHANGED <<main, raised, barrier, go, stop, taken, r, free, ready, buf, log, sink>>

WorkerThread(k) ==
    \/ WorkerStart(k) \/ WorkerWait(k) \/ WorkerOpenBarrier(k) \/ WorkerPassBarrier(k)
    \/ WorkerGo(k) \/ WorkerGet(k) \/ WorkerBeginUnit(k)
    \/ WorkerBatch(k) \/ WorkerEndUnit(k) \/ WorkerDrain(k) \/ WorkerEnd(k)
    \/ WorkerRaises(k) \/ WorkerReport(k)

-----------------------------------------------------------------------------
(* The reader *)

ReaderStart(k) ==
    /\ r[k].pc = "start" /\ go
    /\ r' = [r EXCEPT ![k].pc = "slot"]
    /\ UNCHANGED <<main, raised, barrier, go, stop, taken, w, free, ready, buf, results, log, sink>>

\* A free buffer; after stop the item may be a waker, and is not used.
ReaderSlotIgnoringStop(k) ==
    /\ r[k].pc = "slot" /\ free[k] # <<>>
    /\ free' = [free EXCEPT ![k] = Tail(@)]
    /\ r' = [r EXCEPT ![k] = [@ EXCEPT !.pc = "take", !.slot = Head(free[k])]]
    /\ UNCHANGED <<main, raised, barrier, go, stop, taken, w, ready, buf, results, log, sink>>
ReaderSlot(k) ==
    /\ r[k].pc = "slot" /\ free[k] # <<>>
    /\ free' = [free EXCEPT ![k] = Tail(@)]
    /\ r' = IF stop THEN [r EXCEPT ![k].pc = "finish"]
                    ELSE [r EXCEPT ![k] = [@ EXCEPT !.pc = "take", !.slot = Head(free[k])]]
    /\ UNCHANGED <<main, raised, barrier, go, stop, taken, w, ready, buf, results, log, sink>>

\* The next item of todo, whoever asks first.
ReaderTake(k) ==
    /\ r[k].pc = "take" /\ taken \in 0 .. Len(Todo) - 1
    /\ taken' = taken + 1
    /\ r' = IF Todo[taken + 1] = Done
            THEN [r EXCEPT ![k] = [@ EXCEPT !.pc = "finish", !.slot = 0]]
            ELSE [r EXCEPT ![k] = [@ EXCEPT !.pc = "read", !.unit = Todo[taken + 1]]]
    /\ UNCHANGED <<main, raised, barrier, go, stop, w, free, ready, buf, results, log, sink>>

\* One preadv into the buffer, which holds a part of the unit until the last one.
ReaderReadOnce(k) ==
    /\ r[k].pc = "read"
    /\ buf' = [buf EXCEPT ![r[k].slot] = [unit |-> r[k].unit, got |-> 1]]
    /\ r' = [r EXCEPT ![k].pc = "deliver"]
    /\ UNCHANGED <<main, raised, barrier, go, stop, taken, w, free, ready, results, log, sink>>
ReaderRead(k) ==
    /\ r[k].pc = "read"
    /\ LET got == r[k].got + 1
       IN  /\ buf' = [buf EXCEPT ![r[k].slot] = [unit |-> r[k].unit, got |-> got]]
           /\ r' = [r EXCEPT ![k] = [@ EXCEPT !.got = got, !.pc = IF got = P THEN "deliver" ELSE "read"]]
    /\ UNCHANGED <<main, raised, barrier, go, stop, taken, w, free, ready, results, log, sink>>

ReaderDeliver(k) ==
    /\ r[k].pc = "deliver"
    /\ ready' = [ready EXCEPT ![k] = Append(@, [slot |-> r[k].slot, unit |-> r[k].unit])]
    /\ r' = [r EXCEPT ![k] = [@ EXCEPT !.pc = "slot", !.slot = 0, !.unit = 0, !.got = 0]]
    /\ UNCHANGED <<main, raised, barrier, go, stop, taken, w, free, buf, results, log, sink>>

ReaderFinish(k) ==
    /\ r[k].pc = "finish"
    /\ ready' = [ready EXCEPT ![k] = Append(@, DoneItem)]
    /\ r' = [r EXCEPT ![k].pc = "report"]
    /\ UNCHANGED <<main, raised, barrier, go, stop, taken, w, free, buf, results, log, sink>>

\* The except clause: note the error, stop everyone and end the ready queue.
ReaderFailed == [pc |-> "report", error |-> "cause", slot |-> 0, unit |-> 0, got |-> 0]
ReaderMayRaise(k) ==
    \/ r[k].pc = "start" /\ "pin" \in MayFail
    \/ r[k].pc = "read" /\ "read" \in MayFail
ReaderRaises(k) ==
    /\ ReaderMayRaise(k)
    /\ r' = [r EXCEPT ![k] = ReaderFailed]
    /\ stop' = TRUE
    /\ ready' = [ready EXCEPT ![k] = Append(@, DoneItem)]
    /\ UNCHANGED <<main, raised, barrier, go, taken, w, free, buf, results, log, sink>>

ReaderReport(k) ==
    /\ r[k].pc = "report"
    /\ r' = [r EXCEPT ![k].pc = "done"]
    /\ results' = Append(results, [role |-> "reader", k |-> k, error |-> r[k].error])
    /\ UNCHANGED <<main, raised, barrier, go, stop, taken, w, free, ready, buf, log, sink>>

ReaderThread(k) ==
    \/ ReaderStart(k) \/ ReaderSlot(k) \/ ReaderTake(k) \/ ReaderRead(k)
    \/ ReaderDeliver(k) \/ ReaderFinish(k) \/ ReaderRaises(k) \/ ReaderReport(k)

-----------------------------------------------------------------------------
(* run() *)

MainWait ==
    /\ main = "arrive" /\ barrier # "broken" /\ ~AllWorkersWait
    /\ main' = "barrier"
    /\ UNCHANGED <<raised, barrier, go, stop, taken, w, r, free, ready, buf, results, log, sink>>

MainOpenBarrier ==
    /\ main = "arrive" /\ barrier # "broken" /\ AllWorkersWait
    /\ main' = "queue"
    /\ barrier' = "open"
    /\ UNCHANGED <<raised, go, stop, taken, w, r, free, ready, buf, results, log, sink>>

MainPassBarrier ==
    /\ main = "barrier" /\ barrier = "open"
    /\ main' = "queue"
    /\ UNCHANGED <<raised, barrier, go, stop, taken, w, r, free, ready, buf, results, log, sink>>

\* The wait at the barrier raised, broken by a worker or by its own timeout, which breaks it for
\* the others: stop, and release whoever started.
StartFailed ==
    \/ main \in {"arrive", "barrier"} /\ barrier = "broken"
    \/ main = "barrier" /\ barrier = "filling" /\ "timeout" \in MayFail
MainAbandonUnstopped ==
    /\ StartFailed
    /\ main' = "abandon"
    /\ barrier' = "broken"
    /\ go' = TRUE
    /\ UNCHANGED <<raised, stop, taken, w, r, free, ready, buf, results, log, sink>>
MainAbandon ==
    /\ StartFailed
    /\ main' = "abandon"
    /\ barrier' = "broken"
    /\ stop' = TRUE
    /\ go' = TRUE
    /\ UNCHANGED <<raised, taken, w, r, free, ready, buf, results, log, sink>>

\* Queue the units and the DONEs, and let everyone go: nobody takes from todo before go.
MainQueue ==
    /\ main = "queue"
    /\ main' = "collect"
    /\ taken' = 0
    /\ go' = TRUE
    /\ UNCHANGED <<raised, barrier, stop, w, r, free, ready, buf, results, log, sink>>

\* The results among the first n that carry an error.
Failures(n) == {i \in 1 .. n : results[i].error # "none"}

\* The start failed: the exception carries the errors of the first W results.
MainGiveUp ==
    /\ main = "abandon" /\ Len(results) >= W
    /\ main' = "raised"
    /\ raised' = {results[i].error : i \in Failures(W)}
    /\ UNCHANGED <<barrier, go, stop, taken, w, r, free, ready, buf, results, log, sink>>

\* Every thread has put its result, its last step: join, and raise the first error if any.
ResultsWanted       == 2 * W
MainFinish ==
    /\ main = "collect" /\ Len(results) >= ResultsWanted
    /\ \/ Failures(ResultsWanted) = {} /\ main' = "returned" /\ UNCHANGED raised
       \/ \E i \in Failures(ResultsWanted) :
             /\ \A j \in Failures(ResultsWanted) : i <= j
             /\ main' = "raised"
             /\ raised' = {results[i].error}
    /\ UNCHANGED <<barrier, go, stop, taken, w, r, free, ready, buf, results, log, sink>>

MainThread ==
    \/ MainWait \/ MainOpenBarrier \/ MainPassBarrier \/ MainAbandon
    \/ MainQueue \/ MainGiveUp \/ MainFinish

-----------------------------------------------------------------------------
AllOver ==
    /\ main \in {"returned", "raised"}
    /\ \A k \in Workers : w[k].pc = "done" /\ r[k].pc = "done"

\* Every thread has ended: the only state in which nothing can happen.
Terminated == AllOver /\ UNCHANGED vars

Next ==
    \/ \E k \in Workers : WorkerThread(k) \/ ReaderThread(k)
    \/ MainThread
    \/ Terminated

\* Every thread is scheduled, and each call it makes returns or raises, but for the start of a
\* worker of MayHang (a CUDA context, a file system), which may or may not return.
Fairness ==
    /\ \A k \in Workers : /\ WF_vars(WorkerThread(k) /\ (w[k].pc = "start" => k \notin MayHang))
                         /\ WF_vars(ReaderThread(k))
    /\ WF_vars(MainThread)

Spec == Init /\ [][Next]_vars
FairSpec == Spec /\ Fairness
-----------------------------------------------------------------------------
(* Properties *)

WorkerHolds(k) == w[k].pc \in {"begin", "batch", "endunit"}
ReaderFills(k) == r[k].pc \in {"read", "deliver"}
Items == [slot : Slots, unit : Units] \cup {DoneItem}

Content     == [unit : 0 .. N, got : 0 .. P]
WorkerState == [pc : WorkerPC, error : Errors, slot : Slots, unit : 0 .. N, batch : 0 .. B]
ReaderState == [pc : ReaderPC, error : Errors, slot : Slots, unit : 0 .. N, got : 0 .. P]
Result      == [role : {"worker", "reader"}, k : Workers, error : Errors]
SinkCall    == [call : {"begin_unit", "write", "end_unit"}, by : Workers, batch : 0 .. B, data : Content]

RunTypes ==
    /\ main \in MainPC /\ raised \subseteq Errors
    /\ barrier \in {"filling", "open", "broken"} /\ go \in BOOLEAN /\ stop \in BOOLEAN
    /\ taken \in -1 .. N + W
ThreadTypes == w \in [Workers -> WorkerState] /\ r \in [Workers -> ReaderState]
QueueTypes ==
    /\ free \in [Workers -> Seq(Slots)] /\ ready \in [Workers -> Seq(Items)]
    /\ results \in Seq(Result)
BufferTypes == buf \in [Slots -> Content]
SinkTypes ==
    log \in [Units -> Seq(SinkCall)] /\ sink \in [Workers -> {"new", "begun", "ended"}]

\* Every queue, counter, program counter and buffer of _engine.py holds what it is made for.
TypeOK == RunTypes /\ ThreadTypes /\ QueueTypes /\ BufferTypes /\ SinkTypes

\* A buffer a reader fills is not being decoded, not waiting to be decoded and not filled by
\* another reader, although the wakers put on the free queues all name buffer 0
\* (free_q.put(0) in _worker).
BufferHasOneUser ==
    \A j, k \in Workers : ReaderFills(j) =>
        /\ WorkerHolds(k) => w[k].slot # r[j].slot
        /\ \A i \in 1 .. Len(ready[k]) :
               ready[k][i].unit # Done => ready[k][i].slot # r[j].slot
        /\ j # k /\ ReaderFills(k) => r[k].slot # r[j].slot

\* What the decoder reads is the whole of the unit that was read for it: no partial read, no
\* buffer reused under the worker (the slot and the unit travel together in ready_q).
DecodesTheUnitRead ==
    \A k \in Workers : WorkerHolds(k) => buf[w[k].slot] = Whole(w[k].unit)

\* A reader that asks todo for an item finds one: there are DONEs enough, and none asks when
\* the start failed and nothing was queued (todo.get has no timeout).
TodoNeverRunsDry ==
    \A k \in Workers : r[k].pc = "take" => taken \in 0 .. Len(Todo) - 1

\* Memory: a reader is ahead of its worker by the worker's own buffers and no more, also while others
\* stop and give back what they had (the free queues of run()).
OnTheWay(k) ==
    (IF r[k].pc \in {"read", "deliver"} THEN {r[k].unit} ELSE {})
        \cup ({ready[k][i].unit : i \in 1 .. Len(ready[k])} \ {Done})
        \cup (IF WorkerHolds(k) THEN {w[k].unit} ELSE {})
InFlightFitsTheBuffers == \A k \in Workers : Cardinality(OnTheWay(k)) <= S

\* The invariant the proofs use: who owns which buffer.  Every buffer of worker k is in at most
\* one of four places, its free queue, its reader's hands, its ready queue and its own hands,
\* until the loop of the worker ends; from then on the free queue holds wakers, and the reader
\* has ended or will see stop before it uses one.
Block(k) == k * S .. k * S + S - 1
InLoop(k) == w[k].pc \in {"start", "arrive", "barrier", "go", "get", "begin", "batch", "endunit"}
ReaderHas(k) == r[k].pc \in {"take", "read", "deliver"}
Queued(k) == {i \in 1 .. Len(ready[k]) : ready[k][i].unit # Done}

FreeOwned(k) ==
    /\ InLoop(k) =>
        /\ \A i \in 1 .. Len(free[k]) : free[k][i] \in Block(k)
        /\ \A i, j \in 1 .. Len(free[k]) : free[k][i] = free[k][j] => i = j
    /\ w[k].pc = "start" =>
        free[k] = <<>> /\ Queued(k) = {} /\ ~ReaderHas(k)

ReaderOwned(k) ==
    /\ ReaderHas(k) =>
        /\ r[k].slot \in Block(k)
        /\ InLoop(k) => \A i \in 1 .. Len(free[k]) : free[k][i] # r[k].slot
    /\ ReaderFills(k) => r[k].unit \in Units
    /\ r[k].pc = "read" => r[k].got < P
    /\ r[k].pc = "deliver" => buf[r[k].slot] = Whole(r[k].unit)
    /\ ~ReaderFills(k) => r[k].got = 0

ReadyOwned(k) ==
    \A i \in Queued(k) :
        /\ ready[k][i].slot \in Block(k)
        /\ buf[ready[k][i].slot] = Whole(ready[k][i].unit)
        /\ \A j \in Queued(k) : ready[k][i].slot = ready[k][j].slot => i = j
        /\ ReaderHas(k) => ready[k][i].slot # r[k].slot
        /\ InLoop(k) => \A j \in 1 .. Len(free[k]) : free[k][j] # ready[k][i].slot

WorkerOwned(k) ==
    WorkerHolds(k) =>
        /\ w[k].slot \in Block(k) /\ w[k].unit \in Units
        /\ buf[w[k].slot] = Whole(w[k].unit)
        /\ ReaderHas(k) => w[k].slot # r[k].slot
        /\ \A i \in Queued(k) : ready[k][i].slot # w[k].slot
        /\ \A i \in 1 .. Len(free[k]) : free[k][i] # w[k].slot

LoopEnded(k) ==
    /\ (\E i \in 1 .. Len(ready[k]) : ready[k][i].unit = Done) => r[k].pc \in {"report", "done"}
    /\ ~InLoop(k) => stop \/ r[k].pc \in {"report", "done"}

Owned(k) == FreeOwned(k) /\ ReaderOwned(k) /\ ReadyOwned(k) /\ WorkerOwned(k) /\ LoopEnded(k)
Ownership == \A k \in Workers : Owned(k)

\* run() implements what it promises: see Delivery.
Promise == INSTANCE Delivery WITH
    failed  <- stop,
    outcome <- CASE main = "returned" -> "returned"
                 [] main = "raised"   -> "raised"
                 [] OTHER             -> "running"
KeepsItsPromise == Promise!Spec

\* The call returns or raises and every thread it started ends, whatever failed.
EveryoneEnds == <>AllOver

\* start_timeout: "seconds to wait for every worker to start ... before giving up".
GivesUpAfterTheTimeout == <>(main \in {"returned", "raised"})

\* The exception of a start that failed carries the error that made it fail, as
\* test_a_writer_refuses_a_powder_over_a_tenth_of_the_frame_before_the_run expects.
StartErrorReachesTheCaller ==
    main = "raised" /\ taken = -1 => "cause" \in raised
=============================================================================
