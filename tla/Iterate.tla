------------------------------- MODULE Iterate -------------------------------
(***************************************************************************)
(* The results of a run taken from a plain for loop                        *)
(* (src/src/conveyor/_iter.py): run() in a thread of its own, a sink per   *)
(* worker that puts a copy of each batch on one bounded queue, and the     *)
(* generator that takes them off until the end marker, or is closed.       *)
(*                                                                         *)
(* The run itself is what Delivery says of it: who writes which batch next *)
(* is free, a batch is delivered when the put of it succeeds.  A put that  *)
(* finds the queue full for 0.5 s looks at the closed event and tries      *)
(* again; the times themselves are left out.  Of an error only its kind    *)
(* and whether its text holds "_Closed" are kept.                          *)
(***************************************************************************)
EXTENDS Integers, Sequences, FiniteSets

CONSTANTS W,     \* workers
          N,     \* units
          B,     \* batches of a unit
          Depth  \* batches per worker that may wait in the queue

ASSUME IterateAssumption ==
    W \in Nat \ {0} /\ N \in Nat \ {0} /\ B \in Nat \ {0} /\ Depth \in Nat \ {0}

VARIABLES log, sink, failed, outcome,  \* the run, see Delivery
          wr,      \* wr[k]: where worker k is in write(), and the item it has
          errors,  \* what the workers of the run raised
          q,       \* the queue between the workers and the consumer
          closed,  \* the event
          go,      \* the thread of run(): "run", "mark" (the end of the queue), "gone"
          box,     \* the error run() left for the consumer
          con,     \* the generator: "get", "body" (suspended at yield), "join", "over"
          how,     \* how the loop ended
          got      \* every item yielded, in order

run  == <<log, sink, failed, outcome>>
loop == <<con, how, got>>
vars == <<log, sink, failed, outcome, wr, errors, q, closed, go, box, con, how, got>>

Run == INSTANCE Delivery WITH P <- 1

Workers  == 0 .. W - 1
Units    == 1 .. N
Items    == [unit : Units, batch : 1 .. B]
End      == [unit |-> 0, batch |-> 0]        \* _END
Idle     == [at |-> "idle", item |-> End]
HasRoom  == Len(q) < Depth * W

Init ==
    /\ Run!Init
    /\ wr = [k \in Workers |-> Idle]
    /\ errors = {} /\ q = <<>> /\ closed = FALSE
    /\ go = "run" /\ box = "none"
    /\ con = "get" /\ how = "running" /\ got = <<>>

-----------------------------------------------------------------------------
(* The run and its sinks *)

NoWriteBy(k) == wr[k] = Idle

\* Worker k starts, or ends because there is nothing left for it; some worker gets what is left.
BeginSink(k) ==
    /\ NoWriteBy(k) /\ Run!BeginSink(k)
    /\ UNCHANGED <<wr, errors, q, closed, go, box, loop>>

EndSink(k) ==
    /\ NoWriteBy(k)
    /\ \/ failed
       \/ \A u \in Units : log[u] # <<>>
       \/ \E j \in Workers \ {k} : sink[j] # "ended"
    /\ Run!EndSink(k)
    /\ UNCHANGED <<wr, errors, q, closed, go, box, loop>>

\* begin_unit and end_unit, which this sink leaves to its base class.
UnitCall(k, u) ==
    /\ NoWriteBy(k) /\ Len(log[u]) \in {0, B + 1} /\ Run!Deliver(k, u)
    /\ UNCHANGED <<wr, errors, q, closed, go, box, loop>>

\* The decoder has the next batch and write() makes an item of it, a copy.
Write(k, u) ==
    /\ NoWriteBy(k) /\ outcome = "running"
    /\ Run!Open(k, u) /\ Len(log[u]) \in 1 .. B
    /\ wr' = [wr EXCEPT ![k] = [at |-> "test", item |-> [unit |-> u, batch |-> Len(log[u])]]]
    /\ UNCHANGED <<run, errors, q, closed, go, box, loop>>

WriteTestNothing(k) ==
    /\ wr[k].at = "test"
    /\ wr' = [wr EXCEPT ![k].at = "put"]
    /\ UNCHANGED <<run, errors, q, closed, go, box, loop>>
WriteTest(k) ==
    /\ wr[k].at = "test" /\ ~closed
    /\ wr' = [wr EXCEPT ![k].at = "put"]
    /\ UNCHANGED <<run, errors, q, closed, go, box, loop>>

\* The consumer is gone: _Closed, an error of this worker like any other.
WriteClosed(k) ==
    /\ wr[k].at = "test" /\ closed
    /\ wr' = [wr EXCEPT ![k] = [at |-> "raised", item |-> End]]
    /\ errors' = errors \cup {"closed"} /\ failed' = TRUE
    /\ UNCHANGED <<log, sink, outcome, q, closed, go, box, loop>>

WritePut(k) ==
    /\ wr[k].at = "put" /\ HasRoom
    /\ q' = Append(q, wr[k].item)
    /\ Run!Deliver(k, wr[k].item.unit)
    /\ wr' = [wr EXCEPT ![k] = Idle]
    /\ UNCHANGED <<errors, closed, go, box, loop>>

WriteFullGivesUp(k) ==
    /\ wr[k].at = "put" /\ ~HasRoom
    /\ Run!Deliver(k, wr[k].item.unit)
    /\ wr' = [wr EXCEPT ![k] = Idle]
    /\ UNCHANGED <<errors, q, closed, go, box, loop>>
WriteFull(k) ==
    /\ wr[k].at = "put" /\ ~HasRoom
    /\ wr' = [wr EXCEPT ![k].at = "test"]
    /\ UNCHANGED <<run, errors, q, closed, go, box, loop>>

\* Anything else in the run fails: a read, a decoder, a barrier broken by another worker.  The text
\* of such an error may hold "_Closed" too ("naming"): a short read names the path of its file.
RunFails ==
    \E e \in {"other", "naming"} \ errors :
        /\ outcome = "running"
        /\ errors' = errors \cup {e} /\ failed' = TRUE
        /\ UNCHANGED <<log, sink, outcome, wr, q, closed, go, box, loop>>

Worker(k) ==
    \/ BeginSink(k) \/ EndSink(k)
    \/ \E u \in Units : UnitCall(k, u) \/ Write(k, u)
    \/ WriteTest(k) \/ WriteClosed(k) \/ WritePut(k) \/ WriteFull(k)

-----------------------------------------------------------------------------
(* The thread of run() *)

\* run() has joined every worker: none is in a write.
AllOut == \A k \in Workers : wr[k].at \in {"idle", "raised"}

GoReturns ==
    /\ AllOut /\ Run!Return
    /\ go' = "mark"
    /\ UNCHANGED <<wr, errors, q, closed, box, loop>>

\* One of the errors is raised, whichever result came first.
GoRaises ==
    /\ AllOut /\ Run!Raise
    /\ box' \in errors /\ go' = "mark"
    /\ UNCHANGED <<wr, errors, q, closed, loop>>

GoMarkUnbounded ==
    /\ go = "mark"
    /\ q' = Append(q, End) /\ go' = "gone"
    /\ UNCHANGED <<run, wr, errors, closed, box, loop>>
GoMark ==
    /\ go = "mark" /\ HasRoom
    /\ q' = Append(q, End) /\ go' = "gone"
    /\ UNCHANGED <<run, wr, errors, closed, box, loop>>

\* A full queue that nobody will read: no end marker.
GoLeaves ==
    /\ go = "mark" /\ ~HasRoom /\ closed
    /\ go' = "gone"
    /\ UNCHANGED <<run, wr, errors, q, closed, box, loop>>

GoThread == GoReturns \/ GoRaises \/ GoMark \/ GoLeaves

-----------------------------------------------------------------------------
(* The generator *)

Get ==
    /\ con = "get" /\ q # <<>> /\ Head(q) # End
    /\ q' = Tail(q) /\ got' = Append(got, Head(q)) /\ con' = "body"
    /\ UNCHANGED <<run, wr, errors, closed, go, box, how>>

GetEnd ==
    /\ con = "get" /\ q # <<>> /\ Head(q) = End
    /\ q' = Tail(q) /\ closed' = TRUE /\ con' = "join" /\ how' = "ended"
    /\ UNCHANGED <<run, wr, errors, go, box, got>>

\* The body of the loop is done and asks for the next batch.
NextBatch ==
    /\ con = "body" /\ con' = "get"
    /\ UNCHANGED <<run, wr, errors, q, closed, go, box, how, got>>

\* break or an exception in the body; an interrupt in get().
Leave ==
    /\ con \in {"get", "body"}
    /\ closed' = TRUE /\ con' = "join" /\ how' = "left"
    /\ UNCHANGED <<run, wr, errors, q, go, box, got>>

\* The errors whose text holds "_Closed": that of a worker whose consumer is gone, and any other that
\* happens to.  The code looks at the text, not at the kind of the error.
NamesClosed == {"closed", "naming"}

\* After the join, the error of the run, unless its text holds "_Closed" or the loop was left (what it
\* was left for goes on).
EndingWithoutError == how
Ending == IF how = "ended" /\ box \notin {"none"} \cup NamesClosed THEN "raised" ELSE how
Join ==
    /\ con = "join" /\ go = "gone"
    /\ con' = "over" /\ how' = Ending
    /\ UNCHANGED <<run, wr, errors, q, closed, go, box, got>>

Terminated == con = "over" /\ UNCHANGED vars

Next ==
    \/ \E k \in Workers : Worker(k)
    \/ RunFails \/ GoThread
    \/ Get \/ GetEnd \/ NextBatch \/ Leave \/ Join
    \/ Terminated

Spec == Init /\ [][Next]_vars

\* Every thread is scheduled and the body of the loop ends; nothing makes it leave or fail.
Fairness ==
    /\ \A k \in Workers : WF_vars(Worker(k))
    /\ WF_vars(GoThread)
    /\ WF_vars(Get \/ GetEnd \/ NextBatch \/ Join)

FairSpec == Spec /\ Fairness

-----------------------------------------------------------------------------
(* Properties *)

\* The queue never holds more than depth batches per worker, end marker included, and every other
\* variable has its type (_iter.py, iterate).
TypeOK ==
    /\ failed \in BOOLEAN /\ outcome \in {"running", "returned", "raised"}
    /\ sink \in [Workers -> {"new", "begun", "ended"}] /\ DOMAIN log = Units
    /\ wr \in [Workers -> [at : {"idle", "test", "put", "raised"}, item : Items \cup {End}]]
    /\ errors \subseteq {"closed", "other", "naming"} /\ box \in errors \cup {"none"}
    /\ q \in Seq(Items \cup {End}) /\ Len(q) <= Depth * W
    /\ closed \in BOOLEAN /\ go \in {"run", "mark", "gone"}
    /\ con \in {"get", "body", "join", "over"} /\ how \in {"running", "ended", "left", "raised"}
    /\ got \in Seq(Items)

\* Of unit u, some items hold the first n batches, each of them once and in their order.
Holds(items, u, n) ==
    LET ofUnit == {i \in DOMAIN items : items[i].unit = u}
    IN  /\ {items[i].batch : i \in ofUnit} = 1 .. n
        /\ \A i, j \in ofUnit : i < j => items[i].batch < items[j].batch

Written(u) == Cardinality({i \in DOMAIN log[u] : log[u][i].call = "write"})

\* A batch whose write has returned is in the queue or was yielded, once, and the batches of a unit
\* keep their order, through every full queue and every retry (_QueueSink.write).
EveryWriteArrivesOnce ==
    \A u \in Units : Holds(got \o q, u, Written(u))

\* A loop that ends without an exception has seen every batch of every unit and the run returned, or
\* the run raised an error that is no _Closed but whose text holds the word: the test of iterate drops
\* that one, and the loop has seen what was written before it.  No other error is dropped, and no
\* _Closed reaches a loop that was not left (iterate).
AnEndedLoopIsComplete ==
    con = "over" /\ how = "ended" =>
        \/ outcome = "returned" /\ \A u \in Units : Holds(got, u, B)
        \/ /\ outcome = "raised" /\ box = "naming"
           /\ \A u \in Units : Holds(got, u, Written(u))

\* The loop ends, when it is read to the end and when it is left with the queue full and workers
\* waiting to put: the thread of run() is joined then (the finally of iterate).
TheLoopEnds == <>(con = "over" /\ go = "gone")
=============================================================================
