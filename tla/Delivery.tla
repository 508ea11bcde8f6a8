------------------------------ MODULE Delivery ------------------------------
(***************************************************************************)
(* What a run of the conveyor promises, without queues, buffers, readers   *)
(* or a barrier (src/src/conveyor/_engine.py, run): every unit is handed   *)
(* to one sink, whole and in frame order, a sink sees one unit at a time   *)
(* between its begin and its end, the call returns only when every unit    *)
(* has been delivered and every sink ended, it raises only when something  *)
(* failed, and nothing reaches a sink once the call is over.               *)
(***************************************************************************)
EXTENDS Integers, Sequences

CONSTANTS W,   \* workers, each with a sink of its own
          N,   \* units, in file order
          B,   \* batches of frames in a unit
          P    \* read calls that fill a buffer with a unit

VARIABLES log,      \* log[u]: the calls made to sinks about unit u, in order
          sink,     \* sink[k]: the lifetime of worker k's sink
          failed,   \* some step of the run failed
          outcome   \* what the call to run() did

vars == <<log, sink, failed, outcome>>

Workers == 0 .. W - 1
Units   == 1 .. N

\* A buffer that holds the whole of unit u.
Whole(u) == [unit |-> u, got |-> P]

\* The i-th of the B + 2 calls a sink gets about unit u when worker k has it.
Call(k, u, i) ==
    [call  |-> CASE i = 1 -> "begin_unit" [] i = B + 2 -> "end_unit" [] OTHER -> "write",
     by    |-> k,
     batch |-> IF i \in 2 .. B + 1 THEN i - 1 ELSE 0,
     data  |-> IF i \in 2 .. B + 1 THEN Whole(u) ELSE [unit |-> 0, got |-> 0]]

Delivered(u) == Len(log[u]) = B + 2

\* Worker k is in the middle of unit u.
Open(k, u) == Len(log[u]) \in 1 .. B + 1 /\ log[u][1].by = k

-----------------------------------------------------------------------------
Init ==
    /\ log     = [u \in Units |-> <<>>]
    /\ sink    = [k \in Workers |-> "new"]
    /\ failed  = FALSE
    /\ outcome = "running"

BeginSink(k) ==
    /\ outcome # "returned"
    /\ sink[k] = "new"
    /\ sink' = [sink EXCEPT ![k] = "begun"]
    /\ UNCHANGED <<log, failed, outcome>>

\* The next call about unit u: by whoever has it, or by a worker with no other unit open.
Deliver(k, u) ==
    /\ outcome = "running"
    /\ sink[k] = "begun"
    /\ ~Delivered(u)
    /\ \A v \in Units : Open(k, v) => v = u
    /\ Open(k, u) \/ log[u] = <<>>
    /\ log' = [log EXCEPT ![u] = Append(@, Call(k, u, Len(@) + 1))]
    /\ UNCHANGED <<sink, failed, outcome>>

EndSink(k) ==
    /\ outcome = "running"
    /\ sink[k] = "begun"
    /\ \A u \in Units : ~Open(k, u)
    /\ sink' = [sink EXCEPT ![k] = "ended"]
    /\ UNCHANGED <<log, failed, outcome>>

Fail ==
    /\ ~failed
    /\ failed' = TRUE
    /\ UNCHANGED <<log, sink, outcome>>

Return ==
    /\ outcome = "running"
    /\ ~failed
    /\ \A u \in Units : Delivered(u)
    /\ \A k \in Workers : sink[k] = "ended"
    /\ outcome' = "returned"
    /\ UNCHANGED <<log, sink, failed>>

Raise ==
    /\ outcome = "running"
    /\ failed
    /\ outcome' = "raised"
    /\ UNCHANGED <<log, sink, failed>>

Next ==
    \/ \E k \in Workers : BeginSink(k) \/ EndSink(k)
    \/ \E k \in Workers, u \in Units : Deliver(k, u)
    \/ Fail \/ Return \/ Raise

Spec == Init /\ [][Next]_vars
=============================================================================
