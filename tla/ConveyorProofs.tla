--------------------------- MODULE ConveyorProofs ---------------------------
(***************************************************************************)
(* Theorems about the conveyor engine for any number of workers, buffers,  *)
(* units, batches and reads, whatever calls fail: the state is well typed, *)
(* every buffer has one user at a time, a worker decodes the unit that was *)
(* read for it, whole, and no queue runs dry: a reader that waits for a    *)
(* unit finds one, and is ahead of its worker by its buffers at most.  The *)
(* second half: the engine implements Delivery.                            *)
(***************************************************************************)
EXTENDS Conveyor, SequenceTheorems, FiniteSetTheorems, TLAPS

\* The blocks of two workers do not meet, and lie within the buffer (k * S, _engine.py).
LEMMA BlocksAreDisjoint ==
    /\ \A k \in Workers : Block(k) \subseteq Slots
    /\ \A j, k \in Workers : j # k => Block(j) \cap Block(k) = {}
PROOF
<1>1. ASSUME NEW a \in Nat, NEW b \in Nat, a < b
      PROVE  a * S + S <= b * S
    <2>1. PICK d \in Nat : b = a + 1 + d
        <3>1. b - a - 1 \in Nat /\ b = a + 1 + (b - a - 1)
            BY <1>1
        <3> QED BY <3>1
    <2>2. b * S = a * S + S + d * S
        BY <2>1, ConveyorAssumption
    <2>3. d * S \in Nat /\ a * S \in Nat
        BY <2>1, ConveyorAssumption
    <2> QED BY <2>2, <2>3, ConveyorAssumption
<1>2. \A k \in Workers : Block(k) \subseteq Slots
    <2> SUFFICES ASSUME NEW k \in Workers PROVE Block(k) \subseteq Slots
        OBVIOUS
    <2>1. k \in Nat /\ W \in Nat /\ k < W
        BY ConveyorAssumption DEF Workers
    <2>2. k * S + S <= W * S
        BY <1>1, <2>1
    <2>3. k * S \in Nat /\ W * S \in Nat
        BY <2>1, ConveyorAssumption
    <2> QED BY <2>2, <2>3, ConveyorAssumption DEF Block, Slots
<1>3. ASSUME NEW j \in Workers, NEW k \in Workers, j < k
      PROVE  Block(j) \cap Block(k) = {}
    <2>1. j * S + S <= k * S
        BY <1>1, <1>3 DEF Workers
    <2>2. j * S \in Nat /\ k * S \in Nat
        BY ConveyorAssumption DEF Workers
    <2> QED BY <2>1, <2>2, ConveyorAssumption DEF Block
<1>4. \A j, k \in Workers : j # k => j < k \/ k < j
    BY DEF Workers
<1> QED BY <1>2, <1>3, <1>4

\* The buffers a worker offers are its block, each once; a waker names buffer 0.
LEMMA QueuedSlots ==
    /\ \A k \in Workers : /\ SlotsOf(k) \in Seq(Slots)
                          /\ Len(SlotsOf(k)) = S
                          /\ \A i \in 1 .. S : SlotsOf(k)[i] = k * S + i - 1
    /\ Wakers \in Seq(Slots)
    /\ 0 \in Slots
PROOF
<1>1. 0 \in Slots
    <2>1. 0 \in Workers /\ 0 * S = 0
        BY ConveyorAssumption DEF Workers
    <2>2. 0 \in Block(0)
        BY <2>1, ConveyorAssumption DEF Block
    <2> QED BY <2>1, <2>2, BlocksAreDisjoint
<1>2. Wakers \in Seq(Slots)
    BY <1>1, ConveyorAssumption DEF Wakers
<1>3. ASSUME NEW k \in Workers
      PROVE  /\ SlotsOf(k) \in Seq(Slots)
             /\ Len(SlotsOf(k)) = S
             /\ \A i \in 1 .. S : SlotsOf(k)[i] = k * S + i - 1
    <2>1. k * S \in Nat
        BY ConveyorAssumption DEF Workers
    <2>2. \A i \in 1 .. S : k * S + i - 1 \in Block(k)
        BY <2>1, ConveyorAssumption DEF Block
    <2>3. \A i \in 1 .. S : k * S + i - 1 \in Slots
        BY <2>2, BlocksAreDisjoint
    <2> QED BY <2>3, ConveyorAssumption DEF SlotsOf
<1> QED BY <1>1, <1>2, <1>3

\* The values the fields of a thread are reset to are in range.
LEMMA Bounds ==
    0 \in Slots /\ 0 \in 0 .. N /\ 0 \in 0 .. B /\ 1 \in 0 .. B /\ 0 \in 0 .. P
PROOF BY QueuedSlots, ConveyorAssumption

-----------------------------------------------------------------------------
(* Type correctness.  Alone it is not inductive: the unit and the buffer a  *)
(* thread has in its hands are in range by Ownership.                       *)

\* Every initial value has its type.
LEMMA TypeInit == Init => TypeOK
PROOF
<1> SUFFICES ASSUME Init PROVE TypeOK
    OBVIOUS
<1>1. RunTypes
    <2>1. main \in MainPC /\ raised \subseteq Errors
        BY DEF Init, MainPC
    <2>2. barrier \in {"filling", "open", "broken"} /\ go \in BOOLEAN /\ stop \in BOOLEAN
        BY DEF Init
    <2>3. taken \in -1 .. N + W
        BY ConveyorAssumption DEF Init
    <2> QED BY <2>1, <2>2, <2>3 DEF RunTypes
<1>2. ThreadTypes
    BY Bounds DEF Init, ThreadTypes, WorkerState, ReaderState, WorkerPC, ReaderPC, Errors
<1>3. QueueTypes
    BY DEF Init, QueueTypes
<1>4. BufferTypes
    BY Bounds DEF Init, BufferTypes, Content, Empty
<1>5. SinkTypes
    BY DEF Init, SinkTypes
<1> QED
    BY <1>1, <1>2, <1>3, <1>4, <1>5 DEF TypeOK

\* What a worker takes from its ready queue is a buffer and a unit, or DONE.
LEMMA ReadyItem ==
    ASSUME QueueTypes, NEW k \in Workers, ready[k] # <<>>
    PROVE  /\ Head(ready[k]) \in Items
           /\ Head(ready[k]).slot \in Slots /\ Head(ready[k]).unit \in 0 .. N
PROOF
<1>1. Head(ready[k]) \in Items
    BY DEF QueueTypes
<1> QED BY <1>1, Bounds DEF Items, DoneItem, Done, Units

\* A call of a sink about a unit of the file keeps the log typed.
LEMMA LoggedTyped ==
    ASSUME SinkTypes, NEW k \in Workers, w[k].unit \in Units,
           NEW c \in {"begin_unit", "write", "end_unit"}, NEW b \in 0 .. B, NEW d \in Content,
           Logged(k, c, b, d)
    PROVE  log' \in [Units -> Seq(SinkCall)]
PROOF
<1> DEFINE rec == [call |-> c, by |-> k, batch |-> b, data |-> d]
<1>1. rec \in SinkCall
    BY DEF SinkCall
<1>2. log' = [log EXCEPT ![w[k].unit] = Append(@, rec)]
    BY DEF Logged
<1> HIDE DEF rec
<1> QED BY <1>1, <1>2 DEF SinkTypes

\* A step of a worker keeps what run() and the threads share typed.
LEMMA WorkerKeepsRunTypes ==
    ASSUME RunTypes, NEW k \in Workers, WorkerThread(k)
    PROVE  RunTypes'
PROOF
<1> USE DEF RunTypes
<1>1. CASE WorkerStart(k)
    BY <1>1 DEF WorkerStart
<1>2. CASE WorkerWait(k)
    BY <1>2 DEF WorkerWait
<1>3. CASE WorkerOpenBarrier(k)
    BY <1>3 DEF WorkerOpenBarrier
<1>4. CASE WorkerPassBarrier(k)
    BY <1>4 DEF WorkerPassBarrier
<1>5. CASE WorkerGo(k)
    BY <1>5 DEF WorkerGo
<1>6. CASE WorkerGet(k)
    BY <1>6 DEF WorkerGet
<1>7. CASE WorkerBeginUnit(k)
    BY <1>7 DEF WorkerBeginUnit
<1>8. CASE WorkerBatch(k)
    BY <1>8 DEF WorkerBatch
<1>9. CASE WorkerEndUnit(k)
    BY <1>9 DEF WorkerEndUnit
<1>10. CASE WorkerDrain(k)
    BY <1>10 DEF WorkerDrain
<1>11. CASE WorkerEnd(k)
    BY <1>11 DEF WorkerEnd
<1>12. CASE WorkerRaises(k)
    BY <1>12 DEF WorkerRaises
<1>13. CASE WorkerReport(k)
    BY <1>13 DEF WorkerReport
<1> QED
    BY <1>1, <1>2, <1>3, <1>4, <1>5, <1>6, <1>7, <1>8, <1>9, <1>10, <1>11, <1>12, <1>13 DEF WorkerThread

\* A worker takes only buffers and units it got from its ready queue.
LEMMA WorkerKeepsThreadTypes ==
    ASSUME ThreadTypes, QueueTypes, NEW k \in Workers, WorkerThread(k)
    PROVE  ThreadTypes'
PROOF
<1> USE DEF ThreadTypes, WorkerState, WorkerPC, Errors
<1>1. CASE WorkerStart(k)
    BY <1>1 DEF WorkerStart
<1>2. CASE WorkerWait(k)
    BY <1>2 DEF WorkerWait
<1>3. CASE WorkerOpenBarrier(k)
    BY <1>3 DEF WorkerOpenBarrier
<1>4. CASE WorkerPassBarrier(k)
    BY <1>4 DEF WorkerPassBarrier
<1>5. CASE WorkerGo(k)
    BY <1>5 DEF WorkerGo
<1>6. CASE WorkerGet(k)
    <2> DEFINE item == Head(ready[k])
    <2>1. item.slot \in Slots /\ item.unit \in 0 .. N
        BY <1>6, ReadyItem DEF WorkerGet
    <2> HIDE DEF item
    <2>2. r' = r
        BY <1>6 DEF WorkerGet
    <2>3. CASE w' = [w EXCEPT ![k].pc = "drain"]
        BY <2>2, <2>3
    <2>4. CASE w' = [w EXCEPT ![k] = [@ EXCEPT !.pc = "begin", !.slot = item.slot,
                                                !.unit = item.unit]]
        BY <2>1, <2>2, <2>4
    <2> QED BY <1>6, <2>3, <2>4 DEF WorkerGet, item
<1>7. CASE WorkerBeginUnit(k)
    <2>1. r' = r /\ w' = [w EXCEPT ![k] = [@ EXCEPT !.pc = "batch", !.batch = 1]]
        BY <1>7 DEF WorkerBeginUnit
    <2> QED BY <2>1, Bounds
<1>8. CASE WorkerBatch(k)
    BY <1>8, ConveyorAssumption DEF WorkerBatch
<1>9. CASE WorkerEndUnit(k)
    <2>1. /\ r' = r
          /\ w' = [w EXCEPT ![k] = [@ EXCEPT !.pc = "get", !.slot = 0, !.unit = 0, !.batch = 0]]
        BY <1>9 DEF WorkerEndUnit
    <2> QED BY <2>1, Bounds
<1>10. CASE WorkerDrain(k)
    BY <1>10 DEF WorkerDrain
<1>11. CASE WorkerEnd(k)
    BY <1>11 DEF WorkerEnd
<1>12. CASE WorkerRaises(k)
    BY <1>12, Bounds DEF WorkerRaises, WorkerError, WorkerFailed
<1>13. CASE WorkerReport(k)
    BY <1>13 DEF WorkerReport
<1> QED
    BY <1>1, <1>2, <1>3, <1>4, <1>5, <1>6, <1>7, <1>8, <1>9, <1>10, <1>11, <1>12, <1>13 DEF WorkerThread

\* A worker puts only buffers, and wakers naming buffer 0, on its free queue.
LEMMA WorkerKeepsQueueTypes ==
    ASSUME ThreadTypes, QueueTypes, NEW k \in Workers, WorkerThread(k)
    PROVE  QueueTypes'
PROOF
<1> USE DEF QueueTypes
<1>1. CASE WorkerStart(k)
    BY <1>1, QueuedSlots DEF WorkerStart
<1>2. CASE WorkerWait(k)
    BY <1>2 DEF WorkerWait
<1>3. CASE WorkerOpenBarrier(k)
    BY <1>3 DEF WorkerOpenBarrier
<1>4. CASE WorkerPassBarrier(k)
    BY <1>4 DEF WorkerPassBarrier
<1>5. CASE WorkerGo(k)
    BY <1>5 DEF WorkerGo
<1>6. CASE WorkerGet(k)
    BY <1>6 DEF WorkerGet
<1>7. CASE WorkerBeginUnit(k)
    BY <1>7 DEF WorkerBeginUnit
<1>8. CASE WorkerBatch(k)
    BY <1>8 DEF WorkerBatch
<1>9. CASE WorkerEndUnit(k)
    BY <1>9 DEF WorkerEndUnit, ThreadTypes, WorkerState
<1>10. CASE WorkerDrain(k)
    BY <1>10, QueuedSlots DEF WorkerDrain
<1>11. CASE WorkerEnd(k)
    BY <1>11 DEF WorkerEnd
<1>12. CASE WorkerRaises(k)
    BY <1>12, QueuedSlots DEF WorkerRaises
<1>13. CASE WorkerReport(k)
    BY <1>13 DEF WorkerReport, Result, ThreadTypes, WorkerState
<1> QED
    BY <1>1, <1>2, <1>3, <1>4, <1>5, <1>6, <1>7, <1>8, <1>9, <1>10, <1>11, <1>12, <1>13 DEF WorkerThread

\* A worker writes no buffer.
LEMMA WorkerKeepsBufferTypes ==
    ASSUME BufferTypes, NEW k \in Workers, WorkerThread(k)
    PROVE  BufferTypes'
PROOF
    BY DEF BufferTypes, WorkerThread, WorkerStart, WorkerWait, WorkerOpenBarrier,
           WorkerPassBarrier, WorkerGo, WorkerGet, WorkerBeginUnit, WorkerBatch, WorkerEndUnit,
           WorkerDrain, WorkerEnd, WorkerRaises, WorkerReport

\* A worker calls its sink about a unit of the file: by Ownership it has one in its hands.
LEMMA WorkerKeepsSinkTypes ==
    ASSUME TypeOK, Ownership, NEW k \in Workers, WorkerThread(k)
    PROVE  SinkTypes'
PROOF
<1> USE DEF SinkTypes, TypeOK
<1>1. CASE WorkerStart(k)
    BY <1>1 DEF WorkerStart
<1>2. CASE WorkerWait(k)
    BY <1>2 DEF WorkerWait
<1>3. CASE WorkerOpenBarrier(k)
    BY <1>3 DEF WorkerOpenBarrier
<1>4. CASE WorkerPassBarrier(k)
    BY <1>4 DEF WorkerPassBarrier
<1>5. CASE WorkerGo(k)
    BY <1>5 DEF WorkerGo
<1>6. CASE WorkerGet(k)
    BY <1>6 DEF WorkerGet
<1>7. CASE WorkerBeginUnit(k)
    <2>1. w[k].unit \in Units
        BY <1>7 DEF WorkerBeginUnit, Ownership, Owned, WorkerOwned, WorkerHolds
    <2>2. 0 \in 0 .. B /\ Empty \in Content
        BY <1>7, Bounds DEF Empty, Content
    <2>3. Logged(k, "begin_unit", 0, Empty)
        BY <1>7 DEF WorkerBeginUnit
    <2>4. log' \in [Units -> Seq(SinkCall)]
        BY <2>1, <2>2, <2>3, LoggedTyped
    <2> QED BY <1>7, <2>4 DEF WorkerBeginUnit
<1>8. CASE WorkerBatch(k)
    <2>1. w[k].unit \in Units
        BY <1>8 DEF WorkerBatch, Ownership, Owned, WorkerOwned, WorkerHolds
    <2>2. w[k].batch \in 0 .. B /\ buf[w[k].slot] \in Content
        BY <1>8, Bounds DEF ThreadTypes, WorkerState, BufferTypes
    <2>3. Logged(k, "write", w[k].batch, buf[w[k].slot])
        BY <1>8 DEF WorkerBatch
    <2>4. log' \in [Units -> Seq(SinkCall)]
        BY <2>1, <2>2, <2>3, LoggedTyped
    <2> QED BY <1>8, <2>4 DEF WorkerBatch
<1>9. CASE WorkerEndUnit(k)
    <2>1. w[k].unit \in Units
        BY <1>9 DEF WorkerEndUnit, Ownership, Owned, WorkerOwned, WorkerHolds
    <2>2. 0 \in 0 .. B /\ Empty \in Content
        BY <1>9, Bounds DEF Empty, Content
    <2>3. Logged(k, "end_unit", 0, Empty)
        BY <1>9 DEF WorkerEndUnit
    <2>4. log' \in [Units -> Seq(SinkCall)]
        BY <2>1, <2>2, <2>3, LoggedTyped
    <2> QED BY <1>9, <2>4 DEF WorkerEndUnit
<1>10. CASE WorkerDrain(k)
    BY <1>10 DEF WorkerDrain
<1>11. CASE WorkerEnd(k)
    BY <1>11 DEF WorkerEnd
<1>12. CASE WorkerRaises(k)
    BY <1>12 DEF WorkerRaises
<1>13. CASE WorkerReport(k)
    BY <1>13 DEF WorkerReport
<1> QED
    BY <1>1, <1>2, <1>3, <1>4, <1>5, <1>6, <1>7, <1>8, <1>9, <1>10, <1>11, <1>12, <1>13 DEF WorkerThread

\* A step of a reader keeps what run() and the threads share typed.
LEMMA ReaderKeepsRunTypes ==
    ASSUME RunTypes, NEW k \in Workers, ReaderThread(k)
    PROVE  RunTypes'
PROOF
<1> USE DEF RunTypes
<1>1. CASE ReaderStart(k)
    BY <1>1 DEF ReaderStart
<1>2. CASE ReaderSlot(k)
    BY <1>2 DEF ReaderSlot
<1>3. CASE ReaderTake(k)
    BY <1>3, ConveyorAssumption DEF ReaderTake, Todo
<1>4. CASE ReaderRead(k)
    BY <1>4 DEF ReaderRead
<1>5. CASE ReaderDeliver(k)
    BY <1>5 DEF ReaderDeliver
<1>6. CASE ReaderFinish(k)
    BY <1>6 DEF ReaderFinish
<1>7. CASE ReaderRaises(k)
    BY <1>7 DEF ReaderRaises
<1>8. CASE ReaderReport(k)
    BY <1>8 DEF ReaderReport
<1> QED
    BY <1>1, <1>2, <1>3, <1>4, <1>5, <1>6, <1>7, <1>8 DEF ReaderThread

\* A reader ends a read of P pieces at P: by Ownership it has read fewer while it reads.
LEMMA ReaderKeepsThreadTypes ==
    ASSUME TypeOK, Ownership, NEW k \in Workers, ReaderThread(k)
    PROVE  ThreadTypes'
PROOF
<1> USE DEF TypeOK, ThreadTypes, ReaderState, ReaderPC, Errors
<1>1. CASE ReaderStart(k)
    BY <1>1 DEF ReaderStart
<1>2. CASE ReaderSlot(k)
    <2>1. w' = w /\ Head(free[k]) \in Slots
        BY <1>2 DEF ReaderSlot, QueueTypes
    <2>2. CASE r' = [r EXCEPT ![k].pc = "finish"]
        BY <2>1, <2>2
    <2>3. CASE r' = [r EXCEPT ![k] = [@ EXCEPT !.pc = "take", !.slot = Head(free[k])]]
        BY <2>1, <2>3
    <2> QED BY <1>2, <2>2, <2>3 DEF ReaderSlot
<1>3. CASE ReaderTake(k)
    <2>1. w' = w /\ taken + 1 \in 1 .. N + W
        BY <1>3, ConveyorAssumption DEF ReaderTake, Todo
    <2>2. Todo[taken + 1] \in 0 .. N
        BY <2>1, ConveyorAssumption DEF Todo, Done
    <2>3. CASE r' = [r EXCEPT ![k] = [@ EXCEPT !.pc = "finish", !.slot = 0]]
        BY <2>1, <2>3, Bounds
    <2>4. CASE r' = [r EXCEPT ![k] = [@ EXCEPT !.pc = "read", !.unit = Todo[taken + 1]]]
        BY <2>1, <2>2, <2>4
    <2> QED BY <1>3, <2>3, <2>4 DEF ReaderTake
<1>4. CASE ReaderRead(k)
    <2> DEFINE got == r[k].got + 1
               pc  == IF got = P THEN "deliver" ELSE "read"
    <2>1. got \in 0 .. P
        BY <1>4, ConveyorAssumption DEF ReaderRead, Ownership, Owned, ReaderOwned
    <2>2. w' = w /\ r' = [r EXCEPT ![k] = [@ EXCEPT !.got = got, !.pc = pc]] /\ pc \in ReaderPC
        BY <1>4 DEF ReaderRead
    <2> HIDE DEF got, pc
    <2> QED BY <2>1, <2>2
<1>5. CASE ReaderDeliver(k)
    <2>1. /\ w' = w
          /\ r' = [r EXCEPT ![k] = [@ EXCEPT !.pc = "slot", !.slot = 0, !.unit = 0, !.got = 0]]
        BY <1>5 DEF ReaderDeliver
    <2> QED BY <2>1, Bounds
<1>6. CASE ReaderFinish(k)
    BY <1>6 DEF ReaderFinish
<1>7. CASE ReaderRaises(k)
    BY <1>7, Bounds DEF ReaderRaises, ReaderFailed
<1>8. CASE ReaderReport(k)
    BY <1>8 DEF ReaderReport
<1> QED
    BY <1>1, <1>2, <1>3, <1>4, <1>5, <1>6, <1>7, <1>8 DEF ReaderThread

\* A reader delivers a unit of the file, by Ownership, or DONE.
LEMMA ReaderKeepsQueueTypes ==
    ASSUME TypeOK, Ownership, NEW k \in Workers, ReaderThread(k)
    PROVE  QueueTypes'
PROOF
<1> USE DEF TypeOK, QueueTypes
<1>1. CASE ReaderStart(k)
    BY <1>1 DEF ReaderStart
<1>2. CASE ReaderSlot(k)
    BY <1>2 DEF ReaderSlot
<1>3. CASE ReaderTake(k)
    BY <1>3 DEF ReaderTake
<1>4. CASE ReaderRead(k)
    BY <1>4 DEF ReaderRead
<1>5. CASE ReaderDeliver(k)
    <2> DEFINE item == [slot |-> r[k].slot, unit |-> r[k].unit]
    <2>1. item \in Items
        BY <1>5 DEF ReaderDeliver, Items, Ownership, Owned, ReaderOwned, ReaderFills, ThreadTypes, ReaderState
    <2>2. ready' = [ready EXCEPT ![k] = Append(@, item)] /\ UNCHANGED <<free, results>>
        BY <1>5 DEF ReaderDeliver
    <2> HIDE DEF item
    <2> QED BY <2>1, <2>2
<1>6. CASE ReaderFinish(k)
    BY <1>6 DEF ReaderFinish, Items
<1>7. CASE ReaderRaises(k)
    BY <1>7 DEF ReaderRaises, Items
<1>8. CASE ReaderReport(k)
    BY <1>8 DEF ReaderReport, Result, ThreadTypes, ReaderState
<1> QED
    BY <1>1, <1>2, <1>3, <1>4, <1>5, <1>6, <1>7, <1>8 DEF ReaderThread

\* A reader writes a unit of the file, and at most P pieces of it.
LEMMA ReaderKeepsBufferTypes ==
    ASSUME TypeOK, Ownership, NEW k \in Workers, ReaderThread(k)
    PROVE  BufferTypes'
PROOF
<1> USE DEF TypeOK, BufferTypes
<1>1. CASE ReaderStart(k)
    BY <1>1 DEF ReaderStart
<1>2. CASE ReaderSlot(k)
    BY <1>2 DEF ReaderSlot
<1>3. CASE ReaderTake(k)
    BY <1>3 DEF ReaderTake
<1>4. CASE ReaderRead(k)
    <2> DEFINE got == r[k].got + 1
    <2>1. [unit |-> r[k].unit, got |-> got] \in Content
        BY <1>4, ConveyorAssumption
        DEF ReaderRead, Ownership, Owned, ReaderOwned, ThreadTypes, ReaderState, Content
    <2>2. buf' = [buf EXCEPT ![r[k].slot] = [unit |-> r[k].unit, got |-> got]]
        BY <1>4 DEF ReaderRead
    <2> HIDE DEF got
    <2> QED BY <2>1, <2>2
<1>5. CASE ReaderDeliver(k)
    BY <1>5 DEF ReaderDeliver
<1>6. CASE ReaderFinish(k)
    BY <1>6 DEF ReaderFinish
<1>7. CASE ReaderRaises(k)
    BY <1>7 DEF ReaderRaises
<1>8. CASE ReaderReport(k)
    BY <1>8 DEF ReaderReport
<1> QED
    BY <1>1, <1>2, <1>3, <1>4, <1>5, <1>6, <1>7, <1>8 DEF ReaderThread

\* A reader calls no sink.
LEMMA ReaderKeepsSinkTypes ==
    ASSUME SinkTypes, NEW k \in Workers, ReaderThread(k)
    PROVE  SinkTypes'
PROOF
    BY DEF SinkTypes, ReaderThread, ReaderStart, ReaderSlot, ReaderTake, ReaderRead,
           ReaderDeliver, ReaderFinish, ReaderRaises, ReaderReport

\* Every result carries an error or none.
LEMMA ResultErrors ==
    ASSUME QueueTypes
    PROVE  /\ Len(results) \in Nat
           /\ \A i \in 1 .. Len(results) : results[i].error \in Errors
PROOF
<1>1. results \in Seq(Result)
    BY DEF QueueTypes
<1>2. Len(results) \in Nat /\ \A i \in 1 .. Len(results) : results[i] \in Result
    BY <1>1, LenProperties, ElementOfSeq
<1> QED BY <1>2 DEF Result

\* run() keeps every type: it changes its own state, the events and the barrier.
LEMMA MainKeepsTypes ==
    ASSUME TypeOK, MainThread
    PROVE  TypeOK'
PROOF
<1> USE DEF TypeOK, RunTypes, ThreadTypes, QueueTypes, BufferTypes, SinkTypes
<1>1. CASE MainWait
    BY <1>1 DEF MainWait, MainPC
<1>2. CASE MainOpenBarrier
    BY <1>2 DEF MainOpenBarrier, MainPC
<1>3. CASE MainPassBarrier
    BY <1>3 DEF MainPassBarrier, MainPC
<1>4. CASE MainAbandon
    BY <1>4 DEF MainAbandon, MainPC
<1>5. CASE MainQueue
    <2>1. taken' \in -1 .. N + W
        BY <1>5, ConveyorAssumption DEF MainQueue
    <2> QED BY <1>5, <2>1 DEF MainQueue, MainPC
<1>6. CASE MainGiveUp
    <2>1. raised' \subseteq Errors
        <3>1. W \in 0 .. Len(results)
            BY <1>6, ConveyorAssumption DEF MainGiveUp
        <3>2. \A i \in 1 .. W : results[i].error \in Errors
            BY <3>1, ResultErrors
        <3> QED BY <1>6, <3>2 DEF MainGiveUp, Failures
    <2> QED BY <1>6, <2>1 DEF MainGiveUp, MainPC
<1>7. CASE MainFinish
    <2>1. raised' \subseteq Errors /\ main' \in MainPC
        <3>1. ResultsWanted \in 0 .. Len(results)
            BY <1>7, ConveyorAssumption DEF MainFinish, ResultsWanted
        <3>2. \A i \in 1 .. ResultsWanted : results[i].error \in Errors
            BY <3>1, ResultErrors
        <3> QED BY <1>7, <3>2 DEF MainFinish, Failures, MainPC
    <2> QED BY <1>7, <2>1 DEF MainFinish
<1> QED
    BY <1>1, <1>2, <1>3, <1>4, <1>5, <1>6, <1>7 DEF MainThread

\* Types are kept by every step from a state in which each buffer has its owner.
LEMMA TypeStep == TypeOK /\ Ownership /\ [Next]_vars => TypeOK'
PROOF
<1> SUFFICES ASSUME TypeOK, Ownership, [Next]_vars PROVE TypeOK'
    OBVIOUS
<1> USE DEF TypeOK
<1>1. CASE \E k \in Workers : WorkerThread(k)
    BY <1>1, WorkerKeepsRunTypes, WorkerKeepsThreadTypes, WorkerKeepsQueueTypes,
       WorkerKeepsBufferTypes, WorkerKeepsSinkTypes
<1>2. CASE \E k \in Workers : ReaderThread(k)
    BY <1>2, ReaderKeepsRunTypes, ReaderKeepsThreadTypes, ReaderKeepsQueueTypes,
       ReaderKeepsBufferTypes, ReaderKeepsSinkTypes
<1>3. CASE MainThread
    BY <1>3, MainKeepsTypes
<1>4. CASE UNCHANGED vars
    BY <1>4 DEF vars, RunTypes, ThreadTypes, QueueTypes, BufferTypes, SinkTypes
<1> QED
    BY <1>1, <1>2, <1>3, <1>4 DEF Next, Terminated

-----------------------------------------------------------------------------
(* Who owns which buffer *)

\* Before the workers offer their buffers nothing is owned.
LEMMA OwnershipInit == Init => Ownership
PROOF
    BY Bounds
    DEF Init, Ownership, Owned, FreeOwned, ReaderOwned, ReadyOwned, WorkerOwned, LoopEnded, InLoop,
        ReaderHas, ReaderFills, WorkerHolds, Queued

\* A step of others that leaves the threads and queues of worker j and its buffers alone.
LEMMA OthersStayOwned ==
    ASSUME NEW j \in Workers, Owned(j),
           w'[j] = w[j], r'[j] = r[j], free'[j] = free[j], ready'[j] = ready[j],
           \A s \in Block(j) : buf'[s] = buf[s],
           stop => stop'
    PROVE  Owned(j)'
PROOF
<1> USE DEF InLoop, ReaderHas, ReaderFills, WorkerHolds, Queued
<1>1. FreeOwned(j)'
    BY DEF Owned, FreeOwned, Block
<1>2. ReaderOwned(j)'
    BY DEF Owned, ReaderOwned, Block, Whole
<1>3. ReadyOwned(j)'
    BY DEF Owned, ReadyOwned, Block, Whole
<1>4. WorkerOwned(j)'
    BY DEF Owned, WorkerOwned, Block, Whole
<1>5. LoopEnded(j)'
    BY DEF Owned, LoopEnded
<1> QED
    BY <1>1, <1>2, <1>3, <1>4, <1>5 DEF Owned

\* A step of worker k keeps the ownership of the buffers of worker k.
LEMMA WorkerKeepsOwned ==
    ASSUME TypeOK, NEW k \in Workers, Owned(k), WorkerThread(k)
    PROVE  Owned(k)'
PROOF
<1> USE DEF TypeOK, ThreadTypes, QueueTypes, Owned, FreeOwned, ReaderOwned, ReadyOwned, WorkerOwned,
          LoopEnded, InLoop, ReaderHas, ReaderFills, WorkerHolds, Queued
<1>1. CASE WorkerStart(k)
    <2>1. free[k] = <<>> /\ Queued(k) = {} /\ ~ReaderHas(k)
        BY <1>1 DEF WorkerStart
    <2>2. free'[k] = SlotsOf(k)
        BY <1>1, <2>1, QueuedSlots DEF WorkerStart
    <2>3. /\ \A i \in 1 .. Len(free'[k]) : free'[k][i] \in Block(k)
          /\ \A i, j \in 1 .. Len(free'[k]) : free'[k][i] = free'[k][j] => i = j
        <3> DEFINE base == k * S
        <3>1. base \in Nat
            BY ConveyorAssumption DEF Workers
        <3>2. Len(SlotsOf(k)) = S /\ \A i \in 1 .. S : SlotsOf(k)[i] = base + i - 1
            BY QueuedSlots
        <3>3. Block(k) = base .. base + S - 1
            BY DEF Block
        <3> HIDE DEF base
        <3> QED BY <2>2, <3>1, <3>2, <3>3, ConveyorAssumption
    <2>4. /\ w'[k].pc = "arrive"
          /\ r' = r /\ ready' = ready /\ buf' = buf /\ stop' = stop
        BY <1>1 DEF WorkerStart
    <2> QED BY <2>1, <2>3, <2>4
<1>2. CASE WorkerWait(k)
    BY <1>2 DEF WorkerWait
<1>3. CASE WorkerOpenBarrier(k)
    BY <1>3 DEF WorkerOpenBarrier
<1>4. CASE WorkerPassBarrier(k)
    BY <1>4 DEF WorkerPassBarrier
<1>5. CASE WorkerGo(k)
    BY <1>5 DEF WorkerGo
<1>6. CASE WorkerGet(k)
    <2> DEFINE item == Head(ready[k])
    <2>1. /\ ready'[k] = Tail(ready[k]) /\ ready[k] # <<>>
          /\ r' = r /\ free' = free /\ buf' = buf /\ stop' = stop
          /\ w[k].pc = "get"
        BY <1>6 DEF WorkerGet
    <2>2. /\ item = ready[k][1] /\ 1 \in 1 .. Len(ready[k])
          /\ Len(ready'[k]) = Len(ready[k]) - 1
          /\ \A i \in 1 .. Len(ready'[k]) : ready'[k][i] = ready[k][i + 1]
                                            /\ i + 1 \in 1 .. Len(ready[k])
        BY <2>1
    <2>3. item \in Items
        BY <2>1, ReadyItem
    <2> HIDE DEF item
    <2>4. CASE item.unit = Done \/ stop
        <3>1. w'[k].pc = "drain"
            BY <1>6, <2>4 DEF WorkerGet, item
        <3> QED BY <2>1, <2>2, <2>4, <3>1
    <2>5. CASE ~(item.unit = Done \/ stop)
        <3>1. w'[k].pc = "begin" /\ w'[k].slot = item.slot /\ w'[k].unit = item.unit
            BY <1>6, <2>5 DEF WorkerGet, item
        <3>2. item.unit \in Units
            BY <2>3, <2>5 DEF Items, DoneItem, Done
        <3> QED BY <2>1, <2>2, <2>5, <3>1, <3>2
    <2> QED BY <2>4, <2>5
<1>7. CASE WorkerBeginUnit(k)
    BY <1>7 DEF WorkerBeginUnit
<1>8. CASE WorkerBatch(k)
    BY <1>8 DEF WorkerBatch
<1>9. CASE WorkerEndUnit(k)
    BY <1>9 DEF WorkerEndUnit
<1>10. CASE WorkerDrain(k)
    BY <1>10 DEF WorkerDrain
<1>11. CASE WorkerEnd(k)
    BY <1>11 DEF WorkerEnd
<1>12. CASE WorkerRaises(k)
    BY <1>12 DEF WorkerRaises, WorkerFailed
<1>13. CASE WorkerReport(k)
    BY <1>13 DEF WorkerReport
<1> QED
    BY <1>1, <1>2, <1>3, <1>4, <1>5, <1>6, <1>7, <1>8, <1>9, <1>10, <1>11, <1>12, <1>13 DEF WorkerThread

\* A step of reader k keeps the ownership of the buffers of worker k.
LEMMA ReaderKeepsOwned ==
    ASSUME TypeOK, NEW k \in Workers, Owned(k), ReaderThread(k)
    PROVE  Owned(k)'
PROOF
<1> USE DEF TypeOK, ThreadTypes, QueueTypes, Owned, FreeOwned, ReaderOwned, ReadyOwned, WorkerOwned,
          LoopEnded, InLoop, ReaderHas, ReaderFills, WorkerHolds, Queued
<1>1. CASE ReaderStart(k)
    BY <1>1 DEF ReaderStart
<1>2. CASE ReaderSlot(k)
    <2>1. /\ free'[k] = Tail(free[k]) /\ free[k] # <<>> /\ r[k].pc = "slot"
          /\ w' = w /\ ready' = ready /\ buf' = buf /\ stop' = stop
        BY <1>2 DEF ReaderSlot
    <2>2. /\ Head(free[k]) = free[k][1] /\ 1 \in 1 .. Len(free[k])
          /\ Len(free'[k]) = Len(free[k]) - 1
          /\ \A i \in 1 .. Len(free'[k]) : free'[k][i] = free[k][i + 1]
                                           /\ i + 1 \in 2 .. Len(free[k])
        BY <2>1
    <2>3. CASE stop
        <3>1. r'[k].pc = "finish" /\ r'[k].got = r[k].got
            BY <1>2, <2>3 DEF ReaderSlot
        <3> QED BY <2>1, <2>2, <2>3, <3>1
    <2>4. CASE ~stop
        <3>1. r'[k].pc = "take" /\ r'[k].slot = free[k][1] /\ r'[k].got = r[k].got
            BY <1>2, <2>2, <2>4 DEF ReaderSlot
        <3>2. InLoop(k) /\ w[k].pc # "start"
            BY <2>1, <2>4
        <3>3. \A i \in 2 .. Len(free[k]) : free[k][i] # free[k][1]
            <4>1. \A i, j \in 1 .. Len(free[k]) : free[k][i] = free[k][j] => i = j
                BY <3>2
            <4>2. \A i \in 2 .. Len(free[k]) : i \in 1 .. Len(free[k]) /\ i # 1
                BY <2>1
            <4> QED BY <2>2, <4>1, <4>2
        <3>4. \A i \in 1 .. Len(free'[k]) : free'[k][i] # free[k][1]
            BY <2>2, <3>3
        <3> QED BY <2>1, <2>2, <2>4, <3>1, <3>2, <3>4
    <2> QED BY <2>3, <2>4
<1>3. CASE ReaderTake(k)
    <2>1. /\ r[k].pc = "take" /\ taken + 1 \in 1 .. N + W
          /\ w' = w /\ free' = free /\ ready' = ready /\ buf' = buf /\ stop' = stop
        BY <1>3, ConveyorAssumption DEF ReaderTake, Todo
    <2>2. CASE Todo[taken + 1] = Done
        <3>1. r'[k].pc = "finish" /\ r'[k].got = r[k].got
            BY <1>3, <2>2 DEF ReaderTake
        <3>2. FreeOwned(k)' /\ ReaderOwned(k)' /\ LoopEnded(k)'
            BY <2>1, <3>1
        <3>3. ReadyOwned(k)'
            BY <2>1, <3>1 DEF Whole
        <3>4. WorkerOwned(k)'
            BY <2>1, <3>1 DEF Whole
        <3> QED BY <3>2, <3>3, <3>4
    <2>3. CASE Todo[taken + 1] # Done
        <3>1. Todo[taken + 1] \in Units
            BY <2>1, <2>3, ConveyorAssumption DEF Todo, Units, Done
        <3>2. /\ r'[k].pc = "read" /\ r'[k].unit = Todo[taken + 1]
              /\ r'[k].slot = r[k].slot /\ r'[k].got = r[k].got
            BY <1>3, <2>3 DEF ReaderTake
        <3> QED BY <2>1, <3>1, <3>2, ConveyorAssumption
    <2> QED BY <2>2, <2>3
<1>4. CASE ReaderRead(k)
    <2> DEFINE got == r[k].got + 1
    <2>1. /\ r[k].pc = "read" /\ got \in 1 .. P /\ r[k].slot \in Slots
          /\ w' = w /\ free' = free /\ ready' = ready /\ stop' = stop
        BY <1>4, ConveyorAssumption DEF ReaderRead, ReaderState
    <2>2. buf' = [buf EXCEPT ![r[k].slot] = [unit |-> r[k].unit, got |-> got]]
        BY <1>4 DEF ReaderRead
    <2>3. /\ r'[k].pc = IF got = P THEN "deliver" ELSE "read"
          /\ r'[k].slot = r[k].slot /\ r'[k].unit = r[k].unit /\ r'[k].got = got
        BY <1>4 DEF ReaderRead
    <2> HIDE DEF got
    <2>4. /\ \A s \in Slots : s # r[k].slot => buf'[s] = buf[s]
          /\ buf'[r[k].slot] = [unit |-> r[k].unit, got |-> got]
        BY <2>1, <2>2 DEF BufferTypes
    <2>5. Block(k) \subseteq Slots
        BY BlocksAreDisjoint
    <2>6. FreeOwned(k)' /\ LoopEnded(k)'
        BY <2>1, <2>3
    <2>7. ReaderOwned(k)'
        BY <2>1, <2>3, <2>4, ConveyorAssumption DEF Whole
    <2>8. ReadyOwned(k)'
        <3>1. Queued(k)' = Queued(k)
            BY <2>1
        <3>2. \A i \in Queued(k) : buf'[ready[k][i].slot] = buf[ready[k][i].slot]
            BY <2>1, <2>4, <2>5
        <3> HIDE DEF Queued
        <3> QED BY <2>1, <2>3, <3>1, <3>2 DEF Whole
    <2>9. WorkerOwned(k)'
        BY <2>1, <2>3, <2>4, <2>5 DEF Whole
    <2> QED BY <2>6, <2>7, <2>8, <2>9
<1>5. CASE ReaderDeliver(k)
    <2> DEFINE n == Len(ready[k])
    <2>1. /\ ready'[k] = Append(ready[k], [slot |-> r[k].slot, unit |-> r[k].unit]) /\ n \in Nat
          /\ w' = w /\ free' = free /\ buf' = buf
        BY <1>5 DEF ReaderDeliver
    <2>2. /\ Len(ready'[k]) = n + 1 /\ ready'[k][n + 1] = [slot |-> r[k].slot, unit |-> r[k].unit]
          /\ \A i \in 1 .. n : ready'[k][i] = ready[k][i]
        BY <2>1
    <2>3. r[k].pc = "deliver" /\ r'[k].pc = "slot" /\ r'[k].got = 0 /\ stop' = stop
        BY <1>5 DEF ReaderDeliver
    <2>4. \A i \in Queued(k)' : i \in Queued(k) \/ i = n + 1
        BY <2>1, <2>2
    <2> HIDE DEF n
    <2>5. FreeOwned(k)'
        BY <2>1, <2>3
    <2>6. ReaderOwned(k)' /\ LoopEnded(k)'
        BY <2>1, <2>2, <2>3 DEF Units, Done
    <2>7. ReadyOwned(k)'
        <3>1. ~ReaderHas(k)'
            BY <2>3
        <3>2. SUFFICES ASSUME NEW i \in Queued(k)'
              PROVE  /\ ready'[k][i].slot \in Block(k)
                     /\ buf[ready'[k][i].slot] = Whole(ready'[k][i].unit)
                     /\ \A j \in Queued(k)' : ready'[k][i].slot = ready'[k][j].slot => i = j
                     /\ InLoop(k) => \A j \in 1 .. Len(free[k]) : free[k][j] # ready'[k][i].slot
            BY <2>1, <3>1 DEF Whole
        <3>3. \A j \in Queued(k) : j \in 1 .. n /\ ready'[k][j] = ready[k][j]
            BY <2>2 DEF n
        <3>4. \A j \in Queued(k) : ready[k][j].slot # r[k].slot
            BY <2>3
        <3>5. ready'[k][n + 1].slot = r[k].slot /\ ready'[k][n + 1].unit = r[k].unit
            BY <2>2
        <3> HIDE DEF Queued
        <3>6. CASE i = n + 1
            BY <2>3, <2>4, <3>3, <3>4, <3>5, <3>6
        <3>7. CASE i \in Queued(k)
            <4>1. /\ ready[k][i].slot \in Block(k)
                  /\ buf[ready[k][i].slot] = Whole(ready[k][i].unit)
                  /\ \A j \in Queued(k) : ready[k][i].slot = ready[k][j].slot => i = j
                  /\ InLoop(k) => \A j \in 1 .. Len(free[k]) : free[k][j] # ready[k][i].slot
                BY <3>7
            <4>2. ready'[k][i] = ready[k][i] /\ ready[k][i].slot # r[k].slot
                BY <3>3, <3>4, <3>7
            <4>3. ASSUME NEW j \in Queued(k)', ready'[k][i].slot = ready'[k][j].slot
                  PROVE  i = j
                <5>1. CASE j = n + 1
                    BY <3>5, <4>2, <4>3, <5>1
                <5>2. CASE j \in Queued(k)
                    BY <3>3, <4>1, <4>2, <4>3, <5>2
                <5> QED BY <2>4, <5>1, <5>2
            <4> QED BY <4>1, <4>2, <4>3
        <3> QED BY <2>4, <3>6, <3>7
    <2>8. WorkerOwned(k)'
        <3>1. WorkerHolds(k) => \A i \in Queued(k)' : ready'[k][i].slot # w[k].slot
            <4> SUFFICES ASSUME WorkerHolds(k), NEW i \in Queued(k)'
                         PROVE  ready'[k][i].slot # w[k].slot
                OBVIOUS
            <4>1. CASE i = n + 1
                BY <2>2, <2>3, <4>1
            <4>2. CASE i \in Queued(k)
                BY <2>2, <4>2 DEF n
            <4> QED BY <2>4, <4>1, <4>2
        <3>2. ~ReaderHas(k)'
            BY <2>3
        <3> HIDE DEF Queued
        <3> QED BY <2>1, <3>1, <3>2 DEF Whole
    <2> QED BY <2>5, <2>6, <2>7, <2>8
<1>6. CASE ReaderFinish(k)
    <2> DEFINE n == Len(ready[k])
    <2>1. /\ ready'[k] = Append(ready[k], DoneItem) /\ n \in Nat
          /\ w' = w /\ free' = free /\ buf' = buf
        BY <1>6 DEF ReaderFinish
    <2>2. /\ Len(ready'[k]) = n + 1 /\ ready'[k][n + 1] = DoneItem
          /\ \A i \in 1 .. n : ready'[k][i] = ready[k][i]
        BY <2>1
    <2>3. stop' = stop /\ r'[k].pc = "report" /\ r'[k].got = 0
        BY <1>6 DEF ReaderFinish, ReaderFailed
    <2>4. Queued(k)' = Queued(k)
        BY <2>1, <2>2 DEF DoneItem
    <2>5. \A i \in Queued(k) : ready'[k][i] = ready[k][i]
        BY <2>2
    <2> HIDE DEF n, Queued
    <2>6. FreeOwned(k)' /\ ReaderOwned(k)' /\ LoopEnded(k)'
        BY <2>1, <2>3, <2>4
    <2>7. WorkerOwned(k)'
        BY <2>1, <2>3, <2>4, <2>5 DEF Whole
    <2>8. ReadyOwned(k)'
        <3>1. ~ReaderHas(k)' /\ (InLoop(k)' <=> InLoop(k))
            BY <2>1, <2>3
        <3>2. SUFFICES ASSUME NEW i \in Queued(k)
              PROVE  /\ ready'[k][i].slot \in Block(k)
                     /\ buf[ready'[k][i].slot] = Whole(ready'[k][i].unit)
                     /\ \A j \in Queued(k) : ready'[k][i].slot = ready'[k][j].slot => i = j
                     /\ InLoop(k) => \A j \in 1 .. Len(free[k]) : free[k][j] # ready'[k][i].slot
            BY <2>1, <2>4, <3>1 DEF Whole
        <3>3. /\ ready[k][i].slot \in Block(k)
              /\ buf[ready[k][i].slot] = Whole(ready[k][i].unit)
              /\ \A j \in Queued(k) : ready[k][i].slot = ready[k][j].slot => i = j
              /\ InLoop(k) => \A j \in 1 .. Len(free[k]) : free[k][j] # ready[k][i].slot
            OBVIOUS
        <3> QED BY <2>5, <3>3
    <2> QED BY <2>6, <2>7, <2>8
<1>7. CASE ReaderRaises(k)
    <2> DEFINE n == Len(ready[k])
    <2>1. /\ ready'[k] = Append(ready[k], DoneItem) /\ n \in Nat
          /\ w' = w /\ free' = free /\ buf' = buf
        BY <1>7 DEF ReaderRaises
    <2>2. /\ Len(ready'[k]) = n + 1 /\ ready'[k][n + 1] = DoneItem
          /\ \A i \in 1 .. n : ready'[k][i] = ready[k][i]
        BY <2>1
    <2>3. stop' /\ r'[k].pc = "report" /\ r'[k].got = 0
        BY <1>7 DEF ReaderRaises, ReaderFailed
    <2>4. Queued(k)' = Queued(k)
        BY <2>1, <2>2 DEF DoneItem
    <2>5. \A i \in Queued(k) : ready'[k][i] = ready[k][i]
        BY <2>2
    <2> HIDE DEF n, Queued
    <2>6. FreeOwned(k)' /\ ReaderOwned(k)' /\ LoopEnded(k)'
        BY <2>1, <2>3, <2>4
    <2>7. WorkerOwned(k)'
        BY <2>1, <2>3, <2>4, <2>5 DEF Whole
    <2>8. ReadyOwned(k)'
        <3>1. ~ReaderHas(k)' /\ (InLoop(k)' <=> InLoop(k))
            BY <2>1, <2>3
        <3>2. SUFFICES ASSUME NEW i \in Queued(k)
              PROVE  /\ ready'[k][i].slot \in Block(k)
                     /\ buf[ready'[k][i].slot] = Whole(ready'[k][i].unit)
                     /\ \A j \in Queued(k) : ready'[k][i].slot = ready'[k][j].slot => i = j
                     /\ InLoop(k) => \A j \in 1 .. Len(free[k]) : free[k][j] # ready'[k][i].slot
            BY <2>1, <2>4, <3>1 DEF Whole
        <3>3. /\ ready[k][i].slot \in Block(k)
              /\ buf[ready[k][i].slot] = Whole(ready[k][i].unit)
              /\ \A j \in Queued(k) : ready[k][i].slot = ready[k][j].slot => i = j
              /\ InLoop(k) => \A j \in 1 .. Len(free[k]) : free[k][j] # ready[k][i].slot
            OBVIOUS
        <3> QED BY <2>5, <3>3
    <2> QED BY <2>6, <2>7, <2>8
<1>8. CASE ReaderReport(k)
    BY <1>8 DEF ReaderReport
<1> QED
    BY <1>1, <1>2, <1>3, <1>4, <1>5, <1>6, <1>7, <1>8 DEF ReaderThread

\* A step of worker k leaves the state of every other worker's buffers alone.
LEMMA WorkerTouchesItsOwn ==
    ASSUME TypeOK, NEW k \in Workers, WorkerThread(k), NEW j \in Workers, j # k
    PROVE  /\ w'[j] = w[j] /\ r'[j] = r[j] /\ free'[j] = free[j] /\ ready'[j] = ready[j]
           /\ buf' = buf /\ (stop => stop')
PROOF
<1> USE DEF TypeOK, ThreadTypes, QueueTypes
<1>1. buf' = buf /\ r' = r
    BY DEF WorkerThread, WorkerStart, WorkerWait, WorkerOpenBarrier,
           WorkerPassBarrier, WorkerGo, WorkerGet, WorkerBeginUnit, WorkerBatch, WorkerEndUnit,
           WorkerDrain, WorkerEnd, WorkerRaises, WorkerReport
<1>2. w'[j] = w[j]
    BY DEF WorkerThread, WorkerStart, WorkerWait, WorkerOpenBarrier,
           WorkerPassBarrier, WorkerGo, WorkerGet, WorkerBeginUnit, WorkerBatch, WorkerEndUnit,
           WorkerDrain, WorkerEnd, WorkerRaises, WorkerReport
<1>3. free'[j] = free[j] /\ ready'[j] = ready[j]
    BY DEF WorkerThread, WorkerStart, WorkerWait, WorkerOpenBarrier,
           WorkerPassBarrier, WorkerGo, WorkerGet, WorkerBeginUnit, WorkerBatch, WorkerEndUnit,
           WorkerDrain, WorkerEnd, WorkerRaises, WorkerReport
<1>4. stop => stop'
    BY DEF WorkerThread, WorkerStart, WorkerWait, WorkerOpenBarrier,
           WorkerPassBarrier, WorkerGo, WorkerGet, WorkerBeginUnit, WorkerBatch, WorkerEndUnit,
           WorkerDrain, WorkerEnd, WorkerRaises, WorkerReport
<1> QED BY <1>1, <1>2, <1>3, <1>4

\* A step of reader k leaves every other reader's and worker's buffers alone: it writes only the
\* buffer in its hands, which lies in the block of worker k.
LEMMA ReaderTouchesItsOwn ==
    ASSUME TypeOK, NEW k \in Workers, ReaderThread(k), Owned(k), NEW j \in Workers, j # k
    PROVE  /\ w'[j] = w[j] /\ r'[j] = r[j] /\ free'[j] = free[j] /\ ready'[j] = ready[j]
           /\ \A s \in Block(j) : buf'[s] = buf[s]
           /\ stop => stop'
PROOF
<1> USE DEF TypeOK, ThreadTypes, QueueTypes
<1>1. w' = w /\ (stop => stop')
    BY DEF ReaderThread, ReaderStart, ReaderSlot, ReaderTake, ReaderRead, ReaderDeliver,
           ReaderFinish, ReaderRaises, ReaderReport
<1>2. r'[j] = r[j]
    BY DEF ReaderThread, ReaderStart, ReaderSlot, ReaderTake, ReaderRead, ReaderDeliver,
           ReaderFinish, ReaderRaises, ReaderReport
<1>3. free'[j] = free[j] /\ ready'[j] = ready[j]
    BY DEF ReaderThread, ReaderStart, ReaderSlot, ReaderTake, ReaderRead, ReaderDeliver,
           ReaderFinish, ReaderRaises, ReaderReport
<1>4. \A s \in Block(j) : buf'[s] = buf[s]
    <2>1. CASE ReaderRead(k)
        <3>1. r[k].slot \in Block(k)
            BY <2>1 DEF ReaderRead, Owned, ReaderOwned, ReaderHas
        <3>2. \A s \in Block(j) : s # r[k].slot /\ s \in Slots
            BY <3>1, BlocksAreDisjoint
        <3>3. PICK c : buf' = [buf EXCEPT ![r[k].slot] = c]
            BY <2>1 DEF ReaderRead
        <3> QED BY <3>2, <3>3 DEF BufferTypes
    <2>2. CASE ~ReaderRead(k)
        <3>1. buf' = buf
            BY <2>2 DEF ReaderThread, ReaderStart, ReaderSlot, ReaderTake, ReaderDeliver,
                        ReaderFinish, ReaderRaises, ReaderReport
        <3> QED BY <3>1
    <2> QED BY <2>1, <2>2
<1> QED BY <1>1, <1>2, <1>3, <1>4

\* run() touches no buffer, no queue of buffers and no thread, and never clears stop.
LEMMA MainTouchesNothing ==
    ASSUME MainThread \/ UNCHANGED vars
    PROVE  w' = w /\ r' = r /\ free' = free /\ ready' = ready /\ buf' = buf /\ (stop => stop')
PROOF
    BY DEF vars, MainThread, MainWait, MainOpenBarrier, MainPassBarrier, MainAbandon, MainQueue,
           MainGiveUp, MainFinish

\* Every step keeps every buffer with its one owner.
LEMMA OwnershipStep == TypeOK /\ Ownership /\ [Next]_vars => Ownership'
PROOF
<1> SUFFICES ASSUME TypeOK, Ownership, [Next]_vars, NEW j \in Workers
             PROVE  Owned(j)'
    BY DEF Ownership, Workers
<1>1. Owned(j)
    BY DEF Ownership
<1>2. ASSUME NEW k \in Workers, WorkerThread(k)
      PROVE  Owned(j)'
    <2>1. CASE j = k
        BY <1>1, <1>2, <2>1, WorkerKeepsOwned
    <2>2. CASE j # k
        <3>1. /\ w'[j] = w[j] /\ r'[j] = r[j] /\ free'[j] = free[j] /\ ready'[j] = ready[j]
              /\ buf' = buf /\ (stop => stop')
            BY <1>2, <2>2, WorkerTouchesItsOwn
        <3>2. \A s \in Block(j) : buf'[s] = buf[s]
            BY <3>1
        <3> QED BY <1>1, <3>1, <3>2, OthersStayOwned
    <2> QED BY <2>1, <2>2
<1>3. ASSUME NEW k \in Workers, ReaderThread(k)
      PROVE  Owned(j)'
    <2>1. CASE j = k
        BY <1>1, <1>3, <2>1, ReaderKeepsOwned
    <2>2. CASE j # k
        <3>1. Owned(k)
            BY DEF Ownership
        <3> QED BY <1>1, <1>3, <2>2, <3>1, ReaderTouchesItsOwn, OthersStayOwned
    <2> QED BY <2>1, <2>2
<1>4. CASE MainThread \/ UNCHANGED vars
    BY <1>1, <1>4, MainTouchesNothing, OthersStayOwned
<1> QED
    BY <1>2, <1>3, <1>4 DEF Next, Terminated

-----------------------------------------------------------------------------
(* The theorems *)

\* The inductive invariant: types, and who owns which buffer (_engine.py, _worker and _reader).
LEMMA TypedAndOwned == Spec => [](TypeOK /\ Ownership)
PROOF
<1>1. Init => TypeOK /\ Ownership
    BY TypeInit, OwnershipInit
<1>2. TypeOK /\ Ownership /\ [Next]_vars => (TypeOK /\ Ownership)'
    BY TypeStep, OwnershipStep
<1> QED
    BY <1>1, <1>2, PTL DEF Spec

\* Every queue, counter, program counter and buffer of the engine holds what it is made for.
THEOREM TypeCorrect == Spec => []TypeOK
PROOF
    BY TypedAndOwned, PTL

\* A buffer of the engine is in one place at a time: on the free queue, in the reader's hands,
\* on the ready queue or in the worker's hands.
THEOREM BuffersAreOwned == Spec => []Ownership
PROOF
    BY TypedAndOwned, PTL

\* No reader fills a buffer that is being decoded, that waits to be decoded or that another
\* reader fills, although the wakers a worker puts on its free queue all name buffer 0.
THEOREM OneUserOfABuffer == Spec => []BufferHasOneUser
PROOF
<1>1. TypeOK /\ Ownership => BufferHasOneUser
    <2> SUFFICES ASSUME TypeOK, Ownership, NEW j \in Workers, NEW k \in Workers, ReaderFills(j)
                 PROVE  /\ WorkerHolds(k) => w[k].slot # r[j].slot
                        /\ \A i \in 1 .. Len(ready[k]) :
                               ready[k][i].unit # Done => ready[k][i].slot # r[j].slot
                        /\ j # k /\ ReaderFills(k) => r[k].slot # r[j].slot
        BY DEF BufferHasOneUser
    <2>1. Owned(j) /\ Owned(k) /\ ReaderHas(j) /\ r[j].slot \in Block(j)
        BY DEF Ownership, Owned, ReaderOwned, ReaderHas, ReaderFills
    <2>2. CASE j = k
        BY <2>1, <2>2 DEF Owned, ReadyOwned, WorkerOwned, Queued
    <2>3. CASE j # k
        <3>1. r[j].slot \notin Block(k)
            BY <2>1, <2>3, BlocksAreDisjoint
        <3>2. ReaderFills(k) => r[k].slot \in Block(k)
            BY <2>1 DEF Owned, ReaderOwned, ReaderHas, ReaderFills
        <3>3. WorkerHolds(k) => w[k].slot \in Block(k)
            BY <2>1 DEF Owned, WorkerOwned
        <3>4. \A i \in Queued(k) : ready[k][i].slot \in Block(k)
            BY <2>1 DEF Owned, ReadyOwned
        <3> QED BY <3>1, <3>2, <3>3, <3>4 DEF Queued
    <2> QED BY <2>2, <2>3
<1> QED
    BY <1>1, TypedAndOwned, PTL

\* A worker decodes the unit it was given, all of it: the buffer was not reused under it.
THEOREM DecodedUnitIsWhole == Spec => []DecodesTheUnitRead
PROOF
<1>1. Ownership => DecodesTheUnitRead
    BY DEF Ownership, Owned, WorkerOwned, DecodesTheUnitRead
<1> QED
    BY <1>1, TypedAndOwned, PTL

-----------------------------------------------------------------------------
(* The queue of units.  Every item behind the units that has been taken is  *)
(* the DONE of a reader that has left its loop.                             *)

Left == {k \in Workers : r[k].pc \in {"finish", "report", "done"}}

TodoInv ==
    /\ go => taken >= 0 \/ stop
    /\ \A k \in Workers : r[k].pc = "slot" \/ ReaderHas(k) => go
    /\ \A k \in Workers : ReaderHas(k) => taken >= 0
    /\ taken - N <= Cardinality(Left)

\* The readers are finitely many.
LEMMA LeftIsFinite ==
    /\ IsFiniteSet(Workers) /\ Cardinality(Workers) = W
    /\ \A T \in SUBSET Workers : IsFiniteSet(T) /\ Cardinality(T) \in Nat /\ Cardinality(T) <= W
PROOF
<1>1. IsFiniteSet(Workers) /\ Cardinality(Workers) = W
    BY FS_Interval, ConveyorAssumption DEF Workers
<1> QED
    BY <1>1, FS_Subset, FS_CardinalityType

LEMMA TodoInit == Init => TodoInv
PROOF
<1> SUFFICES ASSUME Init PROVE TodoInv
    OBVIOUS
<1>1. Cardinality(Left) \in Nat
    BY LeftIsFinite DEF Left
<1> QED BY <1>1, ConveyorAssumption DEF Init, TodoInv, ReaderHas, Workers

\* While the readers keep their place, taken may be set to 0 and stop and go be set.
LEMMA SameReaders ==
    ASSUME TypeOK, TodoInv, r' = r, taken' \in {taken, 0},
           go => go', stop => stop', go' => go \/ taken' >= 0 \/ stop'
    PROVE  TodoInv'
PROOF
<1>1. Left' = Left /\ Cardinality(Left) \in Nat
    BY LeftIsFinite DEF Left
<1>2. taken \in Int /\ taken' \in Int /\ (taken >= 0 => taken' >= 0) /\ N \in Nat
    BY ConveyorAssumption DEF TypeOK, RunTypes
<1>3. taken' - N <= Cardinality(Left')
    BY <1>1, <1>2, ConveyorAssumption DEF TodoInv
<1> QED BY <1>2, <1>3 DEF TodoInv, ReaderHas

\* A reader that moves on without taking a unit, and does not leave "finish" for the loop again.
LEMMA ReaderMoves ==
    ASSUME TypeOK, TodoInv, NEW k \in Workers, NEW s \in ReaderState, r' = [r EXCEPT ![k] = s],
           UNCHANGED <<go, taken>>, stop => stop',
           k \in Left => s.pc \in {"finish", "report", "done"},
           s.pc \in {"slot", "take", "read", "deliver"} => go, s.pc \in {"take", "read", "deliver"} => taken >= 0
    PROVE  TodoInv'
PROOF
<1>1. r \in [Workers -> ReaderState]
    BY DEF TypeOK, ThreadTypes
<1>2. Left \subseteq Left' /\ Left' \subseteq Workers
    BY <1>1 DEF Left
<1>3. Cardinality(Left) \in Nat /\ Cardinality(Left') \in Nat /\ Cardinality(Left) <= Cardinality(Left')
    BY <1>2, LeftIsFinite, FS_Subset
<1>4. taken' - N <= Cardinality(Left')
    BY <1>3, ConveyorAssumption DEF TodoInv, TypeOK, RunTypes
<1>5. ASSUME NEW j \in Workers PROVE (r'[j].pc = "slot" \/ ReaderHas(j)' => go') /\ (ReaderHas(j)' => taken' >= 0)
    <2>1. CASE j = k
        BY <1>1, <2>1 DEF ReaderHas
    <2>2. CASE j # k
        BY <1>1, <2>2 DEF TodoInv, ReaderHas
    <2> QED BY <2>1, <2>2
<1> QED BY <1>4, <1>5 DEF TodoInv

\* A unit leaves the room for the DONEs as it is; a DONE makes its reader leave.
LEMMA ReaderTakes ==
    ASSUME TypeOK, TypeOK', TodoInv, NEW k \in Workers, ReaderTake(k)
    PROVE  TodoInv'
PROOF
<1>1. r \in [Workers -> ReaderState] /\ taken \in Nat /\ taken' = taken + 1 /\ UNCHANGED <<go, stop>>
      /\ N \in Nat /\ W \in Nat
    BY ConveyorAssumption DEF TypeOK, ThreadTypes, RunTypes, ReaderTake
<1>2. k \notin Left /\ Left \in SUBSET Workers /\ Left' \in SUBSET Workers
    BY DEF Left, ReaderTake
<1>3. Left \subseteq Left' /\ (Todo[taken + 1] = Done => Left' = Left \cup {k})
    BY <1>1, <1>2 DEF Left, ReaderTake
<1>4. taken' - N <= Cardinality(Left')
    <2>1. CASE taken < N
        <3>1. Cardinality(Left') \in Nat
            BY <1>2, LeftIsFinite
        <3> QED BY <1>1, <2>1, <3>1
    <2>2. CASE taken >= N
        <3>1. Todo[taken + 1] = Done
            BY <1>1, <2>2, ConveyorAssumption DEF Todo, ReaderTake
        <3>2. Cardinality(Left') = Cardinality(Left) + 1 /\ Cardinality(Left) \in Nat
            BY <1>2, <1>3, <3>1, LeftIsFinite, FS_AddElement
        <3> QED BY <1>1, <3>2 DEF TodoInv
    <2> QED BY <1>1, <2>1, <2>2
<1>5. ASSUME NEW j \in Workers, r'[j].pc = "slot" \/ ReaderHas(j)' PROVE go'
    <2>1. go
        BY DEF TodoInv, ReaderTake, ReaderHas
    <2> QED BY <1>1, <2>1
<1> QED BY <1>1, <1>4, <1>5 DEF TodoInv

LEMMA ReaderKeepsTodo ==
    ASSUME TypeOK, TypeOK', TodoInv, NEW k \in Workers, ReaderThread(k)
    PROVE  TodoInv'
PROOF
<1> DEFINE s == r'[k]
<1>1. r \in [Workers -> ReaderState] /\ r' \in [Workers -> ReaderState] /\ s \in ReaderState
    BY DEF TypeOK, ThreadTypes
<1>2. CASE ReaderTake(k)
    BY <1>2, ReaderTakes
<1>3. ASSUME ~ReaderTake(k)
      PROVE  /\ r' = [r EXCEPT ![k] = s] /\ UNCHANGED <<go, taken>> /\ (stop => stop')
             /\ k \in Left => s.pc \in {"finish", "report", "done"}
             /\ s.pc \in {"slot", "take", "read", "deliver"} => go
             /\ s.pc \in {"take", "read", "deliver"} => taken >= 0
    <2>1. CASE ReaderStart(k)
        BY <1>1, <2>1 DEF ReaderStart, Left
    <2>2. CASE ReaderSlot(k)
        <3>1. go /\ (~stop => taken >= 0)
            BY <2>2 DEF TodoInv, ReaderSlot
        <3>2. k \notin Left /\ UNCHANGED <<go, taken, stop>>
            BY <2>2 DEF Left, ReaderSlot
        <3>3. CASE stop
            <4>1. r' = [r EXCEPT ![k].pc = "finish"]
                BY <2>2, <3>3 DEF ReaderSlot
            <4> QED BY <1>1, <3>2, <4>1
        <3>4. CASE ~stop
            <4>1. r' = [r EXCEPT ![k] = [@ EXCEPT !.pc = "take", !.slot = Head(free[k])]]
                BY <2>2, <3>4 DEF ReaderSlot
            <4>2. s.pc = "take" /\ r' = [r EXCEPT ![k] = s]
                BY <1>1, <4>1
            <4> HIDE DEF s
            <4> QED BY <3>1, <3>2, <3>4, <4>2
        <3> QED BY <3>3, <3>4
    <2>3. CASE ReaderRead(k)
        BY <1>1, <2>3 DEF ReaderRead, Left, TodoInv, ReaderHas
    <2>4. CASE ReaderDeliver(k)
        <3>1. taken >= 0 /\ go
            BY <2>4 DEF ReaderDeliver, TodoInv, ReaderHas
        <3>2. k \notin Left /\ UNCHANGED <<go, taken, stop>>
            BY <2>4 DEF Left, ReaderDeliver
        <3>3. r' = [r EXCEPT ![k] = [@ EXCEPT !.pc = "slot", !.slot = 0, !.unit = 0, !.got = 0]]
            BY <2>4 DEF ReaderDeliver
        <3>4. s.pc = "slot" /\ r' = [r EXCEPT ![k] = s]
            BY <1>1, <3>3
        <3> HIDE DEF s
        <3> QED BY <3>1, <3>2, <3>4
    <2>5. CASE ReaderFinish(k)
        BY <1>1, <2>5 DEF ReaderFinish, Left
    <2>6. CASE ReaderRaises(k)
        BY <1>1, <2>6 DEF ReaderRaises, ReaderFailed, Left
    <2>7. CASE ReaderReport(k)
        BY <1>1, <2>7 DEF ReaderReport, Left
    <2> QED BY <1>3, <2>1, <2>2, <2>3, <2>4, <2>5, <2>6, <2>7 DEF ReaderThread
<1> HIDE DEF s
<1> QED BY <1>1, <1>2, <1>3, ReaderMoves

LEMMA TodoStep == TypeOK /\ TypeOK' /\ TodoInv /\ [Next]_vars => TodoInv'
PROOF
<1> SUFFICES ASSUME TypeOK, TypeOK', TodoInv, [Next]_vars PROVE TodoInv'
    OBVIOUS
<1>1. ASSUME NEW k \in Workers, WorkerThread(k) PROVE TodoInv'
    <2>1. UNCHANGED <<r, taken, go>> /\ (stop => stop')
        BY <1>1 DEF WorkerThread, WorkerStart, WorkerWait, WorkerOpenBarrier, WorkerPassBarrier, WorkerGo,
               WorkerGet, WorkerBeginUnit, WorkerBatch, WorkerEndUnit, WorkerDrain, WorkerEnd, WorkerRaises,
               WorkerReport
    <2> QED BY <2>1, SameReaders
<1>2. ASSUME NEW k \in Workers, ReaderThread(k) PROVE TodoInv'
    BY <1>2, ReaderKeepsTodo
<1>3. CASE MainThread \/ UNCHANGED vars
    <2>1. r' = r /\ (go => go') /\ (stop => stop') /\ taken' \in {taken, 0} /\ (go' => go \/ taken' >= 0 \/ stop')
        BY <1>3 DEF vars, MainThread, MainWait, MainOpenBarrier, MainPassBarrier, MainAbandon, MainQueue,
               MainGiveUp, MainFinish
    <2> QED BY <2>1, SameReaders
<1> QED BY <1>1, <1>2, <1>3 DEF Next, Terminated

\* A reader that asks for a unit finds one: there is a DONE for each, and none asks if the start
\* failed and nothing was queued (_engine.py, todo.get without a time limit).
THEOREM TodoIsNeverEmpty == Spec => []TodoNeverRunsDry
PROOF
<1>1. Init => TodoInv
    BY TodoInit
<1>2. TypeOK /\ TypeOK' /\ TodoInv /\ [Next]_vars => TodoInv'
    BY TodoStep
<1>3. TypeOK /\ TodoInv => TodoNeverRunsDry
    <2> SUFFICES ASSUME TypeOK, TodoInv, NEW k \in Workers, r[k].pc = "take"
                 PROVE  taken \in 0 .. Len(Todo) - 1
        BY DEF TodoNeverRunsDry
    <2>1. taken \in Nat /\ N \in Nat /\ W \in Nat
        BY ConveyorAssumption DEF TodoInv, ReaderHas, TypeOK, RunTypes
    <2>2. k \notin Left /\ Left \in SUBSET Workers
        BY DEF Left
    <2>3. Cardinality(Left \cup {k}) = Cardinality(Left) + 1 /\ Cardinality(Left) \in Nat
        BY <2>2, LeftIsFinite, FS_AddElement
    <2>4. Cardinality(Left \cup {k}) <= W
        BY <2>2, LeftIsFinite
    <2>5. Len(Todo) = N + W
        BY <2>1 DEF Todo
    <2> QED BY <2>1, <2>3, <2>4, <2>5 DEF TodoInv
<1> QED
    BY <1>1, <1>2, <1>3, TypeCorrect, PTL DEF Spec

-----------------------------------------------------------------------------
(* Read-ahead.  The units on the way to a worker are in different buffers    *)
(* of its own.                                                               *)

\* Buffer s of worker k holds unit u, on its way from the reader to the worker.
InBuffer(k, s, u) ==
    \/ ReaderFills(k) /\ r[k].slot = s /\ r[k].unit = u
    \/ \E i \in Queued(k) : ready[k][i].slot = s /\ ready[k][i].unit = u
    \/ WorkerHolds(k) /\ w[k].slot = s /\ w[k].unit = u

LEMMA OneUnitOfABuffer ==
    ASSUME Ownership, NEW k \in Workers
    PROVE  /\ \A u \in OnTheWay(k) : \E s \in Block(k) : InBuffer(k, s, u)
           /\ \A s, u, v : InBuffer(k, s, u) /\ InBuffer(k, s, v) => u = v
PROOF
<1>1. ReaderOwned(k) /\ ReadyOwned(k) /\ WorkerOwned(k)
    BY DEF Ownership, Owned
<1>2. ReaderFills(k) => ReaderHas(k)
    BY DEF ReaderFills, ReaderHas
<1>3. ASSUME NEW u \in OnTheWay(k) PROVE \E s \in Block(k) : InBuffer(k, s, u)
    <2>1. CASE ReaderFills(k) /\ u = r[k].unit
        BY <1>1, <1>2, <2>1 DEF InBuffer, ReaderOwned
    <2>2. CASE WorkerHolds(k) /\ u = w[k].unit
        BY <1>1, <2>2 DEF InBuffer, WorkerOwned
    <2>3. CASE u \in {ready[k][i].unit : i \in 1 .. Len(ready[k])} \ {Done}
        <3>1. PICK i \in Queued(k) : ready[k][i].unit = u
            BY <2>3 DEF Queued
        <3> QED BY <1>1, <3>1 DEF InBuffer, ReadyOwned
    <2> QED BY <1>3, <2>1, <2>2, <2>3 DEF OnTheWay, ReaderFills
<1>4. \A s, u, v : InBuffer(k, s, u) /\ InBuffer(k, s, v) => u = v
    BY <1>1, <1>2 DEF InBuffer, ReadyOwned, WorkerOwned
<1> QED BY <1>3, <1>4

\* The units read ahead for a worker, waiting for it or in its hands are no more than its buffers:
\* the reader uses a buffer only after the worker put it on the free queue (_engine.py, _reader).
THEOREM ReadAheadFits == Spec => []InFlightFitsTheBuffers
PROOF
<1>1. Ownership => InFlightFitsTheBuffers
    <2> SUFFICES ASSUME Ownership, NEW k \in Workers PROVE Cardinality(OnTheWay(k)) <= S
        BY DEF InFlightFitsTheBuffers
    <2> DEFINE f == [u \in OnTheWay(k) |-> CHOOSE s \in Block(k) : InBuffer(k, s, u)]
    <2>1. \A u \in OnTheWay(k) : f[u] \in Block(k) /\ InBuffer(k, f[u], u)
        BY OneUnitOfABuffer
    <2> HIDE DEF f
    <2>2. f \in Injection(OnTheWay(k), Block(k))
        <3>1. f \in [OnTheWay(k) -> Block(k)]
            BY <2>1 DEF f
        <3>2. IsInjective(f)
            BY <2>1, <3>1, OneUnitOfABuffer DEF IsInjective
        <3> QED BY <3>1, <3>2 DEF Injection
    <2>3. k * S \in Int /\ S \in Nat \ {0}
        BY ConveyorAssumption DEF Workers
    <2>4. IsFiniteSet(Block(k)) /\ Cardinality(Block(k)) = S
        BY <2>3, FS_Interval DEF Block
    <2> QED BY <2>2, <2>4, FS_Injection
<1> QED
    BY <1>1, BuffersAreOwned, PTL

-----------------------------------------------------------------------------
(***************************************************************************)
(* The engine implements Delivery: each of its steps is a step of Delivery *)
(* or leaves what that sees as it is.  The invariant it needs has three    *)
(* parts, proved one after the other: what the threads know of each other  *)
(* (how the start goes, what the results say, when a sink begins and       *)
(* ends); where the units are (a unit is in one buffer at most, and its    *)
(* sink is called by the worker that has it, in order); and that no unit   *)
(* is lost while nobody fails.                                             *)
(***************************************************************************)

(* The threads.                                                             *)

\* The start.  Nobody is past the barrier before it opens; once it is open every worker is, and it
\* is not broken before run() has passed it.  A start that was abandoned lets nobody into the loop.
Outside == {"start", "arrive", "barrier", "report", "done"}
Abandoned == main = "abandon" \/ (main = "raised" /\ taken = -1)
StartInv ==
    /\ main \in {"arrive", "barrier", "queue"} => ~go /\ taken = -1
    /\ main = "abandon" => taken = -1
    /\ main = "collect" => taken >= 0
    /\ main = "returned" => taken >= 0
    /\ Abandoned => barrier = "broken" /\ stop
    /\ barrier = "open" => \A k \in Workers : w[k].pc \notin {"start", "arrive"}
    /\ main \in {"arrive", "barrier", "queue"} => \A k \in Workers : w[k].pc \in Outside \cup {"go"}
    /\ main \in {"arrive", "barrier"} /\ barrier # "open" => \A k \in Workers : w[k].pc \in Outside
    /\ Abandoned => \A k \in Workers : w[k].pc \in Outside

\* The results: one of every thread that is done, with its error; an error stops everyone, and
\* without an error nothing but run() itself does.
WorkersDone == {k \in Workers : w[k].pc = "done"}
ReadersDone == {k \in Workers : r[k].pc = "done"}
ResultsInv ==
    /\ Len(results) = Cardinality(WorkersDone) + Cardinality(ReadersDone)
    /\ \A k \in WorkersDone : \E i \in 1 .. Len(results) : results[i].error = w[k].error
    /\ \A k \in ReadersDone : \E i \in 1 .. Len(results) : results[i].error = r[k].error
    /\ \A i \in 1 .. Len(results) : results[i].error # "none" => stop
    /\ \A k \in Workers : w[k].error # "none" => stop /\ w[k].pc \in {"report", "done"}
    /\ \A k \in Workers : r[k].error # "none" => stop /\ r[k].pc \in {"report", "done"}
    /\ stop /\ ~Abandoned => \E k \in Workers : w[k].error # "none" \/ r[k].error # "none"
    /\ main = "returned" \/ (main = "raised" /\ taken # -1) => WorkersDone = Workers /\ ReadersDone = Workers

\* The sinks: begun before the barrier, ended after the loop.
SinkInv ==
    \A k \in Workers :
        /\ w[k].pc = "start" => sink[k] = "new"
        /\ w[k].pc \notin {"start", "report", "done"} => sink[k] = "begun"
        /\ w[k].pc \in {"report", "done"} /\ w[k].error = "none" => sink[k] = "ended"

-----------------------------------------------------------------------------
(* Where a step takes its thread.                                           *)

\* Worker k goes on to pc, its error as it was.
WorkerMoved(k, pc) == w'[k].pc = pc /\ w'[k].error = w[k].error

\* Where each step of a worker (_worker) takes it, and that it touches nobody else's place.
LEMMA WorkerPlaces ==
    ASSUME TypeOK, NEW k \in Workers, WorkerThread(k)
    PROVE  /\ UNCHANGED <<main, raised, go, taken, r>>
           /\ \A j \in Workers : j # k => w'[j] = w[j]
           /\ WorkerStart(k) => WorkerMoved(k, "arrive")
           /\ WorkerWait(k) => WorkerMoved(k, "barrier")
           /\ WorkerOpenBarrier(k) \/ WorkerPassBarrier(k) => WorkerMoved(k, "go")
           /\ WorkerGo(k) => WorkerMoved(k, "get")
           /\ WorkerGet(k) => WorkerMoved(k, "begin") \/ WorkerMoved(k, "drain")
           /\ WorkerBeginUnit(k) => WorkerMoved(k, "batch")
           /\ WorkerBatch(k) => WorkerMoved(k, "batch") \/ WorkerMoved(k, "endunit")
           /\ WorkerEndUnit(k) => WorkerMoved(k, "get")
           /\ WorkerDrain(k) => WorkerMoved(k, "end")
           /\ WorkerEnd(k) => WorkerMoved(k, "report")
           /\ WorkerRaises(k) => w'[k].pc = "report" /\ w'[k].error = WorkerError(k)
           /\ WorkerReport(k) => WorkerMoved(k, "done")
PROOF
<1> USE DEF TypeOK, ThreadTypes, WorkerState, WorkerMoved
<1>1. UNCHANGED <<main, raised, go, taken, r>>
    BY DEF WorkerThread, WorkerStart, WorkerWait, WorkerOpenBarrier, WorkerPassBarrier, WorkerGo, WorkerGet,
           WorkerBeginUnit, WorkerBatch, WorkerEndUnit, WorkerDrain, WorkerEnd, WorkerRaises, WorkerReport
<1>2. \A j \in Workers : j # k => w'[j] = w[j]
    BY WorkerTouchesItsOwn
<1>3. WorkerStart(k) => WorkerMoved(k, "arrive")
    BY DEF WorkerStart
<1>4. WorkerWait(k) => WorkerMoved(k, "barrier")
    BY DEF WorkerWait
<1>5. WorkerOpenBarrier(k) \/ WorkerPassBarrier(k) => WorkerMoved(k, "go")
    BY DEF WorkerOpenBarrier, WorkerPassBarrier
<1>6. WorkerGo(k) => WorkerMoved(k, "get")
    BY DEF WorkerGo
<1>7. WorkerGet(k) => WorkerMoved(k, "begin") \/ WorkerMoved(k, "drain")
    BY DEF WorkerGet
<1>8. WorkerBeginUnit(k) => WorkerMoved(k, "batch")
    BY DEF WorkerBeginUnit
<1>9. WorkerBatch(k) => WorkerMoved(k, "batch") \/ WorkerMoved(k, "endunit")
    BY DEF WorkerBatch
<1>10. WorkerEndUnit(k) => WorkerMoved(k, "get")
    BY DEF WorkerEndUnit
<1>11. WorkerDrain(k) => WorkerMoved(k, "end")
    BY DEF WorkerDrain
<1>12. WorkerEnd(k) => WorkerMoved(k, "report")
    BY DEF WorkerEnd
<1>13. WorkerRaises(k) => w'[k].pc = "report" /\ w'[k].error = WorkerError(k)
    BY DEF WorkerRaises, WorkerFailed
<1>14. WorkerReport(k) => WorkerMoved(k, "done")
    BY DEF WorkerReport
<1> QED BY <1>1, <1>2, <1>3, <1>4, <1>5, <1>6, <1>7, <1>8, <1>9, <1>10, <1>11, <1>12, <1>13, <1>14

\* Reader k goes on to pc, its error as it was.
ReaderMoved(k, pc) == r'[k].pc = pc /\ r'[k].error = r[k].error

\* Where each step of a reader (_reader) takes it.
LEMMA ReaderPlaces ==
    ASSUME TypeOK, NEW k \in Workers, ReaderThread(k)
    PROVE  /\ UNCHANGED <<main, raised, barrier, go, w, log, sink>>
           /\ \A j \in Workers : j # k => r'[j] = r[j]
           /\ ReaderStart(k) => ReaderMoved(k, "slot")
           /\ ReaderSlot(k) => ReaderMoved(k, "take") \/ (stop /\ ReaderMoved(k, "finish"))
           /\ ReaderTake(k) => ReaderMoved(k, "finish") \/ ReaderMoved(k, "read")
           /\ ReaderRead(k) => ReaderMoved(k, "deliver") \/ ReaderMoved(k, "read")
           /\ ReaderDeliver(k) => ReaderMoved(k, "slot")
           /\ ReaderFinish(k) => ReaderMoved(k, "report")
           /\ ReaderRaises(k) => r'[k].pc = "report" /\ r'[k].error = "cause"
           /\ ReaderReport(k) => ReaderMoved(k, "done")
PROOF
<1> USE DEF TypeOK, ThreadTypes, ReaderState, ReaderMoved
<1>1. UNCHANGED <<main, raised, barrier, go, w, log, sink>>
    BY DEF ReaderThread, ReaderStart, ReaderSlot, ReaderTake, ReaderRead, ReaderDeliver, ReaderFinish,
           ReaderRaises, ReaderReport
<1>2. ASSUME NEW j \in Workers, j # k PROVE r'[j] = r[j]
    BY <1>2 DEF ReaderThread, ReaderStart, ReaderSlot, ReaderTake, ReaderRead, ReaderDeliver, ReaderFinish,
           ReaderRaises, ReaderReport
<1>3. ReaderStart(k) => ReaderMoved(k, "slot")
    BY DEF ReaderStart
<1>4. ReaderSlot(k) => ReaderMoved(k, "take") \/ (stop /\ ReaderMoved(k, "finish"))
    BY DEF ReaderSlot
<1>5. ReaderTake(k) => ReaderMoved(k, "finish") \/ ReaderMoved(k, "read")
    BY DEF ReaderTake
<1>6. ReaderRead(k) => ReaderMoved(k, "deliver") \/ ReaderMoved(k, "read")
    BY DEF ReaderRead
<1>7. ReaderDeliver(k) => ReaderMoved(k, "slot")
    BY DEF ReaderDeliver
<1>8. ReaderFinish(k) => ReaderMoved(k, "report")
    BY DEF ReaderFinish
<1>9. ReaderRaises(k) => r'[k].pc = "report" /\ r'[k].error = "cause"
    BY DEF ReaderRaises, ReaderFailed
<1>10. ReaderReport(k) => ReaderMoved(k, "done")
    BY DEF ReaderReport
<1> QED BY <1>1, <1>2, <1>3, <1>4, <1>5, <1>6, <1>7, <1>8, <1>9, <1>10

-----------------------------------------------------------------------------
(* The start.                                                               *)

\* Before the first step nobody is past the barrier.
LEMMA StartInit == Init => StartInv
PROOF
BY DEF Init, StartInv, Outside, Abandoned

\* A worker passes the barrier only with run(), and none passes one that broke first.
LEMMA WorkerKeepsStart ==
    ASSUME TypeOK, StartInv, NEW k \in Workers, WorkerThread(k)
    PROVE  StartInv'
PROOF
<1> USE WorkerPlaces DEF StartInv, Abandoned, Outside
<1>1. CASE WorkerStart(k)
    BY <1>1 DEF WorkerStart, WorkerMoved
<1>2. CASE WorkerWait(k)
    BY <1>2 DEF WorkerWait, WorkerMoved
<1>3. CASE WorkerOpenBarrier(k)
    <2>1. \A j \in Workers : w'[j].pc \in {"barrier", "go"}
        BY <1>3 DEF WorkerOpenBarrier, WorkerMoved, AllWaitBut
    <2>2. main' = "barrier" /\ UNCHANGED <<go, taken>>
        BY <1>3 DEF WorkerOpenBarrier, AllWaitBut
    <2>3. barrier' = "open"
        BY <1>3 DEF WorkerOpenBarrier
    <2>4. main = "barrier"
        BY <2>2
    <2> QED BY <2>1, <2>2, <2>3, <2>4
<1>4. CASE WorkerPassBarrier(k)
    BY <1>4 DEF WorkerPassBarrier, WorkerMoved
<1>5. CASE WorkerGo(k)
    BY <1>5 DEF WorkerGo, WorkerMoved
<1>6. CASE WorkerGet(k)
    BY <1>6 DEF WorkerGet, WorkerMoved
<1>7. CASE WorkerBeginUnit(k)
    BY <1>7 DEF WorkerBeginUnit, WorkerMoved
<1>8. CASE WorkerBatch(k)
    BY <1>8 DEF WorkerBatch, WorkerMoved
<1>9. CASE WorkerEndUnit(k)
    BY <1>9 DEF WorkerEndUnit, WorkerMoved
<1>10. CASE WorkerDrain(k)
    BY <1>10 DEF WorkerDrain, WorkerMoved
<1>11. CASE WorkerEnd(k)
    BY <1>11 DEF WorkerEnd, WorkerMoved
<1>12. CASE WorkerRaises(k)
    <2>1. w[k].pc \in {"start", "begin", "batch", "endunit", "end"} \/ (w[k].pc \in {"arrive", "barrier"} /\ barrier = "broken")
        BY <1>12 DEF WorkerRaises, WorkerError
    <2> QED BY <1>12, <2>1 DEF WorkerRaises
<1>13. CASE WorkerReport(k)
    BY <1>13 DEF WorkerReport, WorkerMoved
<1> QED
    BY <1>1, <1>2, <1>3, <1>4, <1>5, <1>6, <1>7, <1>8, <1>9, <1>10, <1>11, <1>12, <1>13 DEF WorkerThread

\* run() queues the units only after the barrier, or gives up with stop set.
LEMMA OthersKeepStart ==
    ASSUME TypeOK, StartInv, MainThread \/ UNCHANGED vars \/ \E k \in Workers : ReaderThread(k)
    PROVE  StartInv'
PROOF
<1> USE DEF StartInv, Abandoned, Outside
<1>1. ASSUME NEW k \in Workers, ReaderThread(k) PROVE StartInv'
    <2>1. UNCHANGED <<main, barrier, go, w>> /\ (stop => stop')
        BY <1>1, ReaderPlaces DEF ReaderThread, ReaderStart, ReaderSlot, ReaderTake, ReaderRead, ReaderDeliver,
               ReaderFinish, ReaderRaises, ReaderReport
    <2>2. taken' = taken \/ (taken >= 0 /\ taken' = taken + 1)
        <3>1. CASE ReaderTake(k)
            BY <3>1, ConveyorAssumption DEF ReaderTake, Todo
        <3>2. CASE ~ReaderTake(k)
            BY <1>1, <3>2 DEF ReaderThread, ReaderStart, ReaderSlot, ReaderRead, ReaderDeliver,
               ReaderFinish, ReaderRaises, ReaderReport
        <3> QED BY <3>1, <3>2
    <2>3. taken \in Int /\ taken' \in Int /\ (taken >= 0 => taken' >= 0 /\ taken' # -1) /\ (taken = -1 => taken' = -1)
        BY <2>2, ConveyorAssumption DEF TypeOK, RunTypes
    <2> QED BY <2>1, <2>2, <2>3
<1>2. CASE MainWait
    BY <1>2 DEF MainWait
<1>3. CASE MainOpenBarrier
    BY <1>3 DEF MainOpenBarrier, AllWorkersWait
<1>4. CASE MainPassBarrier
    BY <1>4 DEF MainPassBarrier
<1>5. CASE MainAbandon
    BY <1>5 DEF MainAbandon, StartFailed
<1>6. CASE MainQueue
    BY <1>6 DEF MainQueue
<1>7. CASE MainGiveUp
    BY <1>7 DEF MainGiveUp
<1>8. CASE MainFinish
    BY <1>8 DEF MainFinish
<1>9. CASE UNCHANGED vars
    BY <1>9 DEF vars
<1> QED
    BY <1>1, <1>2, <1>3, <1>4, <1>5, <1>6, <1>7, <1>8, <1>9 DEF MainThread

-----------------------------------------------------------------------------
(* The results.                                                             *)

\* Before the first step there are no results and no errors.
LEMMA ResultsInit == Init => ResultsInv
PROOF
<1> SUFFICES ASSUME Init PROVE ResultsInv
    OBVIOUS
<1>1. WorkersDone = {} /\ ReadersDone = {}
    BY DEF Init, WorkersDone, ReadersDone
<1>2. Cardinality(WorkersDone) + Cardinality(ReadersDone) = 0
    BY <1>1, FS_EmptySet
<1> QED BY <1>1, <1>2 DEF Init, ResultsInv

\* No result is put; errors may be noted, with stop set.
LEMMA NoResult ==
    ASSUME ResultsInv, UNCHANGED <<results, WorkersDone, ReadersDone>>, stop => stop',
           Abandoned => Abandoned',
           main' = "returned" \/ (main' = "raised" /\ taken' # -1) =>
               main = "returned" \/ (main = "raised" /\ taken # -1),
           \A j \in Workers : /\ w'[j].error # w[j].error => stop' /\ w'[j].pc \in {"report", "done"}
                              /\ w'[j].error = w[j].error => w'[j].pc = w[j].pc \/ w[j].pc \notin {"report", "done"}
                              /\ w'[j].error # w[j].error => w[j].error = "none" /\ w[j].pc # "done",
           \A j \in Workers : /\ r'[j].error # r[j].error => stop' /\ r'[j].pc \in {"report", "done"}
                              /\ r'[j].error = r[j].error => r'[j].pc = r[j].pc \/ r[j].pc \notin {"report", "done"}
                              /\ r'[j].error # r[j].error => r[j].error = "none" /\ r[j].pc # "done",
           stop' /\ ~stop /\ ~Abandoned' =>
               \E j \in Workers : w'[j].error # "none" \/ r'[j].error # "none"
    PROVE  ResultsInv'
PROOF
<1>1. Len(results') = Cardinality(WorkersDone') + Cardinality(ReadersDone')
    BY DEF ResultsInv
<1>2. \A k \in WorkersDone' : \E i \in 1 .. Len(results') : results'[i].error = w'[k].error
    BY DEF ResultsInv, WorkersDone
<1>3. \A k \in ReadersDone' : \E i \in 1 .. Len(results') : results'[i].error = r'[k].error
    BY DEF ResultsInv, ReadersDone
<1>4. \A i \in 1 .. Len(results') : results'[i].error # "none" => stop'
    BY DEF ResultsInv
<1>5. \A k \in Workers : w'[k].error # "none" => stop' /\ w'[k].pc \in {"report", "done"}
    BY DEF ResultsInv
<1>6. \A k \in Workers : r'[k].error # "none" => stop' /\ r'[k].pc \in {"report", "done"}
    BY DEF ResultsInv
<1>7. stop' /\ ~Abandoned' => \E k \in Workers : w'[k].error # "none" \/ r'[k].error # "none"
    BY DEF ResultsInv
<1>8. main' = "returned" \/ (main' = "raised" /\ taken' # -1) => WorkersDone' = Workers /\ ReadersDone' = Workers
    BY DEF ResultsInv
<1> QED BY <1>1, <1>2, <1>3, <1>4, <1>5, <1>6, <1>7, <1>8 DEF ResultsInv

\* The result of a worker is its last step, and carries its error.
LEMMA WorkerReports ==
    ASSUME TypeOK, ResultsInv, NEW k \in Workers, WorkerReport(k)
    PROVE  ResultsInv'
PROOF
<1> DEFINE res == [role |-> "worker", k |-> k, error |-> w[k].error]
<1>1. /\ UNCHANGED <<main, taken, stop, r>> /\ w'[k].pc = "done" /\ w'[k].error = w[k].error
      /\ \A j \in Workers : j # k => w'[j] = w[j]
    BY WorkerPlaces DEF WorkerReport, WorkerMoved, WorkerThread
<1>2. results \in Seq(Result) /\ res \in Result /\ results' = Append(results, res)
    BY DEF TypeOK, QueueTypes, ThreadTypes, WorkerState, Result, WorkerReport
<1>3. /\ Len(results') = Len(results) + 1 /\ results'[Len(results) + 1] = res /\ Len(results) \in Nat
      /\ \A i \in 1 .. Len(results) : results'[i] = results[i]
    BY <1>2
<1> HIDE DEF res
<1>4. k \notin WorkersDone /\ WorkersDone' = WorkersDone \cup {k} /\ ReadersDone' = ReadersDone
      /\ WorkersDone \in SUBSET Workers /\ ReadersDone \in SUBSET Workers
    BY <1>1 DEF WorkersDone, ReadersDone, WorkerReport
<1>5. Len(results') = Cardinality(WorkersDone') + Cardinality(ReadersDone')
    <2>1. IsFiniteSet(WorkersDone) /\ Cardinality(WorkersDone) \in Nat /\ Cardinality(ReadersDone) \in Nat
        BY <1>4, LeftIsFinite
    <2>2. Cardinality(WorkersDone') = Cardinality(WorkersDone) + 1
        BY <1>4, <2>1, FS_AddElement
    <2>3. Cardinality(ReadersDone') = Cardinality(ReadersDone)
        BY <1>4
    <2> QED BY <1>3, <2>1, <2>2, <2>3 DEF ResultsInv
<1>6. res.error = w[k].error
    BY DEF res
<1>7. \A j \in WorkersDone' : \E i \in 1 .. Len(results') : results'[i].error = w'[j].error
    <2> SUFFICES ASSUME NEW j \in WorkersDone' PROVE \E i \in 1 .. Len(results') : results'[i].error = w'[j].error
        OBVIOUS
    <2>1. CASE j = k
        BY <1>1, <1>3, <1>6, <2>1
    <2>2. CASE j # k
        <3>1. j \in WorkersDone /\ j \in Workers /\ w'[j] = w[j]
            BY <1>1, <1>4, <2>2
        <3>2. PICK i \in 1 .. Len(results) : results[i].error = w[j].error
            BY <3>1 DEF ResultsInv
        <3> QED BY <1>3, <3>1, <3>2
    <2> QED BY <2>1, <2>2
<1>8. \A j \in ReadersDone' : \E i \in 1 .. Len(results') : results'[i].error = r'[j].error
    BY <1>1, <1>3, <1>4 DEF ResultsInv
<1>9. \A i \in 1 .. Len(results') : results'[i].error # "none" => stop'
    <2> SUFFICES ASSUME NEW i \in 1 .. Len(results'), results'[i].error # "none" PROVE stop'
        OBVIOUS
    <2>1. i \in 1 .. Len(results) \/ i = Len(results) + 1
        BY <1>3
    <2> QED BY <1>1, <1>3, <1>6, <2>1 DEF ResultsInv
<1>10. \A j \in Workers : w'[j].error # "none" => stop' /\ w'[j].pc \in {"report", "done"}
    BY <1>1 DEF ResultsInv
<1>11. \A j \in Workers : r'[j].error # "none" => stop' /\ r'[j].pc \in {"report", "done"}
    BY <1>1 DEF ResultsInv
<1>12. stop' /\ ~Abandoned' => \E j \in Workers : w'[j].error # "none" \/ r'[j].error # "none"
    BY <1>1 DEF ResultsInv, Abandoned
<1>13. main' = "returned" \/ (main' = "raised" /\ taken' # -1) => WorkersDone' = Workers /\ ReadersDone' = Workers
    BY <1>1, <1>4 DEF ResultsInv
<1> QED BY <1>5, <1>7, <1>8, <1>9, <1>10, <1>11, <1>12, <1>13 DEF ResultsInv

\* The result of a reader is its last step, and carries its error.
LEMMA ReaderReports ==
    ASSUME TypeOK, ResultsInv, NEW k \in Workers, ReaderReport(k)
    PROVE  ResultsInv'
PROOF
<1> DEFINE res == [role |-> "reader", k |-> k, error |-> r[k].error]
<1>1. /\ UNCHANGED <<main, taken, stop, w>> /\ r'[k].pc = "done" /\ r'[k].error = r[k].error
      /\ \A j \in Workers : j # k => r'[j] = r[j]
    BY ReaderPlaces DEF ReaderReport, ReaderMoved, ReaderThread
<1>2. results \in Seq(Result) /\ res \in Result /\ results' = Append(results, res)
    BY DEF TypeOK, QueueTypes, ThreadTypes, ReaderState, Result, ReaderReport
<1>3. /\ Len(results') = Len(results) + 1 /\ results'[Len(results) + 1] = res /\ Len(results) \in Nat
      /\ \A i \in 1 .. Len(results) : results'[i] = results[i]
    BY <1>2
<1> HIDE DEF res
<1>4. k \notin ReadersDone /\ ReadersDone' = ReadersDone \cup {k} /\ WorkersDone' = WorkersDone
      /\ WorkersDone \in SUBSET Workers /\ ReadersDone \in SUBSET Workers
    BY <1>1 DEF WorkersDone, ReadersDone, ReaderReport
<1>5. Len(results') = Cardinality(WorkersDone') + Cardinality(ReadersDone')
    <2>1. IsFiniteSet(ReadersDone) /\ Cardinality(WorkersDone) \in Nat /\ Cardinality(ReadersDone) \in Nat
        BY <1>4, LeftIsFinite
    <2>2. Cardinality(ReadersDone') = Cardinality(ReadersDone) + 1
        BY <1>4, <2>1, FS_AddElement
    <2>3. Cardinality(WorkersDone') = Cardinality(WorkersDone)
        BY <1>4
    <2> QED BY <1>3, <2>1, <2>2, <2>3 DEF ResultsInv
<1>6. res.error = r[k].error
    BY DEF res
<1>7. \A j \in ReadersDone' : \E i \in 1 .. Len(results') : results'[i].error = r'[j].error
    <2> SUFFICES ASSUME NEW j \in ReadersDone' PROVE \E i \in 1 .. Len(results') : results'[i].error = r'[j].error
        OBVIOUS
    <2>1. CASE j = k
        BY <1>1, <1>3, <1>6, <2>1
    <2>2. CASE j # k
        <3>1. j \in ReadersDone /\ j \in Workers /\ r'[j] = r[j]
            BY <1>1, <1>4, <2>2
        <3>2. PICK i \in 1 .. Len(results) : results[i].error = r[j].error
            BY <3>1 DEF ResultsInv
        <3> QED BY <1>3, <3>1, <3>2
    <2> QED BY <2>1, <2>2
<1>8. \A j \in WorkersDone' : \E i \in 1 .. Len(results') : results'[i].error = w'[j].error
    BY <1>1, <1>3, <1>4 DEF ResultsInv
<1>9. \A i \in 1 .. Len(results') : results'[i].error # "none" => stop'
    <2> SUFFICES ASSUME NEW i \in 1 .. Len(results'), results'[i].error # "none" PROVE stop'
        OBVIOUS
    <2>1. i \in 1 .. Len(results) \/ i = Len(results) + 1
        BY <1>3
    <2> QED BY <1>1, <1>3, <1>6, <2>1 DEF ResultsInv
<1>10. \A j \in Workers : r'[j].error # "none" => stop' /\ r'[j].pc \in {"report", "done"}
    BY <1>1 DEF ResultsInv
<1>11. \A j \in Workers : w'[j].error # "none" => stop' /\ w'[j].pc \in {"report", "done"}
    BY <1>1 DEF ResultsInv
<1>12. stop' /\ ~Abandoned' => \E j \in Workers : w'[j].error # "none" \/ r'[j].error # "none"
    BY <1>1 DEF ResultsInv, Abandoned
<1>13. main' = "returned" \/ (main' = "raised" /\ taken' # -1) => WorkersDone' = Workers /\ ReadersDone' = Workers
    BY <1>1, <1>4 DEF ResultsInv
<1> QED BY <1>5, <1>7, <1>8, <1>9, <1>10, <1>11, <1>12, <1>13 DEF ResultsInv

\* A worker notes an error only together with stop.
LEMMA WorkerKeepsResults ==
    ASSUME TypeOK, ResultsInv, NEW k \in Workers, WorkerThread(k)
    PROVE  ResultsInv'
PROOF
<1>1. CASE WorkerReport(k)
    BY <1>1, WorkerReports
<1>2. CASE ~WorkerReport(k)
    <2>1. UNCHANGED <<results, main, taken, r>> /\ (stop => stop') /\ w[k].pc \notin {"report", "done"} /\ w'[k].pc # "done"
        <3>1. UNCHANGED <<results, main, taken, r>>
            BY <1>2, WorkerPlaces DEF WorkerThread, WorkerStart, WorkerWait, WorkerOpenBarrier, WorkerPassBarrier, WorkerGo,
               WorkerGet, WorkerBeginUnit, WorkerBatch, WorkerEndUnit, WorkerDrain, WorkerEnd, WorkerRaises
        <3>2. stop => stop'
            BY <1>2 DEF WorkerThread, WorkerStart, WorkerWait, WorkerOpenBarrier, WorkerPassBarrier, WorkerGo,
               WorkerGet, WorkerBeginUnit, WorkerBatch, WorkerEndUnit, WorkerDrain, WorkerEnd, WorkerRaises
        <3>3. w[k].pc \notin {"report", "done"}
            BY <1>2 DEF WorkerThread, WorkerStart, WorkerWait, WorkerOpenBarrier, WorkerPassBarrier, WorkerGo,
               WorkerGet, WorkerBeginUnit, WorkerBatch, WorkerEndUnit, WorkerDrain, WorkerEnd, WorkerRaises,
               WorkerError
        <3>4. w'[k].pc # "done"
            BY <1>2, WorkerPlaces DEF WorkerThread, WorkerMoved
        <3> QED BY <3>1, <3>2, <3>3, <3>4
    <2>2. \A j \in Workers : j # k => w'[j] = w[j]
        BY WorkerPlaces
    <2>3. WorkersDone' = WorkersDone /\ ReadersDone' = ReadersDone
        BY <2>1, <2>2 DEF WorkersDone, ReadersDone
    <2>4. w[k].error = "none"
        BY <2>1 DEF ResultsInv
    <2>5. (w'[k].error = w[k].error /\ stop' = stop) \/ (w'[k].error # "none" /\ w'[k].pc = "report" /\ stop')
        <3>1. CASE WorkerRaises(k)
            <4>1. w'[k].error # "none" /\ w'[k].pc = "report"
                BY <3>1, WorkerPlaces DEF WorkerRaises
            <4>2. stop'
                BY <3>1 DEF WorkerRaises
            <4> QED BY <4>1, <4>2
        <3>2. CASE ~WorkerRaises(k)
            <4>1. w'[k].error = w[k].error
                BY <1>2, <3>2, WorkerPlaces DEF WorkerThread, WorkerMoved
            <4>2. stop' = stop
                BY <1>2, <3>2 DEF WorkerThread, WorkerStart, WorkerWait, WorkerOpenBarrier, WorkerPassBarrier, WorkerGo,
               WorkerGet, WorkerBeginUnit, WorkerBatch, WorkerEndUnit, WorkerDrain, WorkerEnd
            <4> QED BY <4>1, <4>2
        <3> QED BY <3>1, <3>2
    <2> QED BY <2>1, <2>2, <2>3, <2>4, <2>5, NoResult DEF Abandoned
<1> QED BY <1>1, <1>2

\* A reader notes an error only together with stop.
LEMMA ReaderKeepsResults ==
    ASSUME TypeOK, ResultsInv, NEW k \in Workers, ReaderThread(k)
    PROVE  ResultsInv'
PROOF
<1>1. CASE ReaderReport(k)
    BY <1>1, ReaderReports
<1>2. CASE ~ReaderReport(k)
    <2>1. UNCHANGED <<results, main, w>> /\ (stop => stop') /\ r[k].pc \notin {"report", "done"} /\ r'[k].pc # "done"
        <3>1. UNCHANGED <<results, main, w>>
            BY <1>2, ReaderPlaces DEF ReaderThread, ReaderStart, ReaderSlot, ReaderTake, ReaderRead, ReaderDeliver,
               ReaderFinish, ReaderRaises
        <3>2. stop => stop'
            BY <1>2 DEF ReaderThread, ReaderStart, ReaderSlot, ReaderTake, ReaderRead, ReaderDeliver,
               ReaderFinish, ReaderRaises
        <3>3. r[k].pc \notin {"report", "done"}
            BY <1>2 DEF ReaderThread, ReaderStart, ReaderSlot, ReaderTake, ReaderRead, ReaderDeliver,
               ReaderFinish, ReaderRaises,
               ReaderMayRaise
        <3>4. r'[k].pc # "done"
            BY <1>2, ReaderPlaces DEF ReaderThread, ReaderMoved
        <3> QED BY <3>1, <3>2, <3>3, <3>4
    <2>2. \A j \in Workers : j # k => r'[j] = r[j]
        BY ReaderPlaces
    <2>3. WorkersDone' = WorkersDone /\ ReadersDone' = ReadersDone
        BY <2>1, <2>2 DEF WorkersDone, ReadersDone
    <2>4. r[k].error = "none"
        BY <2>1 DEF ResultsInv
    <2>5. (r'[k].error = r[k].error /\ stop' = stop) \/ (r'[k].error # "none" /\ r'[k].pc = "report" /\ stop')
        <3>1. CASE ReaderRaises(k)
            <4>1. r'[k].error # "none" /\ r'[k].pc = "report"
                BY <3>1, ReaderPlaces
            <4>2. stop'
                BY <3>1 DEF ReaderRaises
            <4> QED BY <4>1, <4>2
        <3>2. CASE ~ReaderRaises(k)
            <4>1. r'[k].error = r[k].error
                BY <1>2, <3>2, ReaderPlaces DEF ReaderThread, ReaderMoved
            <4>2. stop' = stop
                BY <1>2, <3>2 DEF ReaderThread, ReaderStart, ReaderSlot, ReaderTake, ReaderRead, ReaderDeliver,
               ReaderFinish
            <4> QED BY <4>1, <4>2
        <3> QED BY <3>1, <3>2
    <2>6. taken # -1 <=> taken' # -1
        <3>1. CASE ReaderTake(k)
            BY <3>1, ConveyorAssumption DEF ReaderTake, Todo
        <3>2. CASE ~ReaderTake(k)
            BY <1>2, <3>2 DEF ReaderThread, ReaderStart, ReaderSlot, ReaderRead, ReaderDeliver,
               ReaderFinish, ReaderRaises
        <3> QED BY <3>1, <3>2
    <2> QED BY <2>1, <2>2, <2>3, <2>4, <2>5, <2>6, NoResult DEF Abandoned
<1> QED BY <1>1, <1>2

\* run() finishes only with the results of all threads.
LEMMA MainKeepsResults ==
    ASSUME TypeOK, StartInv, ResultsInv, MainThread \/ UNCHANGED vars
    PROVE  ResultsInv'
PROOF
<1>1. UNCHANGED <<results, w, r, WorkersDone, ReadersDone>> /\ (stop => stop')
    BY DEF vars, MainThread, MainWait, MainOpenBarrier, MainPassBarrier, MainAbandon, MainQueue,
           MainGiveUp, MainFinish, WorkersDone, ReadersDone
<1>2. CASE MainFinish
    <2>1. UNCHANGED <<stop, taken>> /\ taken # -1 /\ ~Abandoned /\ ~Abandoned' /\ Len(results) >= 2 * W
        BY <1>2 DEF MainFinish, StartInv, Abandoned, ResultsWanted
    <2>2. WorkersDone \in SUBSET Workers /\ ReadersDone \in SUBSET Workers
        BY DEF WorkersDone, ReadersDone
    <2>3. /\ Cardinality(WorkersDone) \in Nat /\ Cardinality(ReadersDone) \in Nat
          /\ Cardinality(WorkersDone) <= W /\ Cardinality(ReadersDone) <= W
        BY <2>2, LeftIsFinite
    <2>4. Cardinality(WorkersDone) = W /\ Cardinality(ReadersDone) = W
        BY <2>1, <2>3, ConveyorAssumption DEF ResultsInv
    <2>5. WorkersDone = Workers /\ ReadersDone = Workers
        BY <2>2, <2>4, LeftIsFinite, FS_Subset
    <2> QED BY <1>1, <2>1, <2>5 DEF ResultsInv, WorkersDone, ReadersDone
<1>3. CASE ~MainFinish
    <2>1. Abandoned => Abandoned'
        BY <1>3 DEF vars, MainThread, MainWait, MainOpenBarrier, MainPassBarrier, MainAbandon, MainQueue,
               MainGiveUp, StartInv, Abandoned, StartFailed
    <2>2. main' = "returned" \/ (main' = "raised" /\ taken' # -1) => main = "returned" \/ (main = "raised" /\ taken # -1)
        BY <1>3 DEF vars, MainThread, MainWait, MainOpenBarrier, MainPassBarrier, MainAbandon, MainQueue,
               MainGiveUp, StartInv
    <2>3. stop' /\ ~stop => Abandoned'
        BY <1>3 DEF vars, MainThread, MainWait, MainOpenBarrier, MainPassBarrier, MainAbandon, MainQueue,
               MainGiveUp, Abandoned
    <2> QED BY <1>1, <2>1, <2>2, <2>3, NoResult
<1> QED BY <1>2, <1>3

-----------------------------------------------------------------------------
(* The sinks.                                                               *)

\* Before the first step every sink is new.
LEMMA SinkInit == Init => SinkInv
PROOF
BY DEF Init, SinkInv

\* A worker begins its sink before the barrier and ends it after its loop, if it does not fail.
LEMMA WorkerKeepsSinks ==
    ASSUME TypeOK, SinkInv, ResultsInv, NEW k \in Workers, WorkerThread(k)
    PROVE  SinkInv'
PROOF
<1>1. sink \in [Workers -> {"new", "begun", "ended"}]
    BY DEF TypeOK, SinkTypes
<1>2. \A j \in Workers : j # k => w'[j] = w[j]
    BY WorkerPlaces
<1>3. CASE WorkerStart(k)
    <2>1. sink' = [sink EXCEPT ![k] = "begun"] /\ w'[k].pc = "arrive"
        BY <1>3, WorkerPlaces DEF WorkerStart, WorkerMoved
    <2> QED BY <1>1, <1>2, <2>1 DEF SinkInv
<1>4. CASE WorkerEnd(k)
    <2>1. sink' = [sink EXCEPT ![k] = "ended"] /\ w'[k].pc = "report"
        BY <1>4, WorkerPlaces DEF WorkerEnd, WorkerMoved
    <2> QED BY <1>1, <1>2, <2>1 DEF SinkInv
<1>5. CASE ~WorkerStart(k) /\ ~WorkerEnd(k)
    <2>1. sink' = sink
        BY <1>5 DEF WorkerThread, WorkerWait, WorkerOpenBarrier, WorkerPassBarrier, WorkerGo,
               WorkerGet, WorkerBeginUnit, WorkerBatch, WorkerEndUnit, WorkerDrain, WorkerRaises, WorkerReport
    <2>2. CASE WorkerRaises(k)
        <3>1. w'[k].pc = "report" /\ w'[k].error # "none"
            BY <2>2, WorkerPlaces DEF WorkerRaises
        <3> QED BY <1>2, <2>1, <3>1 DEF SinkInv
    <2>3. CASE WorkerReport(k)
        <3>1. w[k].pc = "report" /\ w'[k].pc = "done" /\ w'[k].error = w[k].error
            BY <2>3, WorkerPlaces DEF WorkerReport, WorkerMoved
        <3> QED BY <1>2, <2>1, <3>1 DEF SinkInv
    <2>4. CASE ~WorkerRaises(k) /\ ~WorkerReport(k)
        <3>1. w[k].pc \notin {"start", "report", "done"}
            BY <1>5, <2>4 DEF WorkerThread, WorkerWait, WorkerOpenBarrier, WorkerPassBarrier, WorkerGo,
               WorkerGet, WorkerBeginUnit, WorkerBatch, WorkerEndUnit, WorkerDrain
        <3>2. w'[k].pc \notin {"start", "report", "done"}
            BY <1>5, <2>4, WorkerPlaces DEF WorkerThread, WorkerMoved
        <3> QED BY <1>2, <2>1, <3>1, <3>2 DEF SinkInv
    <2> QED BY <2>2, <2>3, <2>4
<1> QED BY <1>3, <1>4, <1>5

-----------------------------------------------------------------------------
(* The units.                                                               *)

\* Worker k has called its sink about the unit in its hands; about u, and not to the end.
InHand(k)   == w[k].pc \in {"batch", "endunit"}
Begun(k, u) == Len(log[u]) \in 1 .. B + 1 /\ log[u][1].by = k

\* A unit is in one buffer at most, and was taken; so was one a sink has seen.
OneBuffer ==
    \A j, k \in Workers, s, t \in Slots, u \in Units : InBuffer(j, s, u) /\ InBuffer(k, t, u) => j = k /\ s = t
TakenBefore ==
    /\ \A k \in Workers, s \in Slots, u \in Units : InBuffer(k, s, u) => u <= taken
    /\ \A u \in Units : log[u] # <<>> => u <= taken

\* A sink is called about a unit by the worker that has it, in order, and by no other after that one failed.
CalledInHand ==
    \A k \in Workers, s \in Slots, u \in Units : InBuffer(k, s, u) /\ log[u] # <<>> => InHand(k) /\ w[k].unit = u
CallsInOrder ==
    \A k \in Workers : InHand(k) =>
        /\ Len(log[w[k].unit]) >= 1 /\ log[w[k].unit][1].by = k
        /\ w[k].pc = "batch" => w[k].batch \in 1 .. B /\ Len(log[w[k].unit]) = w[k].batch
        /\ w[k].pc = "endunit" => Len(log[w[k].unit]) = B + 1
BegunByHolder ==
    \A k \in Workers, u \in Units : Begun(k, u) => (InHand(k) /\ w[k].unit = u) \/ w[k].error # "none"

UnitInv == OneBuffer /\ TakenBefore /\ CalledInHand /\ CallsInOrder /\ BegunByHolder

-----------------------------------------------------------------------------
(* The buffers.  Only a reader that takes a unit puts it into one, and it   *)
(* stays there until it is delivered, or stop is set.                       *)

\* The threads that do nothing leave their units where they are.
LEMMA SameBuffers ==
    ASSUME NEW j \in Workers, w'[j] = w[j], r'[j] = r[j], ready'[j] = ready[j]
    PROVE  \A s, u : InBuffer(j, s, u)' <=> InBuffer(j, s, u)
PROOF
BY DEF InBuffer, ReaderFills, WorkerHolds, Queued

\* A worker takes the first item of its ready queue.
LEMMA Taken ==
    ASSUME TypeOK, NEW k \in Workers, WorkerGet(k)
    PROVE  /\ Len(ready[k]) \in Nat \ {0} /\ Len(ready'[k]) = Len(ready[k]) - 1
           /\ \A i \in 1 .. Len(ready'[k]) : ready'[k][i] = ready[k][i + 1]
           /\ IF ready[k][1].unit = Done \/ stop
              THEN w'[k].pc = "drain"
              ELSE w'[k].pc = "begin" /\ w'[k].slot = ready[k][1].slot /\ w'[k].unit = ready[k][1].unit
           /\ w[k].pc = "get" /\ r' = r /\ log' = log /\ stop' = stop
PROOF
<1>1. ready[k] \in Seq(Items) /\ ready[k] # <<>> /\ ready'[k] = Tail(ready[k])
    BY DEF TypeOK, QueueTypes, WorkerGet
<1>2. /\ Len(ready'[k]) = Len(ready[k]) - 1
      /\ \A i \in 1 .. Len(ready'[k]) : ready'[k][i] = ready[k][i + 1]
    BY <1>1, HeadTailProperties
<1>3. Len(ready[k]) \in Nat \ {0}
    BY <1>1, EmptySeq, LenProperties
<1>4. Head(ready[k]) = ready[k][1]
    BY <1>1
<1>5. w'[k] = IF Head(ready[k]).unit = Done \/ stop
              THEN [w[k] EXCEPT !.pc = "drain"]
              ELSE [w[k] EXCEPT !.pc = "begin", !.slot = Head(ready[k]).slot, !.unit = Head(ready[k]).unit]
    BY DEF WorkerGet, TypeOK, ThreadTypes
<1>6. w[k] \in WorkerState
    BY DEF TypeOK, ThreadTypes
<1>7. w[k].pc = "get" /\ r' = r /\ log' = log /\ stop' = stop
    BY DEF WorkerGet
<1> QED BY <1>2, <1>3, <1>4, <1>5, <1>6, <1>7 DEF WorkerState

\* What a worker has in its hands it keeps, but when it takes a unit, ends it or fails.
LEMMA SameHands ==
    ASSUME TypeOK, NEW k \in Workers, WorkerThread(k), ~WorkerGet(k), ~WorkerEndUnit(k), ~WorkerRaises(k)
    PROVE  /\ r' = r /\ ready' = ready /\ WorkerHolds(k)' = WorkerHolds(k) /\ stop' = stop
           /\ w'[k].slot = w[k].slot /\ w'[k].unit = w[k].unit
PROOF
<1> USE DEF TypeOK, ThreadTypes, WorkerState
<1>1. r' = r /\ ready' = ready /\ stop' = stop
    BY DEF WorkerThread, WorkerStart, WorkerWait, WorkerOpenBarrier, WorkerPassBarrier, WorkerGo, WorkerBeginUnit,
           WorkerBatch, WorkerDrain, WorkerEnd, WorkerReport
<1>2. w'[k].slot = w[k].slot /\ w'[k].unit = w[k].unit
    <2>1. CASE WorkerBeginUnit(k)
        BY <2>1 DEF WorkerBeginUnit
    <2>2. CASE WorkerBatch(k)
        BY <2>2 DEF WorkerBatch
    <2>3. CASE ~WorkerBeginUnit(k) /\ ~WorkerBatch(k)
        <3>1. \E pc \in WorkerPC : w' = [w EXCEPT ![k].pc = pc]
            BY <2>3 DEF WorkerThread, WorkerStart, WorkerWait, WorkerOpenBarrier, WorkerPassBarrier, WorkerGo,
                   WorkerDrain, WorkerEnd, WorkerReport, WorkerPC
        <3> QED BY <3>1
    <2> QED BY <2>1, <2>2, <2>3
<1>3. WorkerHolds(k)' = WorkerHolds(k)
    <2>1. CASE WorkerBeginUnit(k)
        BY <2>1 DEF WorkerBeginUnit, WorkerHolds
    <2>2. CASE WorkerBatch(k)
        BY <2>2 DEF WorkerBatch, WorkerHolds
    <2>3. CASE ~WorkerBeginUnit(k) /\ ~WorkerBatch(k)
        BY <2>3 DEF WorkerThread, WorkerStart, WorkerWait, WorkerOpenBarrier, WorkerPassBarrier, WorkerGo,
               WorkerDrain, WorkerEnd, WorkerReport, WorkerHolds
    <2> QED BY <2>1, <2>2, <2>3
<1> QED BY <1>1, <1>2, <1>3

\* The worker that ends its unit, or fails.
LEMMA LetsGo ==
    ASSUME TypeOK, NEW k \in Workers, WorkerEndUnit(k) \/ WorkerRaises(k)
    PROVE  /\ r' = r /\ ready' = ready /\ ~WorkerHolds(k)'
           /\ WorkerEndUnit(k) => w[k].pc = "endunit" /\ stop' = stop
           /\ WorkerRaises(k) => stop'
PROOF
<1> USE DEF TypeOK, ThreadTypes, WorkerState
<1>1. r' = r /\ ready' = ready
    BY DEF WorkerEndUnit, WorkerRaises
<1>2. ~WorkerHolds(k)'
    BY WorkerPlaces DEF WorkerThread, WorkerMoved, WorkerHolds
<1>3. (WorkerEndUnit(k) => w[k].pc = "endunit" /\ stop' = stop) /\ (WorkerRaises(k) => stop')
    BY DEF WorkerEndUnit, WorkerRaises
<1> QED BY <1>1, <1>2, <1>3

\* A worker puts no unit into a buffer, and takes one out only when it has delivered it or failed.
LEMMA WorkerBuffers ==
    ASSUME TypeOK, NEW k \in Workers, WorkerThread(k)
    PROVE  /\ \A j \in Workers : \A s, u : InBuffer(j, s, u)' => InBuffer(j, s, u)
           /\ ~stop' => \A j \in Workers : \A s, u : InBuffer(j, s, u) =>
                              InBuffer(j, s, u)' \/ (WorkerEndUnit(k) /\ j = k /\ w[k].unit = u)
PROOF
<1>1. \A j \in Workers : j # k => \A s, u : InBuffer(j, s, u)' <=> InBuffer(j, s, u)
    BY WorkerTouchesItsOwn, SameBuffers
<1>2. SUFFICES ASSUME NEW s, NEW u
               PROVE  /\ InBuffer(k, s, u)' => InBuffer(k, s, u)
                      /\ ~stop' => (InBuffer(k, s, u) => InBuffer(k, s, u)' \/ (WorkerEndUnit(k) /\ w[k].unit = u))
    BY <1>1
<1>3. CASE WorkerGet(k)
    <2> USE DEF InBuffer, ReaderFills, WorkerHolds, Queued
    <2>1. /\ Len(ready[k]) \in Nat \ {0} /\ Len(ready'[k]) = Len(ready[k]) - 1
          /\ \A i \in 1 .. Len(ready'[k]) : ready'[k][i] = ready[k][i + 1]
          /\ w[k].pc = "get" /\ r' = r
        BY <1>3, Taken
    <2>2. /\ \A i \in Queued(k)' : i + 1 \in Queued(k) /\ ready'[k][i] = ready[k][i + 1]
          /\ \A i \in Queued(k) : i = 1 \/ (i - 1 \in Queued(k)' /\ ready[k][i] = ready'[k][i - 1])
        <3>1. \A i \in Queued(k)' : i + 1 \in Queued(k) /\ ready'[k][i] = ready[k][i + 1]
            BY <2>1
        <3>2. \A i \in Queued(k) : i = 1 \/ (i - 1 \in Queued(k)' /\ ready[k][i] = ready'[k][i - 1])
            <4> SUFFICES ASSUME NEW i \in Queued(k), i # 1
                         PROVE  i - 1 \in Queued(k)' /\ ready[k][i] = ready'[k][i - 1]
                OBVIOUS
            <4>1. i - 1 \in 1 .. Len(ready'[k]) /\ i - 1 + 1 = i
                BY <2>1
            <4> QED BY <2>1, <4>1
        <3> QED BY <3>1, <3>2
    <2>3. 1 \in 1 .. Len(ready[k])
        BY <2>1
    <2>4. CASE ready[k][1].unit = Done \/ stop
        <3>1. w'[k].pc = "drain" /\ stop' = stop
            BY <1>3, <2>4, Taken
        <3>2. 1 \notin Queued(k) \/ stop'
            BY <2>4, <3>1
        <3> HIDE DEF Queued
        <3> QED BY <2>1, <2>2, <3>1, <3>2
    <2>5. CASE ~(ready[k][1].unit = Done \/ stop)
        <3>1. w'[k].pc = "begin" /\ w'[k].slot = ready[k][1].slot /\ w'[k].unit = ready[k][1].unit
            BY <1>3, <2>5, Taken
        <3>2. 1 \in Queued(k)
            BY <2>3, <2>5
        <3> HIDE DEF Queued
        <3> QED BY <2>1, <2>2, <3>1, <3>2
    <2> QED BY <2>4, <2>5
<1>4. CASE WorkerEndUnit(k) \/ WorkerRaises(k)
    <2>1. /\ r' = r /\ ready' = ready /\ ~WorkerHolds(k)'
          /\ WorkerRaises(k) => stop'
        BY <1>4, LetsGo
    <2> QED BY <1>4, <2>1 DEF InBuffer, ReaderFills, Queued
<1>5. CASE ~WorkerGet(k) /\ ~WorkerEndUnit(k) /\ ~WorkerRaises(k)
    <2>1. /\ r' = r /\ ready' = ready /\ WorkerHolds(k)' = WorkerHolds(k)
          /\ w'[k].slot = w[k].slot /\ w'[k].unit = w[k].unit
        BY <1>5, SameHands
    <2> QED BY <2>1 DEF InBuffer, ReaderFills, Queued
<1> QED BY <1>3, <1>4, <1>5

\* The unit a reader takes, if it is one.
TakesUnit(k) == ReaderTake(k) /\ taken + 1 \in Units

\* A reader that takes a unit has it in its hands; one that takes a DONE finishes.
LEMMA UnitTaken ==
    ASSUME TypeOK, NEW k \in Workers, ReaderTake(k)
    PROVE  /\ w' = w /\ ready' = ready /\ stop' = stop /\ log' = log
           /\ taken \in Nat /\ taken' = taken + 1 /\ r[k].pc = "take"
           /\ IF taken + 1 \in Units
              THEN r'[k].pc = "read" /\ r'[k].unit = taken + 1 /\ r'[k].slot = r[k].slot
              ELSE r'[k].pc = "finish" /\ taken + 1 > N
PROOF
<1>1. /\ w' = w /\ ready' = ready /\ stop' = stop /\ log' = log
      /\ taken \in Nat /\ taken' = taken + 1 /\ taken + 1 \in 1 .. N + W /\ r[k].pc = "take"
    BY ConveyorAssumption DEF ReaderTake, Todo
<1>2. Todo[taken + 1] = IF taken + 1 <= N THEN taken + 1 ELSE Done
    BY <1>1 DEF Todo
<1>3. CASE taken + 1 \in Units
    <2>1. Todo[taken + 1] # Done /\ Todo[taken + 1] = taken + 1
        BY <1>2, <1>3, ConveyorAssumption DEF Units, Done
    <2>2. r' = [r EXCEPT ![k] = [@ EXCEPT !.pc = "read", !.unit = taken + 1]]
        BY <2>1 DEF ReaderTake
    <2> QED BY <1>1, <1>3, <2>2 DEF TypeOK, ThreadTypes, ReaderState
<1>4. CASE taken + 1 \notin Units
    <2>1. taken + 1 > N
        BY <1>1, <1>4, ConveyorAssumption DEF Units
    <2>2. Todo[taken + 1] = Done
        BY <1>1, <1>2, <2>1, ConveyorAssumption
    <2>3. r' = [r EXCEPT ![k] = [@ EXCEPT !.pc = "finish", !.slot = 0]]
        BY <2>2 DEF ReaderTake
    <2> QED BY <1>1, <1>4, <2>1, <2>3 DEF TypeOK, ThreadTypes, ReaderState
<1> QED BY <1>3, <1>4

\* A reader puts the unit in its hands, or DONE, behind what waits for its worker.
LEMMA Delivers ==
    ASSUME TypeOK, Ownership, NEW k \in Workers, ReaderDeliver(k) \/ ReaderFinish(k) \/ ReaderRaises(k)
    PROVE  /\ Len(ready[k]) \in Nat /\ Len(ready'[k]) = Len(ready[k]) + 1
           /\ \A i \in 1 .. Len(ready[k]) : ready'[k][i] = ready[k][i]
           /\ ~ReaderFills(k)' /\ w' = w /\ log' = log /\ taken' = taken
           /\ \A j \in Workers : j # k => ready'[j] = ready[j]
           /\ ReaderDeliver(k) =>
                /\ r[k].pc = "deliver" /\ r[k].unit \in Units /\ r'[k].pc = "slot" /\ stop' = stop
                /\ ready'[k][Len(ready[k]) + 1] = [slot |-> r[k].slot, unit |-> r[k].unit]
           /\ ~ReaderDeliver(k) => ~ReaderFills(k) \/ stop'
           /\ ~ReaderDeliver(k) => ready'[k][Len(ready[k]) + 1] = DoneItem
           /\ ReaderRaises(k) => stop'
           /\ ReaderFinish(k) => r[k].pc = "finish" /\ r'[k].pc = "report" /\ stop' = stop
PROOF
<1>1. ready[k] \in Seq(Items) /\ ready \in [Workers -> Seq(Items)] /\ Len(ready[k]) \in Nat
    BY DEF TypeOK, QueueTypes
<1>2. /\ w' = w /\ log' = log /\ taken' = taken
    BY DEF ReaderDeliver, ReaderFinish, ReaderRaises
<1>3. \A j \in Workers : j # k => ready'[j] = ready[j]
    BY <1>1 DEF ReaderDeliver, ReaderFinish, ReaderRaises
<1>4. ~ReaderFills(k)'
    BY ReaderPlaces DEF ReaderThread, ReaderMoved, ReaderFills
<1>5. CASE ReaderDeliver(k)
    <2>1. ready'[k] = Append(ready[k], [slot |-> r[k].slot, unit |-> r[k].unit])
        BY <1>1, <1>5 DEF ReaderDeliver
    <2>2. r[k].pc = "deliver" /\ stop' = stop
        BY <1>5 DEF ReaderDeliver
    <2>3. r[k].unit \in Units
        BY <2>2 DEF Ownership, Owned, ReaderOwned, ReaderFills
    <2>4. r'[k].pc = "slot"
        BY <1>5, ReaderPlaces DEF ReaderThread, ReaderMoved
    <2>5. ~ReaderFinish(k) /\ ~ReaderRaises(k)
        BY <2>2 DEF ReaderFinish, ReaderRaises, ReaderMayRaise
    <2> QED BY <1>1, <1>2, <1>3, <1>4, <1>5, <2>1, <2>2, <2>3, <2>4, <2>5
<1>6. CASE ~ReaderDeliver(k)
    <2>1. ready'[k] = Append(ready[k], DoneItem)
        BY <1>1, <1>6 DEF ReaderFinish, ReaderRaises
    <2>2. ReaderRaises(k) => stop'
        BY DEF ReaderRaises
    <2>3. ReaderFinish(k) => r[k].pc = "finish" /\ r'[k].pc = "report" /\ stop' = stop
        BY ReaderPlaces DEF ReaderThread, ReaderMoved, ReaderFinish
    <2>4. ~ReaderFills(k) \/ stop'
        BY <1>6, <2>2, <2>3 DEF ReaderFills
    <2> QED BY <1>1, <1>2, <1>3, <1>4, <1>6, <2>1, <2>2, <2>3, <2>4
<1> QED BY <1>5, <1>6

\* The steps of a reader that move no unit.
LEMMA OtherReaderSteps ==
    ASSUME TypeOK, NEW k \in Workers,
           ReaderStart(k) \/ ReaderSlot(k) \/ ReaderRead(k) \/ ReaderReport(k)
    PROVE  /\ w' = w /\ ready' = ready /\ log' = log /\ taken' = taken /\ stop' = stop
           /\ ReaderFills(k)' = ReaderFills(k)
           /\ ReaderFills(k) => r'[k].slot = r[k].slot /\ r'[k].unit = r[k].unit
           /\ r'[k].pc = "finish" => stop
           /\ r'[k].pc \in {"report", "done"} => r[k].pc \in {"report", "done"}
           /\ r[k].pc \in {"report", "done"} => r'[k].pc \in {"report", "done"}
PROOF
<1>1. w' = w /\ ready' = ready /\ log' = log /\ taken' = taken /\ stop' = stop
    BY DEF ReaderStart, ReaderSlot, ReaderRead, ReaderReport
<1>2. CASE ReaderRead(k)
    <2>1. r[k].pc = "read" /\ r'[k].pc \in {"read", "deliver"}
        BY <1>2, ReaderPlaces DEF ReaderThread, ReaderMoved, ReaderRead
    <2>2. r'[k].slot = r[k].slot /\ r'[k].unit = r[k].unit
        BY <1>2 DEF ReaderRead, TypeOK, ThreadTypes, ReaderState
    <2> QED BY <1>1, <2>1, <2>2 DEF ReaderFills
<1>3. CASE ReaderStart(k)
    BY <1>1, <1>3, ReaderPlaces DEF ReaderThread, ReaderMoved, ReaderFills, ReaderStart
<1>4. CASE ReaderSlot(k)
    <2>1. r[k].pc = "slot" /\ (r'[k].pc = "take" \/ (stop /\ r'[k].pc = "finish"))
        BY <1>4, ReaderPlaces DEF ReaderThread, ReaderMoved, ReaderSlot
    <2> QED BY <1>1, <2>1 DEF ReaderFills
<1>5. CASE ReaderReport(k)
    BY <1>1, <1>5, ReaderPlaces DEF ReaderThread, ReaderMoved, ReaderFills, ReaderReport
<1> QED BY <1>2, <1>3, <1>4, <1>5

\* A reader puts one unit into a buffer when it takes it from todo, and takes none out unless it fails.
LEMMA ReaderBuffers ==
    ASSUME TypeOK, Ownership, NEW k \in Workers, ReaderThread(k)
    PROVE  /\ \A j \in Workers : \A s, u : InBuffer(j, s, u)' =>
                 InBuffer(j, s, u) \/ (TakesUnit(k) /\ j = k /\ s = r[k].slot /\ u = taken + 1)
           /\ ~stop' => \A j \in Workers : \A s, u : InBuffer(j, s, u) => InBuffer(j, s, u)'
           /\ TakesUnit(k) => InBuffer(k, r[k].slot, taken)' /\ r'[k].slot = r[k].slot
PROOF
<1>1. \A j \in Workers : j # k => \A s, u : InBuffer(j, s, u)' <=> InBuffer(j, s, u)
    BY ReaderTouchesItsOwn, SameBuffers DEF Ownership
<1>2. CASE ReaderTake(k)
    <2>1. /\ w' = w /\ ready' = ready /\ r[k].pc = "take" /\ taken' = taken + 1
          /\ IF taken + 1 \in Units
              THEN r'[k].pc = "read" /\ r'[k].unit = taken + 1 /\ r'[k].slot = r[k].slot
              ELSE r'[k].pc = "finish"
        BY <1>2, UnitTaken
    <2>2. \A s, u : InBuffer(k, s, u)' => InBuffer(k, s, u) \/ (TakesUnit(k) /\ s = r[k].slot /\ u = taken + 1)
        <3>1. CASE taken + 1 \in Units
            BY <1>2, <2>1, <3>1 DEF InBuffer, ReaderFills, Queued, WorkerHolds, TakesUnit
        <3>2. CASE taken + 1 \notin Units
            BY <2>1, <3>2 DEF InBuffer, ReaderFills, Queued, WorkerHolds
        <3> QED BY <3>1, <3>2
    <2>3. \A s, u : InBuffer(k, s, u) => InBuffer(k, s, u)'
        BY <2>1 DEF InBuffer, ReaderFills, Queued, WorkerHolds
    <2>4. TakesUnit(k) => InBuffer(k, r[k].slot, taken)' /\ r'[k].slot = r[k].slot
        BY <2>1 DEF InBuffer, ReaderFills, TakesUnit
    <2>5. \A j \in Workers : \A s, u : InBuffer(j, s, u)' =>
              InBuffer(j, s, u) \/ (TakesUnit(k) /\ j = k /\ s = r[k].slot /\ u = taken + 1)
        <3> SUFFICES ASSUME NEW j \in Workers, NEW s, NEW u, InBuffer(j, s, u)'
                     PROVE  InBuffer(j, s, u) \/ (TakesUnit(k) /\ j = k /\ s = r[k].slot /\ u = taken + 1)
            OBVIOUS
        <3>1. CASE j = k
            BY <2>2, <3>1
        <3>2. CASE j # k
            BY <1>1, <3>2
        <3> QED BY <3>1, <3>2
    <2>6. \A j \in Workers : \A s, u : InBuffer(j, s, u) => InBuffer(j, s, u)'
        BY <1>1, <2>3
    <2> QED BY <2>4, <2>5, <2>6
<1>3. ASSUME ~ReaderTake(k),
             \A s, u : InBuffer(k, s, u)' => InBuffer(k, s, u),
             ~stop' => \A s, u : InBuffer(k, s, u) => InBuffer(k, s, u)'
      PROVE  /\ \A j \in Workers : \A s, u : InBuffer(j, s, u)' =>
                 InBuffer(j, s, u) \/ (TakesUnit(k) /\ j = k /\ s = r[k].slot /\ u = taken + 1)
             /\ ~stop' => \A j \in Workers : \A s, u : InBuffer(j, s, u) => InBuffer(j, s, u)'
             /\ TakesUnit(k) => InBuffer(k, r[k].slot, taken)' /\ r'[k].slot = r[k].slot
    <2>1. ~TakesUnit(k)
        BY <1>3 DEF TakesUnit
    <2> QED BY <1>1, <1>3, <2>1
<1>4. CASE ReaderDeliver(k) \/ ReaderFinish(k) \/ ReaderRaises(k)
    <2> DEFINE n == Len(ready[k])
    <2>1. /\ n \in Nat /\ Len(ready'[k]) = n + 1
          /\ \A i \in 1 .. n : ready'[k][i] = ready[k][i]
          /\ ~ReaderFills(k)' /\ w' = w
        BY <1>4, Delivers
    <2>2. ~ReaderTake(k)
        BY <1>4 DEF ReaderTake, ReaderDeliver, ReaderFinish, ReaderRaises, ReaderMayRaise
    <2>3. /\ ReaderDeliver(k) => /\ r[k].pc = "deliver" /\ r[k].unit \in Units
                                 /\ ready'[k][n + 1] = [slot |-> r[k].slot, unit |-> r[k].unit]
          /\ ~ReaderDeliver(k) => ready'[k][n + 1] = DoneItem /\ (~ReaderFills(k) \/ stop')
        BY <1>4, Delivers
    <2> HIDE DEF n
    <2>4. Queued(k) = {i \in 1 .. n : ready[k][i].unit # Done}
        BY DEF Queued, n
    <2>5. Queued(k)' = {i \in 1 .. n + 1 : ready'[k][i].unit # Done}
        BY <2>1 DEF Queued
    <2>6. \A i \in Queued(k) : i \in Queued(k)' /\ ready'[k][i] = ready[k][i]
        BY <2>1, <2>4, <2>5
    <2>7. CASE ReaderDeliver(k)
        <3>1. n + 1 \in Queued(k)'
            BY <2>1, <2>3, <2>5, <2>7 DEF Units, Done
        <3>2. \A i \in Queued(k)' : i \in Queued(k) \/ i = n + 1
            BY <2>1, <2>4, <2>5
        <3>3. r[k].pc = "deliver" /\ ready'[k][n + 1] = [slot |-> r[k].slot, unit |-> r[k].unit]
            BY <2>3, <2>7
        <3>4. \A s, u : InBuffer(k, s, u)' => InBuffer(k, s, u)
            BY <2>1, <2>6, <3>2, <3>3 DEF InBuffer, WorkerHolds, ReaderFills
        <3>5. \A s, u : InBuffer(k, s, u) => InBuffer(k, s, u)'
            BY <2>1, <2>6, <3>1, <3>3 DEF InBuffer, WorkerHolds, ReaderFills
        <3> QED BY <1>3, <2>2, <3>4, <3>5
    <2>8. CASE ~ReaderDeliver(k)
        <3>1. \A i \in Queued(k)' : i \in Queued(k)
            BY <2>1, <2>3, <2>4, <2>5, <2>8 DEF DoneItem
        <3>2. \A s, u : InBuffer(k, s, u)' => InBuffer(k, s, u)
            BY <2>1, <2>6, <3>1 DEF InBuffer, WorkerHolds
        <3>3. ~stop' => \A s, u : InBuffer(k, s, u) => InBuffer(k, s, u)'
            BY <2>1, <2>3, <2>6, <2>8 DEF InBuffer, WorkerHolds
        <3> QED BY <1>3, <2>2, <3>2, <3>3
    <2> QED BY <2>7, <2>8
<1>5. CASE ReaderStart(k) \/ ReaderSlot(k) \/ ReaderRead(k) \/ ReaderReport(k)
    <2>1. /\ w' = w /\ ready' = ready /\ ReaderFills(k)' = ReaderFills(k)
          /\ ReaderFills(k) => r'[k].slot = r[k].slot /\ r'[k].unit = r[k].unit
        BY <1>5, OtherReaderSteps
    <2>2. ~ReaderTake(k)
        BY <1>5 DEF ReaderTake, ReaderStart, ReaderSlot, ReaderRead, ReaderReport
    <2>3. \A s, u : InBuffer(k, s, u)' <=> InBuffer(k, s, u)
        BY <2>1 DEF InBuffer, Queued, WorkerHolds
    <2> QED BY <1>3, <2>2, <2>3
<1> QED BY <1>2, <1>4, <1>5 DEF ReaderThread

-----------------------------------------------------------------------------
(* The units.                                                               *)

Calling(k) == WorkerBeginUnit(k) \/ WorkerBatch(k) \/ WorkerEndUnit(k)

\* The calls about a unit are a sequence.
LEMMA Logs ==
    ASSUME TypeOK, NEW u \in Units
    PROVE  Len(log[u]) \in Nat /\ (log[u] # <<>> <=> Len(log[u]) >= 1)
PROOF
<1>1. log[u] \in Seq(SinkCall)
    BY DEF TypeOK, SinkTypes
<1> QED BY <1>1, EmptySeq, LenProperties

\* What a call of a sink adds.
LEMMA Called ==
    ASSUME TypeOK, Ownership, NEW k \in Workers, Calling(k)
    PROVE  /\ WorkerHolds(k) /\ w[k].unit \in Units /\ w[k].slot \in Slots /\ InBuffer(k, w[k].slot, w[k].unit)
           /\ Len(log'[w[k].unit]) = Len(log[w[k].unit]) + 1
           /\ \A i \in 1 .. Len(log[w[k].unit]) : log'[w[k].unit][i] = log[w[k].unit][i]
           /\ log'[w[k].unit][Len(log[w[k].unit]) + 1].by = k
           /\ \A u \in Units : u # w[k].unit => log'[u] = log[u]
PROOF
<1>1. WorkerHolds(k)
    BY DEF Calling, WorkerBeginUnit, WorkerBatch, WorkerEndUnit, WorkerHolds
<1>2. w[k].unit \in Units /\ w[k].slot \in Slots
    BY <1>1, BlocksAreDisjoint DEF Ownership, Owned, WorkerOwned
<1>3. InBuffer(k, w[k].slot, w[k].unit)
    BY <1>1 DEF InBuffer
<1>4. PICK rec : rec.by = k /\ log' = [log EXCEPT ![w[k].unit] = Append(@, rec)]
    BY DEF Calling, WorkerBeginUnit, WorkerBatch, WorkerEndUnit, Logged
<1>5. log \in [Units -> Seq(SinkCall)]
    BY DEF TypeOK, SinkTypes
<1>6. log'[w[k].unit] = Append(log[w[k].unit], rec) /\ \A u \in Units : u # w[k].unit => log'[u] = log[u]
    BY <1>2, <1>4, <1>5
<1>7. /\ Len(log'[w[k].unit]) = Len(log[w[k].unit]) + 1
      /\ \A i \in 1 .. Len(log[w[k].unit]) : log'[w[k].unit][i] = log[w[k].unit][i]
      /\ log'[w[k].unit][Len(log[w[k].unit]) + 1] = rec
    BY <1>2, <1>5, <1>6
<1> QED BY <1>1, <1>2, <1>3, <1>4, <1>6, <1>7

\* The other steps of a worker call no sink.
LEMMA NotCalled ==
    ASSUME NEW k \in Workers, WorkerThread(k), ~Calling(k)
    PROVE  log' = log
PROOF
BY DEF Calling, WorkerThread, WorkerStart, WorkerWait, WorkerOpenBarrier, WorkerPassBarrier, WorkerGo, WorkerGet,
       WorkerDrain, WorkerEnd, WorkerRaises, WorkerReport

\* A worker with a unit in its hands, and what the calls leave in them.
LEMMA HandsAfterCall ==
    ASSUME TypeOK, NEW k \in Workers
    PROVE  /\ WorkerBeginUnit(k) => /\ w[k].pc = "begin" /\ w'[k].pc = "batch" /\ w'[k].batch = 1
                                    /\ w'[k].unit = w[k].unit
           /\ WorkerBatch(k) => /\ w[k].pc = "batch" /\ w'[k].unit = w[k].unit
                                /\ IF w[k].batch = B THEN w'[k].pc = "endunit"
                                                     ELSE w'[k].pc = "batch" /\ w'[k].batch = w[k].batch + 1
           /\ WorkerEndUnit(k) => w[k].pc = "endunit" /\ w'[k].pc = "get"
PROOF
<1> USE DEF TypeOK, ThreadTypes, WorkerState
<1>1. WorkerBeginUnit(k) => /\ w[k].pc = "begin" /\ w'[k].pc = "batch" /\ w'[k].batch = 1
                            /\ w'[k].unit = w[k].unit
    BY DEF WorkerBeginUnit
<1>2. WorkerBatch(k) => /\ w[k].pc = "batch" /\ w'[k].unit = w[k].unit
                        /\ IF w[k].batch = B THEN w'[k].pc = "endunit"
                                             ELSE w'[k].pc = "batch" /\ w'[k].batch = w[k].batch + 1
    BY DEF WorkerBatch
<1>3. WorkerEndUnit(k) => w[k].pc = "endunit" /\ w'[k].pc = "get"
    BY DEF WorkerEndUnit
<1> QED BY <1>1, <1>2, <1>3

\* A worker that is not calling a sink gets into no unit, and out of one only by failing.
LEMMA HandsOtherwise ==
    ASSUME TypeOK, NEW k \in Workers, WorkerThread(k), ~Calling(k)
    PROVE  ~InHand(k)' /\ (InHand(k) => WorkerRaises(k))
PROOF
<1>1. ~InHand(k)'
    BY WorkerPlaces DEF Calling, WorkerThread, WorkerMoved, InHand
<1>2. InHand(k) => WorkerRaises(k)
    BY DEF Calling, WorkerThread, WorkerStart, WorkerWait, WorkerOpenBarrier, WorkerPassBarrier, WorkerGo, WorkerGet,
           WorkerDrain, WorkerEnd, WorkerReport, InHand
<1> QED BY <1>1, <1>2

\* The unit in the hands of a worker is in no other buffer.
LEMMA NowhereElse ==
    ASSUME TypeOK, Ownership, OneBuffer, NEW k \in Workers, WorkerEndUnit(k) \/ WorkerRaises(k), WorkerHolds(k)
    PROVE  \A j \in Workers, s \in Slots : ~InBuffer(j, s, w[k].unit) \/ (j = k /\ s = w[k].slot)
PROOF
<1>1. InBuffer(k, w[k].slot, w[k].unit)
    BY DEF InBuffer
<1>2. w[k].unit \in Units /\ w[k].slot \in Slots
    BY BlocksAreDisjoint DEF Ownership, Owned, WorkerOwned
<1> QED BY <1>1, <1>2 DEF OneBuffer

\* A unit a worker has let go of is in no buffer.
LEMMA LetGo ==
    ASSUME TypeOK, Ownership, OneBuffer, NEW k \in Workers, WorkerEndUnit(k) \/ WorkerRaises(k), WorkerHolds(k),
           NEW s \in Slots, NEW u, u = w[k].unit, InBuffer(k, s, u)'
    PROVE  FALSE
PROOF
<1>1. WorkerThread(k)
    BY DEF WorkerThread
<1>2. InBuffer(k, s, u)
    BY <1>1, WorkerBuffers
<1>3. s = w[k].slot
    BY <1>2, NowhereElse
<1>4. r' = r /\ ready' = ready /\ ~WorkerHolds(k)'
    BY LetsGo
<1>5. (ReaderFills(k) /\ r[k].slot = s) \/ \E i \in Queued(k) : ready[k][i].slot = s
    BY <1>4 DEF InBuffer, ReaderFills, Queued
<1>6. ReaderFills(k) => ReaderHas(k)
    BY DEF ReaderFills, ReaderHas
<1> QED BY <1>3, <1>5, <1>6 DEF Ownership, Owned, WorkerOwned

\* Before the first step no unit is in a buffer and no sink has seen one.
LEMMA UnitInit == Init => UnitInv
PROOF
<1> SUFFICES ASSUME Init PROVE UnitInv
    OBVIOUS
<1>1. \A k \in Workers : \A s, u : ~InBuffer(k, s, u)
    BY DEF Init, InBuffer, ReaderFills, WorkerHolds, Queued
<1>2. \A u \in Units : log[u] = <<>> /\ Len(log[u]) = 0
    BY DEF Init
<1>3. \A k \in Workers : ~InHand(k)
    BY DEF Init, InHand
<1> QED BY <1>1, <1>2, <1>3 DEF UnitInv, OneBuffer, TakenBefore, CalledInHand, CallsInOrder, BegunByHolder, Begun

\* The worker that makes a call is the only one that has the unit.
LEMMA Caller ==
    ASSUME TypeOK, Ownership, OneBuffer, NEW k \in Workers, Calling(k), NEW j \in Workers, j # k, WorkerHolds(j)
    PROVE  w[j].unit # w[k].unit /\ w[j].unit \in Units
PROOF
<1>1. InBuffer(k, w[k].slot, w[k].unit) /\ w[k].unit \in Units /\ w[k].slot \in Slots
    BY Called
<1>2. InBuffer(j, w[j].slot, w[j].unit)
    BY DEF InBuffer
<1>3. w[j].unit \in Units /\ w[j].slot \in Slots
    BY BlocksAreDisjoint DEF Ownership, Owned, WorkerOwned
<1> QED BY <1>1, <1>2, <1>3 DEF OneBuffer

\* A worker gives no unit a second buffer.
LEMMA WorkerKeepsPlaces ==
    ASSUME TypeOK, Ownership, UnitInv, NEW k \in Workers, WorkerThread(k)
    PROVE  OneBuffer' /\ TakenBefore'
PROOF
<1> USE DEF UnitInv
<1>1. \A j \in Workers : \A s, u : InBuffer(j, s, u)' => InBuffer(j, s, u)
    BY WorkerBuffers
<1>2. taken' = taken
    BY WorkerPlaces
<1>3. OneBuffer'
    BY <1>1 DEF OneBuffer
<1>4. \A j \in Workers, s \in Slots, u \in Units : InBuffer(j, s, u)' => u <= taken'
    BY <1>1, <1>2 DEF TakenBefore
<1>5. \A u \in Units : log'[u] # <<>> => u <= taken'
    <2> SUFFICES ASSUME NEW u \in Units, log'[u] # <<>> PROVE u <= taken
        BY <1>2
    <2>1. CASE log'[u] = log[u]
        BY <2>1 DEF TakenBefore
    <2>2. CASE log'[u] # log[u]
        <3>1. Calling(k)
            BY <2>2, NotCalled
        <3>2. u = w[k].unit
            BY <2>2, <3>1, Called
        <3> QED BY <3>1, <3>2, Called DEF TakenBefore
    <2> QED BY <2>1, <2>2
<1> QED BY <1>3, <1>4, <1>5 DEF TakenBefore

\* A unit in a buffer that a sink has seen stays in the hands of its worker.
LEMMA WorkerKeepsHands ==
    ASSUME TypeOK, Ownership, UnitInv, NEW k \in Workers, WorkerThread(k)
    PROVE  CalledInHand'
PROOF
<1> USE DEF UnitInv
<1> SUFFICES ASSUME NEW j \in Workers, NEW s \in Slots, NEW u \in Units, InBuffer(j, s, u)', log'[u] # <<>>
             PROVE  InHand(j)' /\ w'[j].unit = u
    BY DEF CalledInHand
<1>1. InBuffer(j, s, u)
    BY WorkerBuffers
<1>2. j # k => w'[j] = w[j]
    BY WorkerPlaces
<1>3. CASE log[u] # <<>>
    <2>1. InHand(j) /\ w[j].unit = u
        BY <1>1, <1>3 DEF CalledInHand
    <2>2. CASE j # k
        BY <1>2, <2>1, <2>2 DEF InHand
    <2>3. CASE j = k
        <3>1. WorkerHolds(k)
            BY <2>1, <2>3 DEF InHand, WorkerHolds
        <3>2. ~(WorkerEndUnit(k) \/ WorkerRaises(k))
            BY <2>1, <2>3, <3>1, LetGo
        <3>3. Calling(k)
            BY <2>1, <2>3, <3>2, HandsOtherwise
        <3>4. ~WorkerBeginUnit(k)
            BY <2>1, <2>3 DEF WorkerBeginUnit, InHand
        <3>5. WorkerBatch(k)
            BY <3>2, <3>3, <3>4 DEF Calling
        <3> QED BY <2>1, <2>3, <3>5, HandsAfterCall DEF InHand
    <2> QED BY <2>2, <2>3
<1>4. CASE log[u] = <<>>
    <2>1. Calling(k)
        BY <1>4, NotCalled
    <2>2. u = w[k].unit
        BY <1>4, <2>1, Called
    <2>3. j = k
        BY <1>1, <2>1, <2>2, Called DEF OneBuffer
    <2>4. ~InHand(k)
        BY <1>4, <2>2, Logs DEF CallsInOrder
    <2>5. WorkerBeginUnit(k)
        BY <2>1, <2>4 DEF Calling, WorkerBatch, WorkerEndUnit, InHand
    <2> QED BY <2>2, <2>3, <2>5, HandsAfterCall DEF InHand
<1> QED BY <1>3, <1>4

\* A worker calls its sink in order.
LEMMA WorkerKeepsOrder ==
    ASSUME TypeOK, Ownership, UnitInv, NEW k \in Workers, WorkerThread(k)
    PROVE  CallsInOrder'
PROOF
<1> USE DEF UnitInv
<1> SUFFICES ASSUME NEW j \in Workers, InHand(j)'
             PROVE  (/\ Len(log[w[j].unit]) >= 1 /\ log[w[j].unit][1].by = j
                     /\ w[j].pc = "batch" => w[j].batch \in 1 .. B /\ Len(log[w[j].unit]) = w[j].batch
                     /\ w[j].pc = "endunit" => Len(log[w[j].unit]) = B + 1)'
    BY DEF CallsInOrder
<1>1. CASE j # k
    <2>1. w'[j] = w[j] /\ InHand(j)
        BY <1>1, WorkerPlaces DEF InHand
    <2>2. log'[w[j].unit] = log[w[j].unit]
        <3>1. CASE ~Calling(k)
            BY <3>1, NotCalled
        <3>2. CASE Calling(k)
            <4>1. WorkerHolds(j)
                BY <2>1 DEF InHand, WorkerHolds
            <4> QED BY <1>1, <3>2, <4>1, Caller, Called
        <3> QED BY <3>1, <3>2
    <2> QED BY <2>1, <2>2 DEF CallsInOrder
<1>2. CASE j = k
    <2>1. Calling(k)
        BY <1>2, HandsOtherwise
    <2>2. ~WorkerEndUnit(k)
        BY <1>2, HandsAfterCall DEF InHand
    <2>3. w[k].unit \in Units /\ Len(log[w[k].unit]) \in Nat /\ (log[w[k].unit] # <<>> <=> Len(log[w[k].unit]) >= 1)
        BY <2>1, Called, Logs
    <2> DEFINE n == Len(log[w[k].unit])
    <2>4. /\ Len(log'[w[k].unit]) = n + 1
          /\ \A i \in 1 .. n : log'[w[k].unit][i] = log[w[k].unit][i]
          /\ log'[w[k].unit][n + 1].by = k
        BY <2>1, Called
    <2>5. CASE WorkerBeginUnit(k)
        <3>1. ~InHand(k)
            BY <2>5 DEF WorkerBeginUnit, InHand
        <3>2. n = 0
            BY <2>1, <2>3, <3>1, Called DEF CalledInHand
        <3>3. w'[k].pc = "batch" /\ w'[k].batch = 1 /\ w'[k].unit = w[k].unit
            BY <2>5, HandsAfterCall
        <3> QED BY <1>2, <2>4, <3>2, <3>3, ConveyorAssumption
    <2>6. CASE WorkerBatch(k)
        <3>1. /\ w[k].pc = "batch" /\ w'[k].unit = w[k].unit
              /\ IF w[k].batch = B THEN w'[k].pc = "endunit"
                                   ELSE w'[k].pc = "batch" /\ w'[k].batch = w[k].batch + 1
            BY <2>6, HandsAfterCall
        <3>2. n = w[k].batch /\ w[k].batch \in 1 .. B /\ log[w[k].unit][1].by = k
            BY <3>1 DEF CallsInOrder, InHand
        <3> HIDE DEF n
        <3>4. 1 \in 1 .. n
            BY <3>2, ConveyorAssumption
        <3>3. log'[w[k].unit][1].by = k
            BY <2>4, <3>2, <3>4
        <3> QED BY <1>2, <2>4, <3>1, <3>2, <3>3, ConveyorAssumption
    <2> QED BY <2>1, <2>2, <2>5, <2>6 DEF Calling
<1> QED BY <1>1, <1>2

\* A unit that was begun is in the hands of who began it, or that one failed.
LEMMA WorkerKeepsBegun ==
    ASSUME TypeOK, Ownership, UnitInv, ResultsInv, NEW k \in Workers, WorkerThread(k)
    PROVE  BegunByHolder'
PROOF
<1> USE DEF UnitInv
<1> SUFFICES ASSUME NEW j \in Workers, NEW u \in Units, Begun(j, u)'
             PROVE  (InHand(j)' /\ w'[j].unit = u) \/ w'[j].error # "none"
    BY DEF BegunByHolder
<1>1. j # k => w'[j] = w[j]
    BY WorkerPlaces
<1>2. w'[k].error = w[k].error \/ w'[k].error # "none"
    BY WorkerPlaces DEF WorkerThread, WorkerMoved, WorkerRaises
<1>3. CASE log'[u] = log[u]
    <2>1. (InHand(j) /\ w[j].unit = u) \/ w[j].error # "none"
        BY <1>3 DEF BegunByHolder, Begun
    <2>2. CASE w[j].error # "none" \/ j # k
        BY <1>1, <1>2, <2>1, <2>2 DEF InHand
    <2>3. CASE j = k /\ InHand(k) /\ w[k].unit = u
        <3>1. ~Calling(k)
            BY <1>3, <2>3, Called, Logs
        <3>2. WorkerRaises(k)
            BY <2>3, <3>1, HandsOtherwise
        <3> QED BY <2>3, <3>2, WorkerPlaces DEF WorkerRaises
    <2> QED BY <2>1, <2>2, <2>3
<1>4. CASE log'[u] # log[u]
    <2>1. Calling(k)
        BY <1>4, NotCalled
    <2>2. u = w[k].unit
        BY <1>4, <2>1, Called
    <2> DEFINE n == Len(log[u])
    <2>3. /\ n \in Nat /\ Len(log'[u]) = n + 1
          /\ \A i \in 1 .. n : log'[u][i] = log[u][i]
          /\ log'[u][n + 1].by = k
        BY <2>1, <2>2, Called, Logs
    <2>4. n + 1 \in 1 .. B + 1 /\ log'[u][1].by = j
        BY <2>3 DEF Begun
    <2>5. ~WorkerEndUnit(k)
        <3> SUFFICES ASSUME WorkerEndUnit(k) PROVE FALSE
            OBVIOUS
        <3>1. n = B + 1
            BY <2>2, HandsAfterCall DEF CallsInOrder, InHand
        <3> HIDE DEF n
        <3> QED BY <2>4, <3>1, ConveyorAssumption
    <2>6. InHand(k)' /\ w'[k].unit = u
        BY <2>1, <2>2, <2>5, HandsAfterCall DEF Calling, InHand
    <2>7. log'[u][1].by = k
        <3>1. CASE WorkerBeginUnit(k)
            <4>1. ~InHand(k)
                BY <3>1 DEF WorkerBeginUnit, InHand
            <4>2. n = 0
                BY <2>1, <2>2, <4>1, Called, Logs DEF CalledInHand
            <4> QED BY <2>3, <4>2
        <3>2. CASE WorkerBatch(k)
            <4>1. n >= 1 /\ log[u][1].by = k
                BY <2>2, <3>2, HandsAfterCall DEF CallsInOrder, InHand
            <4> HIDE DEF n
            <4> QED BY <2>3, <4>1
        <3> QED BY <2>1, <2>5, <3>1, <3>2 DEF Calling
    <2> QED BY <2>4, <2>6, <2>7
<1> QED BY <1>3, <1>4

\* A step of a worker leaves every unit in one place, with one caller.
LEMMA WorkerKeepsUnits ==
    ASSUME TypeOK, Ownership, ResultsInv, UnitInv, NEW k \in Workers, WorkerThread(k)
    PROVE  UnitInv'
PROOF
BY WorkerKeepsPlaces, WorkerKeepsHands, WorkerKeepsOrder, WorkerKeepsBegun DEF UnitInv

\* A reader calls no sink, and takes a unit nobody has.
LEMMA ReaderKeepsUnits ==
    ASSUME TypeOK, Ownership, UnitInv, NEW k \in Workers, ReaderThread(k)
    PROVE  UnitInv'
PROOF
<1> USE DEF UnitInv
<1>1. w' = w /\ log' = log
    BY ReaderPlaces
<1>2. taken \in Int /\ taken' \in {taken, taken + 1} /\ (TakesUnit(k) => taken' = taken + 1)
    <2>1. CASE ReaderTake(k)
        BY <2>1, UnitTaken
    <2>2. CASE ~ReaderTake(k)
        BY <2>2, ConveyorAssumption DEF TypeOK, RunTypes, TakesUnit, ReaderThread, ReaderStart, ReaderSlot, ReaderRead,
               ReaderDeliver, ReaderFinish, ReaderRaises, ReaderReport
    <2> QED BY <2>1, <2>2
<1>3. \A j \in Workers : \A s, u : InBuffer(j, s, u)' =>
          InBuffer(j, s, u) \/ (TakesUnit(k) /\ j = k /\ s = r[k].slot /\ u = taken + 1)
    BY ReaderBuffers
<1>4. \A j \in Workers, s \in Slots, u \in Units : InBuffer(j, s, u) => u # taken + 1
    BY <1>2 DEF TakenBefore, Units
<1>5. \A u \in Units : log[u] # <<>> => u # taken + 1
    BY <1>2 DEF TakenBefore, Units
<1>6. OneBuffer'
    <2> SUFFICES ASSUME NEW i \in Workers, NEW j \in Workers, NEW s \in Slots, NEW t \in Slots, NEW u \in Units,
                        InBuffer(i, s, u)', InBuffer(j, t, u)'
                 PROVE  i = j /\ s = t
        BY DEF OneBuffer
    <2>1. CASE u = taken + 1
        BY <1>3, <1>4, <2>1
    <2>2. CASE u # taken + 1
        BY <1>3, <2>2 DEF OneBuffer
    <2> QED BY <2>1, <2>2
<1>7. TakenBefore'
    <2>1. \A j \in Workers, s \in Slots, u \in Units : InBuffer(j, s, u)' => u <= taken'
        <3> SUFFICES ASSUME NEW j \in Workers, NEW s \in Slots, NEW u \in Units, InBuffer(j, s, u)'
                     PROVE  u <= taken'
            OBVIOUS
        <3>1. u \in Int
            BY ConveyorAssumption DEF Units
        <3>2. CASE InBuffer(j, s, u)
            BY <1>2, <3>1, <3>2 DEF TakenBefore
        <3>3. CASE TakesUnit(k) /\ u = taken + 1
            BY <1>2, <3>1, <3>3
        <3> QED BY <1>3, <3>2, <3>3
    <2>2. \A u \in Units : log'[u] # <<>> => u <= taken'
        <3> SUFFICES ASSUME NEW u \in Units, log[u] # <<>> PROVE u <= taken'
            BY <1>1
        <3>1. u \in Int
            BY ConveyorAssumption DEF Units
        <3> QED BY <1>2, <3>1 DEF TakenBefore
    <2> QED BY <2>1, <2>2 DEF TakenBefore
<1>8. CalledInHand'
    <2> SUFFICES ASSUME NEW j \in Workers, NEW s \in Slots, NEW u \in Units, InBuffer(j, s, u)', log[u] # <<>>
                 PROVE  InHand(j) /\ w[j].unit = u
        BY <1>1 DEF CalledInHand, InHand
    <2>1. InBuffer(j, s, u)
        BY <1>3, <1>5
    <2> QED BY <2>1 DEF CalledInHand
<1>9. CallsInOrder' /\ BegunByHolder'
    BY <1>1 DEF CallsInOrder, BegunByHolder, InHand, Begun
<1> QED BY <1>6, <1>7, <1>8, <1>9

\* run() moves no unit and calls no sink.
LEMMA MainKeepsUnits ==
    ASSUME TypeOK, StartInv, UnitInv, MainThread \/ UNCHANGED vars
    PROVE  UnitInv'
PROOF
<1> USE DEF UnitInv
<1>1. w' = w /\ r' = r /\ ready' = ready
    BY MainTouchesNothing
<1>2. log' = log /\ taken \in Int /\ taken' \in Int /\ taken <= taken'
    <2>1. log' = log /\ (taken' = taken \/ (taken' = 0 /\ main = "queue"))
        BY DEF vars, MainThread, MainWait, MainOpenBarrier, MainPassBarrier, MainAbandon, MainQueue, MainGiveUp, MainFinish
    <2> QED BY <2>1, ConveyorAssumption DEF TypeOK, RunTypes, StartInv
<1>3. \A j \in Workers : \A s, u : InBuffer(j, s, u)' <=> InBuffer(j, s, u)
    BY <1>1, SameBuffers
<1>4. OneBuffer' /\ CalledInHand'
    BY <1>1, <1>2, <1>3 DEF OneBuffer, CalledInHand, InHand
<1>5. TakenBefore'
    <2>1. \A u \in Units : u <= taken => u <= taken'
        BY <1>2, ConveyorAssumption DEF Units
    <2> QED BY <1>2, <1>3, <2>1 DEF TakenBefore
<1>6. CallsInOrder' /\ BegunByHolder'
    BY <1>1, <1>2 DEF CallsInOrder, BegunByHolder, InHand, Begun
<1> QED BY <1>4, <1>5, <1>6

-----------------------------------------------------------------------------
(* The promise.                                                             *)

\* Nothing is lost while nobody failed: a unit taken is in a buffer or delivered, readers leave after the
\* last one, and a DONE is behind all units of its queue.
NoneLost == \A u \in Units : u <= taken => Len(log[u]) = B + 2 \/ \E k \in Workers, s \in Slots : InBuffer(k, s, u)
LeftAtEnd == \A k \in Left : taken > N
DoneIsLast ==
    /\ \A k \in Workers : \A i \in 1 .. Len(ready[k]) : ready[k][i].unit = Done => i = Len(ready[k])
    /\ \A k \in Workers : ~InLoop(k) => Queued(k) = {}
WholeInv == ~stop => NoneLost /\ LeftAtEnd /\ DoneIsLast

-----------------------------------------------------------------------------
(* Nothing is lost.                                                         *)

\* Before the first step nothing has been taken.
LEMMA WholeInit == Init => WholeInv
PROOF
<1> SUFFICES ASSUME Init PROVE WholeInv
    OBVIOUS
<1>1. NoneLost
    BY ConveyorAssumption DEF Init, NoneLost, Units
<1>2. LeftAtEnd /\ DoneIsLast
    BY DEF Init, LeftAtEnd, DoneIsLast, Left, InLoop
<1> QED BY <1>1, <1>2 DEF WholeInv

\* How many calls its sink has got about the unit, when a worker makes the next.
LEMMA CallsSoFar ==
    ASSUME TypeOK, Ownership, UnitInv, NEW k \in Workers, Calling(k)
    PROVE  /\ WorkerBeginUnit(k) => log[w[k].unit] = <<>>
           /\ WorkerBatch(k) => Len(log[w[k].unit]) = w[k].batch /\ w[k].batch \in 1 .. B /\ InHand(k)
           /\ WorkerEndUnit(k) => Len(log[w[k].unit]) = B + 1 /\ InHand(k)
           /\ Len(log[w[k].unit]) \in 0 .. B + 1
PROOF
<1> USE DEF UnitInv
<1>1. ASSUME WorkerBeginUnit(k) PROVE log[w[k].unit] = <<>>
    <2>1. ~InHand(k)
        BY <1>1 DEF WorkerBeginUnit, InHand
    <2> QED BY <2>1, Called DEF CalledInHand
<1>2. ASSUME WorkerBatch(k) PROVE Len(log[w[k].unit]) = w[k].batch /\ w[k].batch \in 1 .. B /\ InHand(k)
    BY <1>2 DEF WorkerBatch, CallsInOrder, InHand
<1>3. ASSUME WorkerEndUnit(k) PROVE Len(log[w[k].unit]) = B + 1 /\ InHand(k)
    BY <1>3 DEF WorkerEndUnit, CallsInOrder, InHand
<1>4. Len(log[w[k].unit]) \in 0 .. B + 1
    <2>1. Len(<<>>) = 0 /\ 0 \in 0 .. B + 1 /\ B + 1 \in 0 .. B + 1 /\ 1 .. B \subseteq 0 .. B + 1
        BY ConveyorAssumption
    <2> QED BY <1>1, <1>2, <1>3, <2>1 DEF Calling
<1> QED BY <1>1, <1>2, <1>3, <1>4

\* A unit a worker lets go of has been delivered, unless somebody failed.
LEMMA WorkerLosesNone ==
    ASSUME TypeOK, Ownership, UnitInv, NoneLost, NEW k \in Workers, WorkerThread(k), ~stop'
    PROVE  NoneLost'
PROOF
<1> SUFFICES ASSUME NEW u \in Units, u <= taken
             PROVE  Len(log'[u]) = B + 2 \/ \E j \in Workers, s \in Slots : InBuffer(j, s, u)'
    BY WorkerPlaces DEF NoneLost
<1>1. taken' = taken
    BY WorkerPlaces
<1>2. CASE Len(log[u]) = B + 2
    <2>1. Calling(k) => u # w[k].unit
        BY <1>2, CallsSoFar, ConveyorAssumption
    <2>2. log'[u] = log[u]
        BY <2>1, Called, NotCalled
    <2> QED BY <1>2, <2>2
<1>3. ASSUME NEW j \in Workers, NEW s \in Slots, InBuffer(j, s, u)
      PROVE  Len(log'[u]) = B + 2 \/ InBuffer(j, s, u)'
    <2>1. InBuffer(j, s, u)' \/ (WorkerEndUnit(k) /\ w[k].unit = u)
        BY <1>3, WorkerBuffers
    <2>2. CASE WorkerEndUnit(k) /\ w[k].unit = u
        <3>1. Calling(k)
            BY <2>2 DEF Calling
        <3>2. Len(log[u]) = B + 1 /\ Len(log'[u]) = Len(log[u]) + 1
            BY <2>2, <3>1, CallsSoFar, Called
        <3> QED BY <3>2, ConveyorAssumption
    <2> QED BY <2>1, <2>2
<1> QED BY <1>2, <1>3 DEF NoneLost

\* A worker leaves its loop with nothing behind the DONE, unless somebody failed.
LEMMA WorkerKeepsDone ==
    ASSUME TypeOK, DoneIsLast, NEW k \in Workers, WorkerThread(k), ~stop'
    PROVE  DoneIsLast'
PROOF
<1> USE DEF DoneIsLast
<1>1. \A j \in Workers : j # k => w'[j] = w[j] /\ ready'[j] = ready[j]
    BY WorkerTouchesItsOwn
<1>2. CASE WorkerGet(k)
    <2>1. /\ Len(ready[k]) \in Nat \ {0} /\ Len(ready'[k]) = Len(ready[k]) - 1
          /\ \A i \in 1 .. Len(ready'[k]) : ready'[k][i] = ready[k][i + 1]
          /\ IF ready[k][1].unit = Done \/ stop THEN w'[k].pc = "drain" ELSE w'[k].pc = "begin"
          /\ stop' = stop
        BY <1>2, Taken
    <2>2. \A i \in 1 .. Len(ready'[k]) : ready'[k][i].unit = Done => i = Len(ready'[k])
        <3> SUFFICES ASSUME NEW i \in 1 .. Len(ready'[k]), ready'[k][i].unit = Done PROVE i = Len(ready'[k])
            OBVIOUS
        <3>1. i + 1 \in 1 .. Len(ready[k]) /\ ready[k][i + 1].unit = Done
            BY <2>1
        <3>2. i + 1 = Len(ready[k])
            BY <3>1
        <3> QED BY <2>1, <3>2
    <2>3. ASSUME ~InLoop(k)' PROVE Queued(k)' = {}
        <3>1. ready[k][1].unit = Done
            BY <2>1, <2>3 DEF InLoop
        <3>2. 1 \in 1 .. Len(ready[k])
            BY <2>1
        <3>3. 1 = Len(ready[k])
            BY <3>1, <3>2
        <3>4. Len(ready'[k]) = 0
            BY <2>1, <3>3
        <3> QED BY <3>4 DEF Queued
    <2> QED BY <1>1, <2>2, <2>3 DEF InLoop, Queued
<1>3. CASE ~WorkerGet(k)
    <2>1. ready' = ready
        BY <1>3, SameHands, LetsGo
    <2>2. ~InLoop(k)' => ~InLoop(k)
        <3>1. ~WorkerRaises(k)
            BY DEF WorkerRaises
        <3>2. CASE InLoop(k)
            <4>1. ~WorkerDrain(k) /\ ~WorkerEnd(k) /\ ~WorkerReport(k)
                BY <3>2 DEF InLoop, WorkerDrain, WorkerEnd, WorkerReport
            <4> QED BY <1>3, <3>1, <4>1, WorkerPlaces DEF WorkerThread, WorkerMoved, InLoop
        <3> QED BY <3>2
    <2> QED BY <1>1, <2>1, <2>2 DEF InLoop, Queued
<1> QED BY <1>2, <1>3

\* A step of a worker loses nothing.
LEMMA WorkerKeepsWhole ==
    ASSUME TypeOK, Ownership, UnitInv, WholeInv, NEW k \in Workers, WorkerThread(k)
    PROVE  WholeInv'
PROOF
<1> SUFFICES ASSUME ~stop' PROVE NoneLost' /\ LeftAtEnd' /\ DoneIsLast'
    BY DEF WholeInv
<1>1. ~stop
    BY DEF WorkerThread, WorkerStart, WorkerWait, WorkerOpenBarrier, WorkerPassBarrier, WorkerGo, WorkerGet, WorkerBeginUnit,
           WorkerBatch, WorkerEndUnit, WorkerDrain, WorkerEnd, WorkerRaises, WorkerReport
<1>2. r' = r /\ taken' = taken
    BY WorkerPlaces
<1>3. LeftAtEnd'
    BY <1>1, <1>2 DEF WholeInv, LeftAtEnd, Left
<1> QED BY <1>1, <1>3, WorkerLosesNone, WorkerKeepsDone DEF WholeInv

\* A unit a reader takes is in its buffer, and stays there.
LEMMA ReaderLosesNone ==
    ASSUME TypeOK, Ownership, NoneLost, NEW k \in Workers, ReaderThread(k), ~stop'
    PROVE  NoneLost'
PROOF
<1>1. log' = log
    BY ReaderPlaces
<1> SUFFICES ASSUME NEW u \in Units, u <= taken'
             PROVE  Len(log[u]) = B + 2 \/ \E j \in Workers, s \in Slots : InBuffer(j, s, u)'
    BY <1>1 DEF NoneLost
<1>2. CASE u <= taken
    <2>1. \A j \in Workers : \A s : InBuffer(j, s, u) => InBuffer(j, s, u)'
        BY ReaderBuffers
    <2> QED BY <1>2, <2>1 DEF NoneLost
<1>3. CASE ~(u <= taken)
    <2>1. ReaderTake(k)
        BY <1>3 DEF ReaderThread, ReaderStart, ReaderSlot, ReaderRead, ReaderDeliver, ReaderFinish, ReaderRaises,
               ReaderReport
    <2>2. taken \in Nat /\ taken' = taken + 1 /\ u \in Int
        BY <2>1, UnitTaken, ConveyorAssumption DEF Units
    <2>3. u = taken'
        BY <1>3, <2>2
    <2>4. TakesUnit(k)
        BY <2>1, <2>2, <2>3 DEF TakesUnit
    <2>5. InBuffer(k, r[k].slot, taken)' /\ r'[k].slot = r[k].slot /\ r[k].slot \in Slots
        BY <2>4, ReaderBuffers DEF TypeOK, ThreadTypes, ReaderState
    <2> DEFINE s == r[k].slot
    <2>6. InBuffer(k, s, u)' /\ s' \in Slots
        BY <2>3, <2>5
    <2>7. s' = s
        BY <2>5
    <2> QED BY <2>6, <2>7 DEF InBuffer
<1> QED BY <1>2, <1>3

\* A reader leaves when it takes a DONE, which is behind all units of todo.
LEMMA ReaderLeavesLast ==
    ASSUME TypeOK, Ownership, LeftAtEnd, NEW k \in Workers, ReaderThread(k), ~stop, ~stop'
    PROVE  LeftAtEnd'
PROOF
<1> SUFFICES ASSUME NEW j \in Left' PROVE taken' > N
    BY DEF LeftAtEnd
<1>1. taken \in Int /\ (taken' = taken \/ (taken' = taken + 1 /\ ReaderTake(k)))
    <2>1. CASE ReaderTake(k)
        BY <2>1, UnitTaken
    <2>2. CASE ~ReaderTake(k)
        BY <2>2, ConveyorAssumption DEF TypeOK, RunTypes, ReaderThread, ReaderStart, ReaderSlot, ReaderRead,
               ReaderDeliver, ReaderFinish, ReaderRaises, ReaderReport
    <2> QED BY <2>1, <2>2
<1>2. CASE j \in Left
    <2>1. taken > N
        BY <1>2 DEF LeftAtEnd
    <2> QED BY <1>1, <2>1, ConveyorAssumption
<1>3. CASE j \notin Left
    <2>1. j = k
        BY <1>3, ReaderPlaces DEF Left
    <2>2. ~ReaderRaises(k)
        BY DEF ReaderRaises
    <2>3. ReaderTake(k)
        <3>1. r'[k].pc \in {"finish", "report", "done"} /\ r[k].pc \notin {"finish", "report", "done"}
            BY <1>3, <2>1 DEF Left
        <3>2. ~ReaderFinish(k) /\ ~ReaderReport(k)
            BY <3>1 DEF ReaderFinish, ReaderReport
        <3> QED BY <2>2, <3>1, <3>2, ReaderPlaces DEF ReaderThread, ReaderMoved
    <2>4. r'[k].pc = "finish" \/ r'[k].pc \notin {"report", "done"}
        BY <2>3, UnitTaken
    <2>5. taken + 1 \notin Units
        BY <2>1, <2>3, UnitTaken DEF Left
    <2> QED BY <1>1, <2>3, <2>5, UnitTaken
<1> QED BY <1>2, <1>3

\* A reader puts nothing on its ready queue after its DONE.
LEMMA ReaderKeepsDone ==
    ASSUME TypeOK, Ownership, DoneIsLast, NEW k \in Workers, ReaderThread(k), ~stop, ~stop'
    PROVE  DoneIsLast'
PROOF
<1> USE DEF DoneIsLast
<1>1. w' = w
    BY ReaderPlaces
<1>2. \A j \in Workers : j # k => ready'[j] = ready[j]
    BY ReaderTouchesItsOwn DEF Ownership
<1>3. CASE ReaderDeliver(k) \/ ReaderFinish(k)
    <2> DEFINE n == Len(ready[k])
    <2>1. /\ n \in Nat /\ Len(ready'[k]) = n + 1 /\ \A i \in 1 .. n : ready'[k][i] = ready[k][i]
          /\ r[k].pc \in {"deliver", "finish"}
          /\ ReaderDeliver(k) => /\ r[k].unit \in Units
                                 /\ ready'[k][n + 1] = [slot |-> r[k].slot, unit |-> r[k].unit]
        BY <1>3, Delivers
    <2>2. /\ \A i \in 1 .. n : ready[k][i].unit # Done
          /\ InLoop(k)
        BY <2>1 DEF Ownership, Owned, LoopEnded
    <2> HIDE DEF n
    <2>3. \A i \in 1 .. Len(ready'[k]) : ready'[k][i].unit = Done => i = Len(ready'[k])
        <3> SUFFICES ASSUME NEW i \in 1 .. Len(ready'[k]), ready'[k][i].unit = Done PROVE i = Len(ready'[k])
            OBVIOUS
        <3>1. i \in 1 .. n \/ i = n + 1
            BY <2>1
        <3> QED BY <2>1, <2>2, <3>1
    <2> QED BY <1>1, <1>2, <2>2, <2>3 DEF InLoop, Queued
<1>4. CASE ~(ReaderDeliver(k) \/ ReaderFinish(k))
    <2>1. ~ReaderRaises(k)
        BY DEF ReaderRaises
    <2>2. ready' = ready
        BY <1>4, <2>1 DEF ReaderThread, ReaderStart, ReaderSlot, ReaderTake, ReaderRead, ReaderReport
    <2> QED BY <1>1, <2>2 DEF InLoop, Queued
<1> QED BY <1>3, <1>4

\* A step of a reader loses nothing.
LEMMA ReaderKeepsWhole ==
    ASSUME TypeOK, Ownership, WholeInv, NEW k \in Workers, ReaderThread(k)
    PROVE  WholeInv'
PROOF
<1> SUFFICES ASSUME ~stop' PROVE NoneLost' /\ LeftAtEnd' /\ DoneIsLast'
    BY DEF WholeInv
<1>1. ~stop
    BY DEF ReaderThread, ReaderStart, ReaderSlot, ReaderTake, ReaderRead, ReaderDeliver, ReaderFinish, ReaderRaises,
           ReaderReport
<1> QED BY <1>1, ReaderLosesNone, ReaderLeavesLast, ReaderKeepsDone DEF WholeInv

\* run() loses nothing: it queues the units before anyone takes one.
LEMMA MainKeepsWhole ==
    ASSUME TypeOK, StartInv, WholeInv, MainThread \/ UNCHANGED vars
    PROVE  WholeInv'
PROOF
<1> SUFFICES ASSUME ~stop' PROVE NoneLost' /\ LeftAtEnd' /\ DoneIsLast'
    BY DEF WholeInv
<1>1. w' = w /\ r' = r /\ ready' = ready
    BY MainTouchesNothing
<1>2. log' = log /\ ~stop /\ (taken' = taken \/ (taken' = 0 /\ main = "queue"))
    BY DEF vars, MainThread, MainWait, MainOpenBarrier, MainPassBarrier, MainAbandon, MainQueue, MainGiveUp, MainFinish
<1>3. taken' = taken \/ (taken' = 0 /\ taken = -1)
    BY <1>2 DEF StartInv
<1>4. NoneLost'
    <2>1. \A u \in Units : u <= taken' => u <= taken
        BY <1>3, ConveyorAssumption DEF Units
    <2>2. \A j \in Workers : \A s, u : InBuffer(j, s, u)' <=> InBuffer(j, s, u)
        BY <1>1, SameBuffers
    <2> QED BY <1>2, <2>1, <2>2 DEF WholeInv, NoneLost
<1>5. LeftAtEnd'
    BY <1>1, <1>2, <1>3, ConveyorAssumption DEF WholeInv, LeftAtEnd, Left
<1>6. DoneIsLast'
    BY <1>1, <1>2 DEF WholeInv, DoneIsLast, InLoop, Queued
<1> QED BY <1>4, <1>5, <1>6

-----------------------------------------------------------------------------
(* The invariant holds.                                                     *)

\* What the engine keeps, beside its types and the owners of its buffers.
KeepInv == StartInv /\ ResultsInv /\ SinkInv /\ UnitInv /\ WholeInv

\* The invariant holds at first.
LEMMA KeepInit == Init => KeepInv
PROOF
BY StartInit, ResultsInit, SinkInit, UnitInit, WholeInit DEF KeepInv

\* Every step keeps the invariant.
LEMMA KeepStep == TypeOK /\ Ownership /\ KeepInv /\ [Next]_vars => KeepInv'
PROOF
<1> SUFFICES ASSUME TypeOK, Ownership, KeepInv, [Next]_vars PROVE KeepInv'
    OBVIOUS
<1> USE DEF KeepInv
<1>1. ASSUME NEW k \in Workers, WorkerThread(k) PROVE KeepInv'
    BY <1>1, WorkerKeepsStart, WorkerKeepsResults, WorkerKeepsSinks, WorkerKeepsUnits, WorkerKeepsWhole
<1>2. ASSUME NEW k \in Workers, ReaderThread(k) PROVE KeepInv'
    <2>1. SinkInv'
        BY <1>2, ReaderPlaces DEF SinkInv
    <2> QED BY <1>2, <2>1, OthersKeepStart, ReaderKeepsResults, ReaderKeepsUnits, ReaderKeepsWhole
<1>3. CASE MainThread \/ UNCHANGED vars
    <2>1. w' = w /\ sink' = sink
        BY <1>3 DEF vars, MainThread, MainWait, MainOpenBarrier, MainPassBarrier, MainAbandon, MainQueue, MainGiveUp,
               MainFinish
    <2>2. SinkInv'
        BY <2>1 DEF SinkInv
    <2> QED BY <1>3, <2>2, OthersKeepStart, MainKeepsResults, MainKeepsUnits, MainKeepsWhole
<1> QED BY <1>1, <1>2, <1>3 DEF Next, Terminated

-----------------------------------------------------------------------------
(* Each step is one of Delivery, or one it does not see.                    *)

\* A worker that works does so while run() is running.
LEMMA AtWork ==
    ASSUME StartInv, ResultsInv, NEW k \in Workers, w[k].pc \notin {"report", "done"}
    PROVE  /\ main # "returned" /\ w[k].error = "none"
           /\ w[k].pc \notin Outside => main # "raised"
PROOF
<1>1. k \notin WorkersDone
    BY DEF WorkersDone
<1> QED BY <1>1 DEF ResultsInv, StartInv, Abandoned

\* Before the first step nothing was promised yet.
LEMMA InitPromises == Init => Promise!Init
PROOF
BY DEF Init, Promise!Init, Promise!Units, Promise!Workers, Units, Workers

\* A worker begins its sink.
LEMMA StartsTheSink ==
    ASSUME TypeOK, KeepInv, NEW k \in Workers, WorkerStart(k)
    PROVE  Promise!BeginSink(k)
PROOF
<1>1. w[k].pc = "start" /\ sink' = [sink EXCEPT ![k] = "begun"] /\ UNCHANGED <<log, stop, main>>
    BY DEF WorkerStart
<1>2. main # "returned" /\ sink[k] = "new"
    BY <1>1, AtWork DEF KeepInv, SinkInv
<1> QED BY <1>1, <1>2 DEF Promise!BeginSink

\* A worker that ends its sink has no unit open.
LEMMA EndsTheSink ==
    ASSUME TypeOK, KeepInv, NEW k \in Workers, WorkerEnd(k)
    PROVE  Promise!EndSink(k)
PROOF
<1>1. w[k].pc = "end" /\ sink' = [sink EXCEPT ![k] = "ended"] /\ UNCHANGED <<log, stop, main>>
    BY DEF WorkerEnd
<1>2. main # "returned" /\ main # "raised" /\ w[k].error = "none" /\ sink[k] = "begun"
    BY <1>1, AtWork DEF KeepInv, SinkInv, Outside
<1>3. \A u \in Units : ~Begun(k, u)
    BY <1>1, <1>2 DEF KeepInv, UnitInv, BegunByHolder, InHand
<1>4. \A u \in Promise!Units : ~Promise!Open(k, u)
    BY <1>3 DEF Promise!Units, Units, Promise!Open, Begun
<1> QED BY <1>1, <1>2, <1>4 DEF Promise!EndSink

\* The call a worker makes is the next one about its unit.
LEMMA NextCall ==
    ASSUME TypeOK, Ownership, UnitInv, NEW k \in Workers, Calling(k), NEW u, u = w[k].unit
    PROVE  log' = [log EXCEPT ![u] = Append(@, Promise!Call(k, u, Len(@) + 1))]
PROOF
<1> USE DEF Promise!Call
<1>1. CASE WorkerBeginUnit(k)
    <2>1. log[u] = <<>>
        BY <1>1, CallsSoFar
    <2>2. Len(log[u]) + 1 = 1 /\ 1 \notin 2 .. B + 1 /\ 1 # B + 2
        BY <2>1, ConveyorAssumption
    <2>3. Promise!Call(k, u, Len(log[u]) + 1) = [call |-> "begin_unit", by |-> k, batch |-> 0, data |-> Empty]
        BY <2>2 DEF Empty
    <2> QED BY <1>1, <2>3 DEF WorkerBeginUnit, Logged
<1>2. CASE WorkerBatch(k)
    <2>1. Len(log[u]) = w[k].batch /\ w[k].batch \in 1 .. B
        BY <1>2, CallsSoFar
    <2>2. /\ Len(log[u]) + 1 \in 2 .. B + 1 /\ Len(log[u]) + 1 # 1 /\ Len(log[u]) + 1 # B + 2
          /\ Len(log[u]) + 1 - 1 = w[k].batch
        BY <2>1, ConveyorAssumption
    <2>3. buf[w[k].slot] = Promise!Whole(u)
        BY Called DEF Ownership, Owned, WorkerOwned, Whole, Promise!Whole
    <2>4. Promise!Call(k, u, Len(log[u]) + 1) =
              [call |-> "write", by |-> k, batch |-> w[k].batch, data |-> buf[w[k].slot]]
        BY <2>2, <2>3
    <2> QED BY <1>2, <2>4 DEF WorkerBatch, Logged
<1>3. CASE WorkerEndUnit(k)
    <2>1. Len(log[u]) = B + 1
        BY <1>3, CallsSoFar
    <2>2. Len(log[u]) + 1 = B + 2 /\ B + 2 \notin 2 .. B + 1 /\ B + 2 # 1
        BY <2>1, ConveyorAssumption
    <2>3. Promise!Call(k, u, Len(log[u]) + 1) = [call |-> "end_unit", by |-> k, batch |-> 0, data |-> Empty]
        BY <2>2 DEF Empty
    <2> QED BY <1>3, <2>3 DEF WorkerEndUnit, Logged
<1> QED BY <1>1, <1>2, <1>3 DEF Calling

\* A call of a sink is a step of Delivery.
LEMMA DeliversTheUnit ==
    ASSUME TypeOK, Ownership, KeepInv, NEW k \in Workers, Calling(k)
    PROVE  \E u \in Promise!Units : Promise!Deliver(k, u)
PROOF
<1> DEFINE u == w[k].unit
<1>1. /\ w[k].pc \in {"begin", "batch", "endunit"} /\ UNCHANGED <<sink, stop, main>>
    BY DEF Calling, WorkerBeginUnit, WorkerBatch, WorkerEndUnit
<1>2. main # "returned" /\ main # "raised" /\ w[k].error = "none" /\ sink[k] = "begun"
    BY <1>1, AtWork DEF KeepInv, SinkInv, Outside
<1>3. u \in Units /\ u \in Promise!Units
    BY Called DEF Promise!Units, Units
<1>4. ~Promise!Delivered(u)
    BY CallsSoFar, ConveyorAssumption DEF KeepInv, Promise!Delivered
<1>5. \A v \in Promise!Units : Promise!Open(k, v) => v = u
    BY <1>2 DEF KeepInv, UnitInv, BegunByHolder, Promise!Units, Units, Promise!Open, Begun
<1>6. Promise!Open(k, u) \/ log[u] = <<>>
    <2>1. CASE WorkerBeginUnit(k)
        BY <2>1, CallsSoFar DEF KeepInv
    <2>2. CASE ~WorkerBeginUnit(k)
        <3>1. InHand(k) /\ Len(log[u]) \in 0 .. B + 1
            BY <2>2, CallsSoFar DEF KeepInv, Calling
        <3>2. Len(log[u]) >= 1 /\ log[u][1].by = k
            BY <3>1 DEF KeepInv, UnitInv, CallsInOrder
        <3>3. Len(log[u]) \in 1 .. B + 1
            BY <3>1, <3>2, ConveyorAssumption
        <3> QED BY <3>2, <3>3 DEF Promise!Open
    <2> QED BY <2>1, <2>2
<1>7. log' = [log EXCEPT ![u] = Append(@, Promise!Call(k, u, Len(@) + 1))]
    BY NextCall DEF KeepInv
<1> HIDE DEF u
<1> QED BY <1>1, <1>2, <1>3, <1>4, <1>5, <1>6, <1>7 DEF Promise!Deliver

\* A step that calls no sink and leaves run() where it is fails, or is not seen.
LEMMA FailsOrStutters ==
    ASSUME TypeOK, UNCHANGED <<log, sink>>, stop' = stop \/ stop' = TRUE,
           main' = main \/ {main, main'} \cap {"returned", "raised"} = {}
    PROVE  Promise!Fail \/ UNCHANGED Promise!vars
PROOF
<1>1. stop \in BOOLEAN
    BY DEF TypeOK, RunTypes
<1>2. (main = "returned" <=> main' = "returned") /\ (main = "raised" <=> main' = "raised")
    OBVIOUS
<1>3. CASE stop' = stop
    BY <1>2, <1>3 DEF Promise!vars
<1>4. CASE stop' /\ ~stop
    <2>1. stop' = TRUE
        BY <1>4
    <2> QED BY <1>2, <1>4, <2>1 DEF Promise!Fail
<1> QED BY <1>1, <1>3, <1>4

\* Every step of a worker is one of Delivery, or not seen.
LEMMA WorkerPromises ==
    ASSUME TypeOK, Ownership, KeepInv, NEW k \in Workers, WorkerThread(k)
    PROVE  [Promise!Next]_Promise!vars
PROOF
<1>1. k \in Promise!Workers
    BY DEF Promise!Workers, Workers
<1>2. CASE WorkerStart(k)
    BY <1>1, <1>2, StartsTheSink DEF Promise!Next
<1>3. CASE WorkerEnd(k)
    BY <1>1, <1>3, EndsTheSink DEF Promise!Next
<1>4. CASE Calling(k)
    BY <1>1, <1>4, DeliversTheUnit DEF Promise!Next
<1>5. CASE ~WorkerStart(k) /\ ~WorkerEnd(k) /\ ~Calling(k)
    <2>1. UNCHANGED <<log, sink, main>> /\ (stop' = stop \/ stop' = TRUE)
        BY <1>5 DEF Calling, WorkerThread, WorkerWait, WorkerOpenBarrier, WorkerPassBarrier, WorkerGo, WorkerGet,
               WorkerDrain, WorkerRaises, WorkerReport
    <2> QED BY <2>1, FailsOrStutters DEF Promise!Next
<1> QED BY <1>2, <1>3, <1>4, <1>5

\* No step of a reader is seen, but that it failed.
LEMMA ReaderPromises ==
    ASSUME TypeOK, NEW k \in Workers, ReaderThread(k)
    PROVE  [Promise!Next]_Promise!vars
PROOF
<1>1. UNCHANGED <<log, sink, main>>
    BY ReaderPlaces
<1>2. stop' = stop \/ stop' = TRUE
    BY DEF ReaderThread, ReaderStart, ReaderSlot, ReaderTake, ReaderRead, ReaderDeliver, ReaderFinish, ReaderRaises,
           ReaderReport
<1> QED BY <1>1, <1>2, FailsOrStutters DEF Promise!Next

\* run() returns: every thread has ended and none failed, so nothing was lost.
LEMMA Returns ==
    ASSUME TypeOK, KeepInv, ResultsInv', MainFinish, Failures(ResultsWanted) = {}
    PROVE  Promise!Return
PROOF
<1>1. /\ main = "collect" /\ Len(results) >= 2 * W /\ main' = "returned"
      /\ UNCHANGED <<log, sink, stop, w, r, taken, ready, results>>
    BY DEF MainFinish, ResultsWanted
<1>2. WorkersDone = Workers /\ ReadersDone = Workers
    BY <1>1 DEF ResultsInv, WorkersDone, ReadersDone
<1>3. \A i \in 1 .. Len(results) : results[i].error = "none"
    <2>1. Len(results) = W + W
        BY <1>2, LeftIsFinite DEF KeepInv, ResultsInv
    <2>2. Len(results) = ResultsWanted
        BY <2>1, ConveyorAssumption DEF ResultsWanted
    <2> QED BY <2>2 DEF Failures
<1>4. \A k \in Workers : w[k].error = "none" /\ r[k].error = "none"
    BY <1>2, <1>3 DEF KeepInv, ResultsInv
<1>5. ~stop
    BY <1>1, <1>4 DEF KeepInv, ResultsInv, Abandoned
<1>6. \A k \in Workers : w[k].pc = "done" /\ r[k].pc = "done"
    BY <1>2 DEF WorkersDone, ReadersDone
<1>7. \A k \in Workers : sink[k] = "ended"
    BY <1>4, <1>6 DEF KeepInv, SinkInv
<1>8. \A k \in Workers : \A s, u : ~InBuffer(k, s, u)
    BY <1>5, <1>6 DEF KeepInv, WholeInv, DoneIsLast, InLoop, InBuffer, ReaderFills, WorkerHolds
<1>9. taken > N
    <2>1. 0 \in Workers
        BY ConveyorAssumption DEF Workers
    <2> QED BY <1>5, <1>6, <2>1 DEF KeepInv, WholeInv, LeftAtEnd, Left
<1>10. \A u \in Units : u <= taken
    BY <1>9, ConveyorAssumption DEF Units, TypeOK, RunTypes
<1>11. \A u \in Promise!Units : Promise!Delivered(u)
    BY <1>5, <1>8, <1>10 DEF KeepInv, WholeInv, NoneLost, Promise!Units, Units, Promise!Delivered
<1>12. \A k \in Promise!Workers : sink[k] = "ended"
    BY <1>7 DEF Promise!Workers, Workers
<1>13. stop = FALSE
    BY <1>5 DEF TypeOK, RunTypes
<1> QED BY <1>1, <1>5, <1>11, <1>12 DEF Promise!Return

\* run() raises: something failed, whether in the start or later.
LEMMA Raises ==
    ASSUME TypeOK, KeepInv, MainGiveUp \/ (MainFinish /\ Failures(ResultsWanted) # {})
    PROVE  Promise!Raise
PROOF
<1>1. main \notin {"returned", "raised"} /\ main' = "raised" /\ UNCHANGED <<log, sink, stop>>
    BY DEF MainGiveUp, MainFinish
<1>2. stop
    <2>1. CASE MainGiveUp
        BY <2>1 DEF MainGiveUp, KeepInv, StartInv, Abandoned
    <2>2. CASE MainFinish /\ Failures(ResultsWanted) # {}
        <3>1. PICK i \in 1 .. ResultsWanted : results[i].error # "none"
            BY <2>2 DEF Failures
        <3>2. Len(results) \in Nat /\ Len(results) >= ResultsWanted /\ ResultsWanted \in Nat
            BY <2>2, ResultErrors, ConveyorAssumption DEF MainFinish, TypeOK, ResultsWanted
        <3>3. i \in 1 .. Len(results)
            BY <3>2
        <3> QED BY <3>1, <3>3 DEF KeepInv, ResultsInv
    <2> QED BY <2>1, <2>2
<1> QED BY <1>1, <1>2 DEF Promise!Raise

\* run() returns, raises, stops everyone or is not seen.
LEMMA MainPromises ==
    ASSUME TypeOK, KeepInv, KeepInv', MainThread
    PROVE  [Promise!Next]_Promise!vars
PROOF
<1>1. CASE MainFinish /\ Failures(ResultsWanted) = {}
    BY <1>1, Returns DEF KeepInv, Promise!Next
<1>2. CASE MainGiveUp \/ (MainFinish /\ Failures(ResultsWanted) # {})
    BY <1>2, Raises DEF Promise!Next
<1>3. CASE ~MainFinish /\ ~MainGiveUp
    <2>1. /\ UNCHANGED <<log, sink>> /\ (stop' = stop \/ stop' = TRUE)
          /\ main \in {"arrive", "barrier", "queue"} /\ main' \in {"barrier", "queue", "abandon", "collect"}
        BY <1>3 DEF MainThread, MainWait, MainOpenBarrier, MainPassBarrier, MainAbandon, MainQueue, StartFailed
    <2> QED BY <2>1, FailsOrStutters DEF Promise!Next
<1> QED BY <1>1, <1>2, <1>3

\* Every step of the engine is one of Delivery, or not seen.
LEMMA StepPromises ==
    TypeOK /\ Ownership /\ KeepInv /\ KeepInv' /\ [Next]_vars => [Promise!Next]_Promise!vars
PROOF
<1> SUFFICES ASSUME TypeOK, Ownership, KeepInv, KeepInv', [Next]_vars
             PROVE  [Promise!Next]_Promise!vars
    OBVIOUS
<1>1. CASE UNCHANGED vars
    BY <1>1, FailsOrStutters DEF vars, Promise!Next
<1>2. ASSUME NEW k \in Workers, WorkerThread(k) PROVE [Promise!Next]_Promise!vars
    BY <1>2, WorkerPromises
<1>3. ASSUME NEW k \in Workers, ReaderThread(k) PROVE [Promise!Next]_Promise!vars
    BY <1>3, ReaderPromises
<1>4. CASE MainThread
    BY <1>4, MainPromises
<1> QED BY <1>1, <1>2, <1>3, <1>4 DEF Next, Terminated

\* run() keeps its promise (_engine.py, run): every unit reaches one sink, whole and in frame order; the call
\* returns only when all are delivered and every sink has ended, raises only when something failed, and no
\* sink is called once it is over.
THEOREM RunKeepsItsPromise == Spec => KeepsItsPromise
PROOF
<1>1. Init => KeepInv /\ Promise!Init
    BY KeepInit, InitPromises
<1>2. TypeOK /\ Ownership /\ KeepInv /\ [Next]_vars => KeepInv'
    BY KeepStep
<1>3. TypeOK /\ Ownership /\ KeepInv /\ KeepInv' /\ [Next]_vars => [Promise!Next]_Promise!vars
    BY StepPromises
<1> QED BY <1>1, <1>2, <1>3, TypedAndOwned, PTL DEF Spec, KeepsItsPromise, Promise!Spec
=============================================================================
