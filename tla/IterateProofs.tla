---------------------------- MODULE IterateProofs ----------------------------
(***************************************************************************)
(* Proofs about Iterate, for any number of workers, units, batches and     *)
(* places of the queue: what a loop over the results of a run is given.    *)
(***************************************************************************)
EXTENDS Iterate, FiniteSetTheorems, TLAPS

-----------------------------------------------------------------------------
(* The inductive invariant *)

\* A unit's calls are those of Delivery, all by the worker that began it.
Calls == {Run!Call(k, u, i) : k \in Workers, u \in Units, i \in 1 .. B + 2}
LogInv ==
    /\ log \in [Units -> Seq(Calls)]
    /\ \A u \in Units :
           /\ Len(log[u]) <= B + 2
           /\ \A i \in 1 .. Len(log[u]) : log[u][i] = Run!Call(log[u][1].by, u, i)

\* A worker in write() has the unit open and carries its next batch.
InWrite(k) == wr[k].at \in {"test", "put"}
WriteInv ==
    \A k \in Workers : InWrite(k) =>
        /\ outcome = "running"
        /\ wr[k].item \in Items
        /\ Run!Open(k, wr[k].item.unit)
        /\ wr[k].item.batch = Len(log[wr[k].item.unit])

\* The end mark comes last, and only once the thread of run() is gone.
MarkInv == \A i \in 1 .. Len(q) : q[i] = End => go = "gone" /\ i = Len(q)

\* What the thread of run() has done, and what it left.
GoInv ==
    /\ go = "run" <=> outcome = "running"
    /\ outcome = "returned" => \A u \in Units : Run!Delivered(u)
    /\ IF outcome = "raised" THEN box \in errors ELSE box = "none"

\* Nobody sees a closed loop before it is one, and a loop that ended has emptied the queue.
LoopInv ==
    /\ con \in {"get", "body"} <=> how = "running"
    /\ con \in {"get", "body"} => ~closed
    /\ "closed" \in errors => closed
    /\ how = "ended" => go = "gone" /\ q = <<>> /\ "closed" \notin errors
    /\ con = "over" /\ how = "ended" => box \in {"none"} \cup NamesClosed

IInv ==
    /\ TypeOK /\ LogInv /\ WriteInv /\ MarkInv /\ GoInv /\ LoopInv
    /\ EveryWriteArrivesOnce

-----------------------------------------------------------------------------
(* Lemmas *)

\* The end mark is no item, and its unit is none of the run's.
LEMMA EndIsNoItem ==
    /\ End \notin Items /\ \A e \in Items : e.unit \in Units /\ e.batch \in 1 .. B
    /\ End.unit \notin Units /\ Units \subseteq Nat
  BY DEF End, Items, Units

\* Once more: the next batch of a unit at the end of the items.
LEMMA HoldsNext ==
    ASSUME NEW s \in Seq(Items \cup {End}), NEW e \in Items, NEW u \in Units, NEW n \in Nat,
           Holds(s, u, n), e.unit = u, e.batch = n + 1
    PROVE  Holds(Append(s, e), u, n + 1)
<1> DEFINE a == Append(s, e)
           S == {i \in DOMAIN s : s[i].unit = u}
           T == {i \in DOMAIN a : a[i].unit = u}
<1>1. /\ DOMAIN s = 1 .. Len(s) /\ DOMAIN a = 1 .. Len(s) + 1 /\ Len(s) \in Nat
      /\ \A i \in 1 .. Len(s) : a[i] = s[i]
      /\ a[Len(s) + 1] = e
  OBVIOUS
<1> HIDE DEF a
<1>2. T = S \cup {Len(s) + 1} /\ S \subseteq 1 .. Len(s)
  BY <1>1
<1>3. /\ {s[i].batch : i \in S} = 1 .. n
      /\ \A i, j \in S : i < j => s[i].batch < s[j].batch
  BY DEF Holds
<1> HIDE DEF S, T
<1>4. {a[i].batch : i \in T} = 1 .. n + 1
  <2>1. {a[i].batch : i \in T} = {s[i].batch : i \in S} \cup {e.batch}
    BY <1>1, <1>2
  <2>2. (1 .. n) \cup {n + 1} = 1 .. n + 1
    OBVIOUS
  <2> QED BY <1>3, <2>1, <2>2
<1>5. ASSUME NEW i \in T, NEW j \in T, i < j
      PROVE  a[i].batch < a[j].batch
  <2>1. i \in S /\ a[i] = s[i]
    BY <1>1, <1>2, <1>5
  <2>2. CASE j \in S
    BY <1>1, <1>2, <1>3, <1>5, <2>1, <2>2
  <2>3. CASE j = Len(s) + 1
    <3>1. s[i].batch \in 1 .. n
      BY <1>3, <2>1
    <3> QED BY <1>1, <2>1, <2>3, <3>1
  <2> QED BY <1>2, <2>2, <2>3
<1>6. QED
  BY <1>4, <1>5 DEF Holds, T, a

\* A batch of another unit, or the end mark, at the end of the items changes nothing, nor does taking it away.
LEMMA HoldsOther ==
    ASSUME NEW s \in Seq(Items \cup {End}), NEW e \in Items \cup {End}, NEW u \in Units, NEW n \in Nat,
           e.unit # u
    PROVE  Holds(Append(s, e), u, n) <=> Holds(s, u, n)
<1> DEFINE a == Append(s, e)
           S == {i \in DOMAIN s : s[i].unit = u}
           T == {i \in DOMAIN a : a[i].unit = u}
<1>1. /\ DOMAIN s = 1 .. Len(s) /\ DOMAIN a = 1 .. Len(s) + 1 /\ Len(s) \in Nat
      /\ \A i \in 1 .. Len(s) : a[i] = s[i]
      /\ a[Len(s) + 1] = e
  OBVIOUS
<1> HIDE DEF a
<1>2. T = S /\ \A i \in S : a[i] = s[i]
  BY <1>1
<1> HIDE DEF S, T
<1>3. {a[i].batch : i \in T} = {s[i].batch : i \in S}
  BY <1>2
<1>4. Holds(a, u, n) <=> /\ {a[i].batch : i \in T} = 1 .. n
                         /\ \A i, j \in T : i < j => a[i].batch < a[j].batch
  BY DEF Holds, T
<1>5. Holds(s, u, n) <=> /\ {s[i].batch : i \in S} = 1 .. n
                         /\ \A i, j \in S : i < j => s[i].batch < s[j].batch
  BY DEF Holds, S
<1>6. QED
  BY <1>2, <1>3, <1>4, <1>5 DEF a

\* The writes among the calls of a unit, counted.
LEMMA WritesAmong ==
    ASSUME NEW b \in Nat, b # 0, NEW m \in Nat, m <= b + 2
    PROVE  Cardinality({i \in 1 .. m : i \in 2 .. b + 1})
             = IF m = 0 THEN 0 ELSE IF m = b + 2 THEN b ELSE m - 1
<1>1. CASE m = b + 2
  <2>1. {i \in 1 .. m : i \in 2 .. b + 1} = 2 .. b + 1
    BY <1>1
  <2>2. b + 1 \in Int /\ Cardinality(2 .. b + 1) = IF 2 > b + 1 THEN 0 ELSE (b + 1) - 2 + 1
    BY FS_Interval
  <2>3. Cardinality(2 .. b + 1) = b
    BY <2>2
  <2>4. Cardinality({i \in 1 .. m : i \in 2 .. b + 1}) = b
    BY <2>1, <2>3
  <2> QED BY <1>1, <2>4
<1>2. CASE m # b + 2
  <2>1. m <= b + 1
    BY <1>2
  <2>2. {i \in 1 .. m : i \in 2 .. b + 1} = 2 .. m
    BY <2>1
  <2>3. Cardinality(2 .. m) = IF 2 > m THEN 0 ELSE m - 2 + 1
    BY FS_Interval
  <2>4. Cardinality(2 .. m) = IF m = 0 THEN 0 ELSE m - 1
    BY <2>3
  <2>5. Cardinality({i \in 1 .. m : i \in 2 .. b + 1}) = IF m = 0 THEN 0 ELSE m - 1
    BY <2>2, <2>4
  <2> QED BY <1>2, <2>5
<1>3. QED
  BY <1>1, <1>2

\* The same in the log of a unit: none before the first, all when it is delivered.
LEMMA WritesCounted ==
    ASSUME NEW u, NEW k, NEW l \in Seq(Calls), Len(l) <= B + 2,
           \A i \in 1 .. Len(l) : l[i] = Run!Call(k, u, i)
    PROVE  Cardinality({i \in DOMAIN l : l[i].call = "write"})
             = IF Len(l) = 0 THEN 0 ELSE IF Len(l) = B + 2 THEN B ELSE Len(l) - 1
<1>0. B \in Nat /\ B # 0 /\ Len(l) \in Nat /\ DOMAIN l = 1 .. Len(l) /\ Len(l) <= B + 2
  BY IterateAssumption
<1>1. \A i \in 1 .. Len(l) : l[i].call = "write" <=> i \in 2 .. B + 1
  <2> TAKE i \in 1 .. Len(l)
  <2>1. /\ i = 1 => Run!Call(k, u, i).call = "begin_unit"
        /\ i = B + 2 => Run!Call(k, u, i).call = "end_unit"
        /\ i # 1 /\ i # B + 2 => Run!Call(k, u, i).call = "write"
    BY <1>0 DEF Run!Call
  <2>2. l[i] = Run!Call(k, u, i)
    OBVIOUS
  <2> QED BY <1>0, <2>1, <2>2
<1>2. {i \in DOMAIN l : l[i].call = "write"} = {i \in 1 .. Len(l) : i \in 2 .. B + 1}
  BY <1>0, <1>1
<1>3. Cardinality({i \in 1 .. Len(l) : i \in 2 .. B + 1})
        = IF Len(l) = 0 THEN 0 ELSE IF Len(l) = B + 2 THEN B ELSE Len(l) - 1
  BY <1>0, WritesAmong
<1>4. QED
  BY <1>2, <1>3

\* Delivering one more call of a unit.
LEMMA DeliverAppends ==
    ASSUME NEW k \in Workers, NEW u \in Units, LogInv, Run!Deliver(k, u)
    PROVE  /\ LogInv'
           /\ \A v \in Units \ {u} : log'[v] = log[v]
           /\ Len(log'[u]) = Len(log[u]) + 1 /\ log'[u][1].by = k
           /\ Len(log[u]) < B + 2 /\ (log[u] = <<>> \/ log[u][1].by = k)
<1>0. B \in Nat \ {0}
  BY IterateAssumption
<1> DEFINE l == log[u]
           c == Run!Call(k, u, Len(l) + 1)
<1>1. /\ log' = [log EXCEPT ![u] = Append(l, c)]
      /\ Len(l) # B + 2 /\ (l = <<>> \/ l[1].by = k)
  BY DEF Run!Deliver, Run!Delivered, Run!Open
<1>2. /\ l \in Seq(Calls) /\ Len(l) \in Nat /\ Len(l) < B + 2
      /\ \A i \in 1 .. Len(l) : l[i] = Run!Call(l[1].by, u, i)
  BY <1>0, <1>1 DEF LogInv
<1>3. c \in Calls /\ c.by = k
  <2>1. Len(l) + 1 \in 1 .. B + 2
    BY <1>0, <1>2
  <2>2. c \in Calls
    BY <2>1 DEF Calls
  <2>3. c.by = k
    BY DEF Run!Call
  <2> QED BY <2>2, <2>3
<1>4. log'[u] = Append(l, c) /\ \A v \in Units \ {u} : log'[v] = log[v]
  BY <1>1 DEF LogInv
<1> HIDE DEF c
<1>5. /\ Append(l, c) \in Seq(Calls) /\ Len(Append(l, c)) = Len(l) + 1
      /\ \A i \in 1 .. Len(l) : Append(l, c)[i] = l[i]
      /\ Append(l, c)[Len(l) + 1] = c
  BY <1>2, <1>3
<1>6. Append(l, c)[1].by = k
  <2>1. CASE l = <<>>
    BY <1>3, <1>5, <2>1
  <2>2. CASE l # <<>>
    <3>1. Len(l) # 0
      BY <1>2, <2>2
    <3> QED BY <1>1, <1>2, <1>5, <2>2, <3>1
  <2> QED BY <2>1, <2>2
<1>7. \A i \in 1 .. Len(l) + 1 : Append(l, c)[i] = Run!Call(k, u, i)
  <2> TAKE i \in 1 .. Len(l) + 1
  <2>1. CASE i = Len(l) + 1
    BY <1>5, <2>1 DEF c
  <2>2. CASE i # Len(l) + 1
    <3>1. i \in 1 .. Len(l) /\ l # <<>>
      BY <1>2, <2>2
    <3> QED BY <1>1, <1>2, <1>5, <3>1
  <2> QED BY <2>1, <2>2
<1>8. log' \in [Units -> Seq(Calls)]
  BY <1>1, <1>5 DEF LogInv
<1>9. ASSUME NEW v \in Units
      PROVE  /\ Len(log'[v]) <= B + 2
             /\ \A i \in 1 .. Len(log'[v]) : log'[v][i] = Run!Call(log'[v][1].by, v, i)
  <2>1. CASE v = u
    <3>1. Len(log'[v]) = Len(l) + 1 /\ log'[v][1].by = k
      BY <1>4, <1>5, <1>6, <2>1
    <3>2. \A i \in 1 .. Len(l) + 1 : log'[v][i] = Run!Call(k, v, i)
      BY <1>4, <1>7, <2>1
    <3> QED BY <1>0, <1>2, <3>1, <3>2
  <2>2. CASE v # u
    BY <1>4, <2>2 DEF LogInv
  <2> QED BY <2>1, <2>2
<1>10. LogInv'
  BY <1>8, <1>9 DEF LogInv, Run!Call, Run!Whole
<1>11. QED
  BY <1>1, <1>2, <1>4, <1>5, <1>6, <1>10

\* What is said of the log stays true in a step that leaves it alone.
LEMMA SameLog == LogInv /\ UNCHANGED log => LogInv'
  BY DEF LogInv, Run!Call, Run!Whole
\* The same of the writes.
LEMMA SameWrites == WriteInv /\ UNCHANGED <<outcome, log, wr>> => WriteInv'
  BY DEF WriteInv, InWrite, Run!Open
\* The same of the batches that arrived.
LEMMA SameArrivals == EveryWriteArrivesOnce /\ UNCHANGED <<log, q, got>> => EveryWriteArrivesOnce'
<1> SUFFICES ASSUME EveryWriteArrivesOnce, UNCHANGED <<log, q, got>>, NEW u \in Units
             PROVE  Holds(got \o q, u, Written(u))'
  BY DEF EveryWriteArrivesOnce
<1>1. Written(u)' = Written(u) /\ got' \o q' = got \o q
  BY DEF Written
<1>2. QED
  BY <1>1 DEF EveryWriteArrivesOnce, Holds

\* What the generator and the queue hold after a step, given as one sequence.
LEMMA HoldAfter ==
    ASSUME NEW u \in Units, NEW s, NEW n, got' \o q' = s, Written(u)' = n, Holds(s, u, n)
    PROVE  Holds(got \o q, u, Written(u))'
  BY Zenon DEF Holds

\* How many writes of a unit have returned, from the length of its log.
LEMMA WrittenIs ==
    ASSUME LogInv, NEW u \in Units
    PROVE  Written(u) = IF Len(log[u]) = 0 THEN 0 ELSE IF Len(log[u]) = B + 2 THEN B ELSE Len(log[u]) - 1
<1> DEFINE l == log[u]
           k == l[1].by
<1>1. /\ l \in Seq(Calls) /\ Len(l) <= B + 2
      /\ \A i \in 1 .. Len(l) : l[i] = Run!Call(k, u, i)
  BY DEF LogInv
<1> HIDE DEF l, k
<1>2. Cardinality({i \in DOMAIN l : l[i].call = "write"})
        = IF Len(l) = 0 THEN 0 ELSE IF Len(l) = B + 2 THEN B ELSE Len(l) - 1
  BY <1>1, WritesCounted
<1>3. QED
  BY <1>2 DEF Written, l
\* The same after a step.
LEMMA WrittenIsNext ==
    ASSUME LogInv', NEW u \in Units
    PROVE  Written(u)' = IF Len(log'[u]) = 0 THEN 0
                         ELSE IF Len(log'[u]) = B + 2 THEN B ELSE Len(log'[u]) - 1
<1> DEFINE l == log'[u]
           k == l[1].by
<1>1. /\ l \in Seq(Calls) /\ Len(l) <= B + 2
      /\ \A i \in 1 .. Len(l) : l[i] = Run!Call(k, u, i)
  BY DEF LogInv, Run!Call, Run!Whole
<1> HIDE DEF l, k
<1>2. Cardinality({i \in DOMAIN l : l[i].call = "write"})
        = IF Len(l) = 0 THEN 0 ELSE IF Len(l) = B + 2 THEN B ELSE Len(l) - 1
  BY <1>1, WritesCounted
<1>3. QED
  BY <1>2 DEF Written, l

\* A call about one unit does not concern the worker that is writing another.
LEMMA OthersKeepTheirUnit ==
    ASSUME LogInv, WriteInv, NEW k \in Workers, NEW u \in Units, Run!Deliver(k, u),
           NEW j \in Workers \ {k}, InWrite(j)
    PROVE  wr[j].item.unit # u /\ log'[wr[j].item.unit] = log[wr[j].item.unit]
<1>1. wr[j].item.unit \in Units
  BY EndIsNoItem DEF WriteInv
<1>2. Len(log[wr[j].item.unit]) \in 1 .. B + 1 /\ log[wr[j].item.unit][1].by = j
  BY DEF WriteInv, Run!Open
<1>3. log[u] = <<>> \/ log[u][1].by = k
  BY DeliverAppends
<1>4. wr[j].item.unit # u
  BY <1>2, <1>3
<1>5. QED
  BY <1>1, <1>4, DeliverAppends

-----------------------------------------------------------------------------
(* The steps of the run *)

\* A worker that starts or ends.
LEMMA KeepsStart == IInv /\ (\E k \in Workers : BeginSink(k) \/ EndSink(k)) => IInv'
<1> SUFFICES ASSUME IInv, NEW k \in Workers, BeginSink(k) \/ EndSink(k) PROVE IInv'
  OBVIOUS
<1>1. /\ UNCHANGED <<log, failed, outcome, wr, errors, q, closed, go, box, con, how, got>>
      /\ \E s \in {"begun", "ended"} : sink' = [sink EXCEPT ![k] = s]
  BY DEF BeginSink, EndSink, Run!BeginSink, Run!EndSink, loop
<1>2. TypeOK'
  BY <1>1 DEF IInv, TypeOK
<1>3. MarkInv' /\ GoInv' /\ LoopInv'
  BY <1>1 DEF IInv, MarkInv, GoInv, LoopInv, Run!Delivered
<1>4. QED
  BY <1>1, <1>2, <1>3, SameLog, SameWrites, SameArrivals DEF IInv

\* The begin and the end of a unit: no write of it is counted more.
LEMMA KeepsUnitCall == ASSUME IInv, NEW k \in Workers, NEW u \in Units, UnitCall(k, u) PROVE IInv'
<1>0. B \in Nat /\ B # 0
  BY IterateAssumption
<1>1. /\ UNCHANGED <<sink, failed, outcome, wr, errors, q, closed, go, box, con, how, got>>
      /\ Run!Deliver(k, u) /\ outcome = "running" /\ Len(log[u]) \in {0, B + 1}
      /\ ~InWrite(k)
  BY DEF UnitCall, Run!Deliver, loop, NoWriteBy, Idle, InWrite
<1>2. /\ LogInv' /\ \A v \in Units \ {u} : log'[v] = log[v]
      /\ Len(log'[u]) = Len(log[u]) + 1
  BY <1>1, DeliverAppends DEF IInv
<1>3. TypeOK'
  BY <1>1, <1>2 DEF IInv, TypeOK, LogInv
<1>4. WriteInv'
  <2> SUFFICES ASSUME NEW j \in Workers, InWrite(j)'
               PROVE  /\ outcome' = "running" /\ wr'[j].item \in Items
                      /\ Run!Open(j, wr[j].item.unit)' /\ wr'[j].item.batch = Len(log'[wr'[j].item.unit])
    BY DEF WriteInv
  <2>1. InWrite(j) /\ j # k
    BY <1>1 DEF InWrite
  <2>2. log'[wr[j].item.unit] = log[wr[j].item.unit]
    BY <1>1, <2>1, OthersKeepTheirUnit DEF IInv
  <2>3. QED
    BY <1>1, <2>1, <2>2 DEF IInv, WriteInv, Run!Open
<1>5. MarkInv' /\ GoInv' /\ LoopInv'
  BY <1>1 DEF IInv, MarkInv, GoInv, LoopInv
<1>6. EveryWriteArrivesOnce'
  <2>1. \A v \in Units : Written(v)' = Written(v)
    <3> TAKE v \in Units
    <3>1. CASE v = u
      BY <1>0, <1>1, <1>2, <3>1, WrittenIs, WrittenIsNext DEF IInv
    <3>2. CASE v # u
      BY <1>2, <3>2, WrittenIs, WrittenIsNext DEF IInv
    <3> QED BY <3>1, <3>2
  <2> SUFFICES ASSUME NEW v \in Units PROVE Holds(got \o q, v, Written(v))'
    BY DEF EveryWriteArrivesOnce
  <2>2. got' \o q' = got \o q /\ Holds(got \o q, v, Written(v))
    BY <1>1 DEF IInv, EveryWriteArrivesOnce
  <2>3. QED
    BY <2>1, <2>2, HoldAfter
<1>7. QED
  BY <1>2, <1>3, <1>4, <1>5, <1>6 DEF IInv

\* The next batch of the unit a worker has open.
LEMMA KeepsWrite == ASSUME IInv, NEW k \in Workers, NEW u \in Units, Write(k, u) PROVE IInv'
<1> DEFINE e == [unit |-> u, batch |-> Len(log[u])]
<1>1. /\ UNCHANGED <<log, sink, failed, outcome, errors, q, closed, go, box, con, how, got>>
      /\ outcome = "running" /\ Run!Open(k, u) /\ Len(log[u]) \in 1 .. B
      /\ wr' = [wr EXCEPT ![k] = [at |-> "test", item |-> e]]
  BY DEF Write, loop, run
<1>2. e \in Items /\ e.unit = u /\ e.batch = Len(log[u])
  BY <1>1 DEF Items
<1> HIDE DEF e
<1>3. TypeOK'
  <2>1. wr' \in [Workers -> [at : {"idle", "test", "put", "raised"}, item : Items \cup {End}]]
    BY <1>1, <1>2 DEF IInv, TypeOK
  <2>2. QED
    BY <1>1, <2>1 DEF IInv, TypeOK
<1>4. WriteInv'
  <2> SUFFICES ASSUME NEW j \in Workers, InWrite(j)'
               PROVE  /\ outcome' = "running" /\ wr'[j].item \in Items
                      /\ Run!Open(j, wr[j].item.unit)' /\ wr'[j].item.batch = Len(log'[wr'[j].item.unit])
    BY DEF WriteInv
  <2>1. CASE j = k
    <3>1. wr'[j].item = e
      BY <1>1, <2>1 DEF IInv, TypeOK
    <3> QED BY <1>1, <1>2, <2>1, <3>1 DEF Run!Open
  <2>2. CASE j # k
    <3>1. wr'[j] = wr[j] /\ InWrite(j)
      BY <1>1, <2>2 DEF IInv, TypeOK, InWrite
    <3> QED BY <1>1, <3>1 DEF IInv, WriteInv, Run!Open
  <2> QED BY <2>1, <2>2
<1>5. MarkInv' /\ GoInv' /\ LoopInv'
  BY <1>1 DEF IInv, MarkInv, GoInv, LoopInv, Run!Delivered
<1>6. QED
  BY <1>1, <1>3, <1>4, <1>5, SameLog, SameArrivals DEF IInv

\* The look at the event, and a put that found no room: the batch is the same.
LEMMA KeepsTest == ASSUME IInv, NEW k \in Workers, WriteTest(k) \/ WriteFull(k) PROVE IInv'
<1>1. /\ UNCHANGED <<log, sink, failed, outcome, errors, q, closed, go, box, con, how, got>>
      /\ InWrite(k)
      /\ \E a \in {"test", "put"} : wr' = [wr EXCEPT ![k].at = a]
  BY DEF WriteTest, WriteFull, loop, run, InWrite
<1>2. /\ wr' \in [Workers -> [at : {"idle", "test", "put", "raised"}, item : Items \cup {End}]]
      /\ \A j \in Workers : wr'[j].item = wr[j].item /\ (InWrite(j)' <=> InWrite(j))
  BY <1>1 DEF IInv, TypeOK, InWrite
<1>3. TypeOK'
  BY <1>1, <1>2 DEF IInv, TypeOK
<1>4. WriteInv'
  BY <1>1, <1>2 DEF IInv, WriteInv, Run!Open
<1>5. MarkInv' /\ GoInv' /\ LoopInv'
  BY <1>1 DEF IInv, MarkInv, GoInv, LoopInv, Run!Delivered
<1>6. QED
  BY <1>1, <1>3, <1>4, <1>5, SameLog, SameArrivals DEF IInv

\* The error of a worker whose consumer is gone: the loop was left.
LEMMA KeepsWriteClosed == ASSUME IInv, NEW k \in Workers, WriteClosed(k) PROVE IInv'
<1>1. /\ UNCHANGED <<log, sink, outcome, q, closed, go, box, con, how, got>>
      /\ wr' = [wr EXCEPT ![k] = [at |-> "raised", item |-> End]]
      /\ errors' = errors \cup {"closed"} /\ failed' = TRUE
      /\ InWrite(k) /\ closed
  BY DEF WriteClosed, loop, InWrite
<1>2. outcome = "running" /\ go = "run"
  BY <1>1 DEF IInv, WriteInv, GoInv
<1>3. /\ wr' \in [Workers -> [at : {"idle", "test", "put", "raised"}, item : Items \cup {End}]]
      /\ ~InWrite(k)' /\ \A j \in Workers \ {k} : wr'[j] = wr[j]
  BY <1>1 DEF IInv, TypeOK, InWrite
<1>4. TypeOK'
  BY <1>1, <1>3 DEF IInv, TypeOK
<1>5. WriteInv'
  BY <1>1, <1>3 DEF IInv, WriteInv, Run!Open, InWrite
<1>6. MarkInv' /\ GoInv' /\ LoopInv'
  BY <1>1, <1>2 DEF IInv, MarkInv, GoInv, LoopInv, Run!Delivered
<1>7. QED
  BY <1>1, <1>4, <1>5, <1>6, SameLog, SameArrivals DEF IInv

\* Any other error of the run.
LEMMA KeepsRunFails == IInv /\ RunFails => IInv'
<1> SUFFICES ASSUME IInv, RunFails PROVE IInv'
  OBVIOUS
<1>1. /\ UNCHANGED <<log, sink, outcome, wr, q, closed, go, box, con, how, got>>
      /\ failed' = TRUE /\ outcome = "running"
      /\ \E e \in {"other", "naming"} : errors' = errors \cup {e}
  BY DEF RunFails, loop
<1>2. TypeOK'
  BY <1>1 DEF IInv, TypeOK
<1>3. MarkInv' /\ GoInv' /\ LoopInv'
  BY <1>1 DEF IInv, MarkInv, GoInv, LoopInv, Run!Delivered
<1>4. QED
  BY <1>1, <1>2, <1>3, SameLog, SameWrites, SameArrivals DEF IInv

\* Sequences: one more at the end of the second, and the first of the second to the end of the first.
LEMMA OneMore ==
    ASSUME NEW S, NEW s \in Seq(S), NEW r \in Seq(S), NEW e \in S
    PROVE  s \o Append(r, e) = Append(s \o r, e) /\ s \o r \in Seq(S)
  OBVIOUS
\* The same when an element moves over.
LEMMA OneMoves ==
    ASSUME NEW S, NEW s \in Seq(S), NEW r \in Seq(S), r # <<>>
    PROVE  /\ Append(s, Head(r)) \o Tail(r) = s \o r
           /\ Head(r) = r[1] /\ r[1] \in S /\ Len(r) \in Nat /\ Len(r) > 0
           /\ Tail(r) \in Seq(S) /\ Len(Tail(r)) = Len(r) - 1
           /\ \A i \in 1 .. Len(Tail(r)) : Tail(r)[i] = r[i + 1]
  OBVIOUS

\* A put that succeeds: the batch is in the queue, and its write is counted.
LEMMA KeepsWritePut == ASSUME IInv, NEW k \in Workers, WritePut(k) PROVE IInv'
<1>0. B \in Nat /\ B # 0 /\ Depth * W \in Int
  BY IterateAssumption
<1> DEFINE e == wr[k].item
           u == e.unit
           b == Len(log[u])
<1>1. /\ UNCHANGED <<sink, failed, outcome, errors, closed, go, box, con, how, got>>
      /\ InWrite(k) /\ Len(q) < Depth * W /\ q' = Append(q, e)
      /\ Run!Deliver(k, u) /\ wr' = [wr EXCEPT ![k] = Idle]
  BY DEF WritePut, Run!Deliver, loop, InWrite, HasRoom
<1>2. /\ outcome = "running" /\ go = "run" /\ e \in Items /\ u \in Units /\ e.batch = b /\ b \in 1 .. B
  BY <1>1, EndIsNoItem DEF IInv, WriteInv, GoInv
<1>3. /\ LogInv' /\ \A v \in Units \ {u} : log'[v] = log[v]
      /\ Len(log'[u]) = b + 1
  BY <1>1, <1>2, DeliverAppends DEF IInv
<1>4. /\ wr' \in [Workers -> [at : {"idle", "test", "put", "raised"}, item : Items \cup {End}]]
      /\ ~InWrite(k)' /\ \A j \in Workers \ {k} : wr'[j] = wr[j]
  BY <1>1 DEF IInv, TypeOK, InWrite, Idle
<1>5. /\ got \in Seq(Items \cup {End}) /\ q \in Seq(Items \cup {End}) /\ Len(q) \in Nat
  <2>1. got \in Seq(Items) /\ q \in Seq(Items \cup {End})
    BY DEF IInv, TypeOK
  <2> QED BY <2>1
<1> HIDE DEF e
<1>6. TypeOK'
  <2>1. q' \in Seq(Items \cup {End}) /\ Len(q') = Len(q) + 1
    BY <1>1, <1>2, <1>5
  <2>2. Len(q') <= Depth * W
    BY <1>0, <1>1, <1>5, <2>1
  <2>3. QED
    BY <1>1, <1>3, <1>4, <2>1, <2>2 DEF IInv, TypeOK, LogInv
<1>7. WriteInv'
  <2> SUFFICES ASSUME NEW j \in Workers, InWrite(j)'
               PROVE  /\ outcome' = "running" /\ wr'[j].item \in Items
                      /\ Run!Open(j, wr[j].item.unit)' /\ wr'[j].item.batch = Len(log'[wr'[j].item.unit])
    BY DEF WriteInv
  <2>1. j # k /\ wr'[j] = wr[j] /\ InWrite(j)
    BY <1>4 DEF InWrite
  <2>2. log'[wr[j].item.unit] = log[wr[j].item.unit]
    BY <1>1, <1>2, <2>1, OthersKeepTheirUnit DEF IInv
  <2>3. QED
    BY <1>1, <2>1, <2>2 DEF IInv, WriteInv, Run!Open
<1>8. MarkInv'
  <2>1. \A i \in 1 .. Len(q) : q[i] # End
    BY <1>2 DEF IInv, MarkInv
  <2>2. \A i \in 1 .. Len(q') : q'[i] # End
    BY <1>1, <1>2, <1>5, <2>1, EndIsNoItem
  <2>3. QED
    BY <2>2 DEF MarkInv
<1>9. GoInv' /\ LoopInv'
  BY <1>1, <1>2 DEF IInv, GoInv, LoopInv
<1>10. EveryWriteArrivesOnce'
  <2> SUFFICES ASSUME NEW v \in Units PROVE Holds(got \o q, v, Written(v))'
    BY DEF EveryWriteArrivesOnce
  <2>1. got' \o q' = Append(got \o q, e) /\ got \o q \in Seq(Items \cup {End})
    BY <1>1, <1>2, <1>5, OneMore
  <2>2. Holds(got \o q, v, Written(v))
    BY DEF IInv, EveryWriteArrivesOnce
  <2>3. Written(v) \in Nat
    <3>1. Len(log[v]) \in Nat
      BY DEF IInv, LogInv
    <3> QED BY <1>0, <3>1, WrittenIs DEF IInv
  <2>4. CASE v = u
    <3>1. Written(v) = b - 1 /\ Written(v)' = b
      BY <1>0, <1>2, <1>3, <2>4, WrittenIs, WrittenIsNext DEF IInv
    <3> DEFINE s == got \o q
               n == b - 1
    <3>2. s \in Seq(Items \cup {End}) /\ n \in Nat /\ Holds(s, v, n) /\ e.unit = v /\ e.batch = n + 1
      BY <1>2, <2>1, <2>2, <2>3, <2>4, <3>1
    <3> HIDE DEF s, n
    <3>3. Holds(Append(s, e), v, n + 1)
      BY <1>2, <3>2, HoldsNext
    <3> USE DEF s, n
    <3>4. (b - 1) + 1 = b
      BY <1>2
    <3>5. QED
      BY <2>1, <3>1, <3>3, <3>4, HoldAfter
  <2>5. CASE v # u
    <3>1. Written(v)' = Written(v)
      BY <1>3, <2>5, WrittenIs, WrittenIsNext DEF IInv
    <3>2. Holds(Append(got \o q, e), v, Written(v))
      BY <1>2, <2>1, <2>2, <2>3, <2>5, HoldsOther
    <3>3. QED
      BY <2>1, <3>1, <3>2, HoldAfter
  <2> QED BY <2>4, <2>5
<1>11. QED
  BY <1>3, <1>6, <1>7, <1>8, <1>9, <1>10 DEF IInv

-----------------------------------------------------------------------------
(* The steps of the thread of run() and of the generator *)

\* Once every worker is out none is in a write, so the run may change what it did.
LEMMA NobodyWrites == AllOut => \A k \in Workers : ~InWrite(k)
  BY DEF AllOut, InWrite

\* The end of run(): what it returned or raised.
LEMMA KeepsGoEnds == IInv /\ (GoReturns \/ GoRaises) => IInv'
<1> SUFFICES ASSUME IInv, GoReturns \/ GoRaises PROVE IInv'
  OBVIOUS
<1>1. /\ UNCHANGED <<log, sink, failed, wr, errors, q, closed, con, how, got>>
      /\ AllOut /\ outcome = "running" /\ go' = "mark"
      /\ \/ outcome' = "returned" /\ box' = box /\ \A u \in Units : Run!Delivered(u)
         \/ outcome' = "raised" /\ box' \in errors
  BY DEF GoReturns, GoRaises, Run!Return, Run!Raise, loop, Units, Run!Units, Run!Delivered
<1>2. go = "run"
  BY <1>1 DEF IInv, GoInv
<1>3. TypeOK'
  BY <1>1 DEF IInv, TypeOK
<1>4. WriteInv'
  BY <1>1, NobodyWrites DEF WriteInv, InWrite
<1>5. MarkInv' /\ LoopInv'
  BY <1>1, <1>2 DEF IInv, MarkInv, LoopInv
<1>6. GoInv'
  BY <1>1 DEF IInv, GoInv, Run!Delivered
<1>7. QED
  BY <1>1, <1>3, <1>4, <1>5, <1>6, SameLog, SameArrivals DEF IInv

\* The end mark, or its absence when nobody will read it.
LEMMA KeepsGoMark == IInv /\ GoMark => IInv'
<1> SUFFICES ASSUME IInv, GoMark PROVE IInv'
  OBVIOUS
<1>0. Depth * W \in Int
  BY IterateAssumption
<1>1. /\ UNCHANGED <<log, sink, failed, outcome, wr, errors, closed, box, con, how, got>>
      /\ go = "mark" /\ go' = "gone" /\ Len(q) < Depth * W /\ q' = Append(q, End)
  BY DEF GoMark, run, loop, HasRoom
<1>2. got \in Seq(Items \cup {End}) /\ q \in Seq(Items \cup {End}) /\ Len(q) \in Nat
  <2>1. got \in Seq(Items) /\ q \in Seq(Items \cup {End})
    BY DEF IInv, TypeOK
  <2> QED BY <2>1
<1>3. TypeOK'
  <2>1. q' \in Seq(Items \cup {End}) /\ Len(q') = Len(q) + 1
    BY <1>1, <1>2
  <2>2. Len(q') <= Depth * W
    BY <1>0, <1>1, <1>2, <2>1
  <2>3. QED
    BY <1>1, <2>1, <2>2 DEF IInv, TypeOK
<1>4. MarkInv'
  <2>1. \A i \in 1 .. Len(q) : q[i] # End
    BY <1>1 DEF IInv, MarkInv
  <2>2. \A i \in 1 .. Len(q') : q'[i] = End => i = Len(q')
    BY <1>1, <1>2, <2>1
  <2>3. QED
    BY <1>1, <2>2 DEF MarkInv
<1>5. GoInv' /\ LoopInv'
  BY <1>1 DEF IInv, GoInv, LoopInv, Run!Delivered
<1>6. EveryWriteArrivesOnce'
  <2> SUFFICES ASSUME NEW v \in Units PROVE Holds(got \o q, v, Written(v))'
    BY DEF EveryWriteArrivesOnce
  <2>1. got' \o q' = Append(got \o q, End) /\ got \o q \in Seq(Items \cup {End})
    BY <1>1, <1>2, OneMore
  <2>2. Holds(got \o q, v, Written(v)) /\ Written(v)' = Written(v)
    BY <1>1 DEF IInv, EveryWriteArrivesOnce, Written
  <2>3. Written(v) \in Nat
    <3>1. Len(log[v]) \in Nat /\ B \in Nat /\ B # 0
      BY IterateAssumption DEF IInv, LogInv
    <3> QED BY <3>1, WrittenIs DEF IInv
  <2>4. Holds(Append(got \o q, End), v, Written(v))
    BY <2>1, <2>2, <2>3, HoldsOther, EndIsNoItem
  <2>5. QED
    BY <2>1, <2>2, <2>4, HoldAfter
<1>7. QED
  BY <1>1, <1>3, <1>4, <1>5, <1>6, SameLog, SameWrites DEF IInv

\* No end mark, for a loop that was left.
LEMMA KeepsGoLeaves == IInv /\ GoLeaves => IInv'
<1> SUFFICES ASSUME IInv, GoLeaves PROVE IInv'
  OBVIOUS
<1>1. /\ UNCHANGED <<log, sink, failed, outcome, wr, errors, q, closed, box, con, how, got>>
      /\ go = "mark" /\ go' = "gone"
  BY DEF GoLeaves, run, loop
<1>2. TypeOK'
  BY <1>1 DEF IInv, TypeOK
<1>3. MarkInv' /\ GoInv' /\ LoopInv'
  BY <1>1 DEF IInv, MarkInv, GoInv, LoopInv, Run!Delivered
<1>4. QED
  BY <1>1, <1>2, <1>3, SameLog, SameWrites, SameArrivals DEF IInv

\* A batch taken off the queue and yielded.
LEMMA KeepsGet == IInv /\ Get => IInv'
<1> SUFFICES ASSUME IInv, Get PROVE IInv'
  OBVIOUS
<1>0. Depth * W \in Int
  BY IterateAssumption
<1>1. /\ UNCHANGED <<log, sink, failed, outcome, wr, errors, closed, go, box, how>>
      /\ con = "get" /\ con' = "body" /\ q # <<>> /\ Head(q) # End
      /\ q' = Tail(q) /\ got' = Append(got, Head(q))
  BY DEF Get, run
<1>2. got \in Seq(Items) /\ got \in Seq(Items \cup {End}) /\ q \in Seq(Items \cup {End})
  <2>1. got \in Seq(Items) /\ q \in Seq(Items \cup {End})
    BY DEF IInv, TypeOK
  <2> QED BY <2>1
<1>3. /\ got' \o q' = got \o q
      /\ Head(q) = q[1] /\ q[1] \in Items \cup {End} /\ Len(q) \in Nat /\ Len(q) > 0
      /\ q' \in Seq(Items \cup {End}) /\ Len(q') = Len(q) - 1
      /\ \A i \in 1 .. Len(q') : q'[i] = q[i + 1]
  BY <1>1, <1>2, OneMoves
<1>4. TypeOK'
  <2>1. got' \in Seq(Items)
    <3>1. Head(q) \in Items
      BY <1>1, <1>3
    <3> QED BY <1>1, <1>2, <3>1
  <2>2. Len(q) <= Depth * W
    BY DEF IInv, TypeOK
  <2>3. Len(q') <= Depth * W
    BY <1>0, <1>3, <2>2
  <2>4. QED
    BY <1>1, <1>3, <2>1, <2>3 DEF IInv, TypeOK
<1>5. MarkInv'
  <2> SUFFICES ASSUME NEW i \in 1 .. Len(q'), q'[i] = End PROVE go = "gone" /\ i = Len(q')
    BY <1>1 DEF MarkInv
  <2>1. i + 1 \in 1 .. Len(q) /\ q[i + 1] = End
    BY <1>3
  <2>2. go = "gone" /\ i + 1 = Len(q)
    BY <2>1 DEF IInv, MarkInv
  <2>3. QED
    BY <1>3, <2>2
<1>6. GoInv' /\ LoopInv'
  BY <1>1 DEF IInv, GoInv, LoopInv, Run!Delivered
<1>7. EveryWriteArrivesOnce'
  <2> SUFFICES ASSUME NEW v \in Units PROVE Holds(got \o q, v, Written(v))'
    BY DEF EveryWriteArrivesOnce
  <2>1. Holds(got \o q, v, Written(v)) /\ Written(v)' = Written(v)
    BY <1>1 DEF IInv, EveryWriteArrivesOnce, Written
  <2>2. QED
    BY <1>3, <2>1, HoldAfter
<1>8. QED
  BY <1>1, <1>4, <1>5, <1>6, <1>7, SameLog, SameWrites DEF IInv

\* The end mark taken off the queue: it was the last.
LEMMA KeepsGetEnd == IInv /\ GetEnd => IInv'
<1> SUFFICES ASSUME IInv, GetEnd PROVE IInv'
  OBVIOUS
<1>0. Depth * W \in Nat
  BY IterateAssumption
<1>1. /\ UNCHANGED <<log, sink, failed, outcome, wr, errors, go, box, got>>
      /\ con = "get" /\ con' = "join" /\ q # <<>> /\ Head(q) = End
      /\ q' = Tail(q) /\ closed' = TRUE /\ how' = "ended"
  BY DEF GetEnd, run
<1>2. got \in Seq(Items) /\ got \in Seq(Items \cup {End}) /\ q \in Seq(Items \cup {End})
  <2>1. got \in Seq(Items) /\ q \in Seq(Items \cup {End})
    BY DEF IInv, TypeOK
  <2> QED BY <2>1
<1>3. /\ Head(q) = q[1] /\ Len(q) \in Nat /\ Len(q) > 0
      /\ q' \in Seq(Items \cup {End}) /\ Len(q') = Len(q) - 1
  BY <1>1, <1>2, OneMoves
<1>4. go = "gone" /\ Len(q) = 1
  <2>1. 1 \in 1 .. Len(q) /\ q[1] = End
    BY <1>1, <1>3
  <2>2. QED
    BY <2>1 DEF IInv, MarkInv
<1>5. q' = <<>> /\ Len(q') = 0 /\ q = <<End>>
  <2>1. Len(q') = 0
    BY <1>3, <1>4
  <2>2. q' = <<>>
    BY <1>3, <2>1
  <2>3. q = <<End>>
    BY <1>1, <1>2, <1>3, <1>4
  <2> QED BY <2>1, <2>2, <2>3
<1>6. TypeOK'
  BY <1>0, <1>1, <1>3, <1>5 DEF IInv, TypeOK
<1>7. MarkInv' /\ GoInv'
  BY <1>1, <1>5 DEF IInv, MarkInv, GoInv, Run!Delivered
<1>8. LoopInv'
  <2>1. ~closed /\ "closed" \notin errors
    BY <1>1 DEF IInv, LoopInv
  <2>2. QED
    BY <1>1, <1>4, <1>5, <2>1 DEF IInv, LoopInv
<1>9. EveryWriteArrivesOnce'
  <2> SUFFICES ASSUME NEW v \in Units PROVE Holds(got \o q, v, Written(v))'
    BY DEF EveryWriteArrivesOnce
  <2>1. got \o q = Append(got, End) /\ got' \o q' = got
    BY <1>1, <1>2, <1>5
  <2>2. Holds(got \o q, v, Written(v)) /\ Written(v)' = Written(v)
    BY <1>1 DEF IInv, EveryWriteArrivesOnce, Written
  <2>3. Written(v) \in Nat
    <3>1. Len(log[v]) \in Nat /\ B \in Nat /\ B # 0
      BY IterateAssumption DEF IInv, LogInv
    <3> QED BY <3>1, WrittenIs DEF IInv
  <2>4. Holds(got, v, Written(v))
    <3> DEFINE n == Written(v)
    <3>1. n \in Nat /\ Holds(Append(got, End), v, n) /\ End \in Items \cup {End} /\ End.unit # v
      BY <2>1, <2>2, <2>3, EndIsNoItem
    <3> HIDE DEF n
    <3>2. Holds(got, v, n)
      BY <1>2, <3>1, HoldsOther
    <3> QED BY <3>2 DEF n
  <2>5. QED
    BY <2>1, <2>2, <2>4, HoldAfter
<1>10. QED
  BY <1>1, <1>6, <1>7, <1>8, <1>9, SameLog, SameWrites DEF IInv

\* The body of the loop, its end by the reader, and the join.
LEMMA KeepsLoop == IInv /\ (NextBatch \/ Leave \/ Join) => IInv'
<1> SUFFICES ASSUME IInv, NextBatch \/ Leave \/ Join PROVE IInv'
  OBVIOUS
<1>1. UNCHANGED <<log, sink, failed, outcome, wr, errors, q, go, box, got>>
  BY DEF NextBatch, Leave, Join, run
<1>2. MarkInv' /\ GoInv'
  BY <1>1 DEF IInv, MarkInv, GoInv, Run!Delivered
<1>3. ASSUME NextBatch PROVE TypeOK' /\ LoopInv'
  BY <1>1, <1>3 DEF IInv, TypeOK, LoopInv, NextBatch
<1>4. ASSUME Leave PROVE TypeOK' /\ LoopInv'
  BY <1>1, <1>4 DEF IInv, TypeOK, LoopInv, Leave
<1>5. ASSUME Join PROVE TypeOK' /\ LoopInv'
  <2>1. con = "join" /\ con' = "over" /\ closed' = closed /\ how' = Ending
    BY <1>5 DEF Join
  <2>2. how' \in {"ended", "left", "raised"} /\ (how' = "ended" => how = "ended" /\ box \in {"none"} \cup NamesClosed)
    BY <2>1 DEF IInv, TypeOK, LoopInv, Ending
  <2>3. TypeOK'
    BY <1>1, <2>1, <2>2 DEF IInv, TypeOK
  <2>4. LoopInv'
    BY <1>1, <2>1, <2>2 DEF IInv, LoopInv
  <2> QED BY <2>3, <2>4
<1>6. TypeOK' /\ LoopInv'
  BY <1>3, <1>4, <1>5
<1>7. QED
  BY <1>1, <1>2, <1>6, SameLog, SameWrites, SameArrivals DEF IInv

-----------------------------------------------------------------------------
(* The theorems *)

\* The invariant in the initial states: nothing is written, queued or yielded.
LEMMA InitKeeps == Init => IInv
<1> SUFFICES ASSUME Init PROVE IInv
  OBVIOUS
<1>0. B \in Nat /\ B # 0 /\ Depth * W \in Nat
  BY IterateAssumption
<1>1. /\ log = [u \in Units |-> <<>>] /\ sink = [k \in Workers |-> "new"]
      /\ failed = FALSE /\ outcome = "running" /\ wr = [k \in Workers |-> Idle]
      /\ errors = {} /\ q = <<>> /\ closed = FALSE /\ go = "run" /\ box = "none"
      /\ con = "get" /\ how = "running" /\ got = <<>>
  BY DEF Init, Run!Init, Units, Run!Units, Workers, Run!Workers
<1>2. TypeOK
  <2>1. wr \in [Workers -> [at : {"idle", "test", "put", "raised"}, item : Items \cup {End}]]
    BY <1>1 DEF Idle
  <2>2. q \in Seq(Items \cup {End}) /\ Len(q) <= Depth * W /\ got \in Seq(Items)
    BY <1>0, <1>1
  <2>3. QED
    BY <1>1, <2>1, <2>2 DEF TypeOK
<1>3. LogInv
  BY <1>0, <1>1 DEF LogInv
<1>4. WriteInv /\ MarkInv /\ GoInv /\ LoopInv
  BY <1>1 DEF WriteInv, InWrite, Idle, MarkInv, GoInv, LoopInv
<1>5. EveryWriteArrivesOnce
  <2> SUFFICES ASSUME NEW u \in Units PROVE Holds(got \o q, u, Written(u))
    BY DEF EveryWriteArrivesOnce
  <2>1. Written(u) = 0
    BY <1>1, <1>3, WrittenIs
  <2>2. got \o q = <<>>
    BY <1>1
  <2>3. {i \in DOMAIN (got \o q) : (got \o q)[i].unit = u} = {} /\ 1 .. 0 = {}
    BY <2>2
  <2>4. QED
    BY <2>1, <2>3 DEF Holds
<1>6. QED
  BY <1>2, <1>3, <1>4, <1>5 DEF IInv

\* The invariant, by the actions.
LEMMA NextKeeps == IInv /\ [Next]_vars => IInv'
<1> SUFFICES ASSUME IInv, [Next]_vars PROVE IInv'
  OBVIOUS
<1>1. ASSUME NEW k \in Workers, Worker(k) PROVE IInv'
  BY <1>1, KeepsStart, KeepsUnitCall, KeepsWrite, KeepsTest, KeepsWriteClosed, KeepsWritePut DEF Worker
<1>2. ASSUME GoThread PROVE IInv'
  BY <1>2, KeepsGoEnds, KeepsGoMark, KeepsGoLeaves DEF GoThread
<1>3. ASSUME Get \/ GetEnd \/ NextBatch \/ Leave \/ Join PROVE IInv'
  BY <1>3, KeepsGet, KeepsGetEnd, KeepsLoop
<1>4. ASSUME UNCHANGED vars PROVE IInv'
  <2>1. UNCHANGED <<log, sink, failed, outcome, wr, errors, q, closed, go, box, con, how, got>>
    BY <1>4 DEF vars
  <2>2. TypeOK' /\ MarkInv' /\ GoInv' /\ LoopInv'
    BY <2>1 DEF IInv, TypeOK, MarkInv, GoInv, LoopInv, Run!Delivered
  <2>3. QED
    BY <2>1, <2>2, SameLog, SameWrites, SameArrivals DEF IInv
<1>5. QED
  BY <1>1, <1>2, <1>3, <1>4, KeepsRunFails DEF Next, Terminated

\* The invariant holds in every state of a run read by a loop (iterate, _QueueSink).
THEOREM Correct == Spec => []IInv
<1>1. QED
  BY InitKeeps, NextKeeps, PTL DEF Spec

\* The queue holds at most depth batches per worker, the end mark included (iterate).
THEOREM TypeCorrect == Spec => []TypeOK
<1>1. IInv => TypeOK
  BY DEF IInv
<1>2. QED
  BY <1>1, Correct, PTL

\* A batch whose write has returned is in the queue or was yielded, once and in its order, through every
\* full queue and every retry (_QueueSink.write).
THEOREM WritesArriveOnce == Spec => []EveryWriteArrivesOnce
<1>1. IInv => EveryWriteArrivesOnce
  BY DEF IInv
<1>2. QED
  BY <1>1, Correct, PTL

\* A loop that ends without an exception has seen every batch of every unit and the run returned, or
\* the run raised an error that is no _Closed but whose text holds the word, and the loop has seen what
\* was written: every other error is raised, and a _Closed means that the loop was left (iterate).
THEOREM EndedLoopsAreComplete == Spec => []AnEndedLoopIsComplete
<1>1. IInv => AnEndedLoopIsComplete
  <2> SUFFICES ASSUME IInv, con = "over", how = "ended"
               PROVE  \/ outcome = "returned" /\ \A u \in Units : Holds(got, u, B)
                      \/ /\ outcome = "raised" /\ box = "naming"
                         /\ \A u \in Units : Holds(got, u, Written(u))
    BY DEF AnEndedLoopIsComplete
  <2>0. B \in Nat /\ B # 0
    BY IterateAssumption
  <2>1. /\ box \in {"none"} \cup NamesClosed /\ go = "gone" /\ q = <<>>
        /\ "closed" \notin errors
    BY DEF IInv, LoopInv
  <2>2. outcome = "returned" \/ (outcome = "raised" /\ box \in errors)
    BY <2>1 DEF IInv, GoInv, TypeOK
  <2>3. ASSUME NEW u \in Units PROVE Holds(got, u, Written(u))
    <3>1. got \o q = got
      BY <2>1 DEF IInv, TypeOK
    <3>2. Holds(got \o q, u, Written(u))
      BY DEF IInv, EveryWriteArrivesOnce
    <3> QED BY <3>1, <3>2
  <2>4. CASE outcome = "returned"
    <3>1. ASSUME NEW u \in Units PROVE Written(u) = B
      <4>1. Len(log[u]) = B + 2
        BY <2>4 DEF IInv, GoInv, Run!Delivered
      <4> QED BY <2>0, <4>1, WrittenIs DEF IInv
    <3> QED BY <2>3, <2>4, <3>1
  <2>5. CASE outcome = "raised" /\ box \in errors
    <3>1. box # "none" /\ box # "closed"
      BY <2>1, <2>5 DEF IInv, TypeOK
    <3>2. box = "naming"
      BY <2>1, <3>1 DEF NamesClosed
    <3> QED BY <2>3, <2>5, <3>2
  <2>6. QED
    BY <2>2, <2>4, <2>5
<1>2. QED
  BY <1>1, Correct, PTL
=============================================================================
