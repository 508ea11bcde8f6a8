--------------------------- MODULE KernelsProofs ---------------------------
(***************************************************************************)
(* Proofs about the kernels: that every collect tier lists the selected    *)
(* pixels of a block and stores within its buffers; that planes give back  *)
(* the pixels they were made of, whatever the buffer holds past the end of *)
(* the data; that the fused collects list the same; and, from these, that  *)
(* a frame taken block by block has the right list.  The zero-aware        *)
(* decoder, whose results are the blocks Kernels starts from, is last: its *)
(* output is the plain one and its stores stay in the slack.               *)
(*                                                                         *)
(* Everything is for all values of the constants.  The widths of vectors,  *)
(* groups and tiles are the scaled ones of Collect and Lowplanes.          *)
(***************************************************************************)
EXTENDS Kernels, Lz4Zero, FiniteSetTheorems, WellFoundedInduction, TLAPS

-----------------------------------------------------------------------------
(* Numbers. *)

\* Induction on numbers, for sets of them.
LEMMA NumbersAreCounted ==
    \A S : 0 \in S /\ (\A k \in Nat : k \in S => k + 1 \in S) => Nat \subseteq S
  <1> SUFFICES ASSUME NEW S, 0 \in S, \A k \in Nat : k \in S => k + 1 \in S, Nat \ S # {} PROVE FALSE
    OBVIOUS
  <1>1. \E x \in Nat \ S : \A y \in Nat \ S : ~ (<<y, x>> \in OpToRel(<, Nat))
    BY NatLessThanWellFounded, WFMin, Zenon
  <1>2. PICK x \in Nat \ S : \A y \in Nat \ S : ~ (<<y, x>> \in OpToRel(<, Nat))
    BY <1>1
  <1>3. x # 0 /\ x - 1 \in Nat /\ (x - 1) + 1 = x
    OBVIOUS
  <1>4. x - 1 \in S
    <2>1. <<x - 1, x>> \in OpToRel(<, Nat)
      BY <1>3 DEF OpToRel
    <2> QED
      BY <1>2, <1>3, <2>1
  <1> QED
    BY <1>2, <1>3, <1>4

-----------------------------------------------------------------------------
(* Picking from a sequence. *)

PickStep(S, seq, kept, x) == IF x \in S THEN Append(kept, x) ELSE kept

\* kept holds what is in S of the first k elements, in order: at holds their positions.
ChosenAt(S, seq, kept, k, at) ==
    /\ at \in [1 .. Len(kept) -> 1 .. k]
    /\ \A i \in 1 .. Len(kept) : kept[i] = seq[at[i]] /\ seq[at[i]] \in S
    /\ \A i, j \in 1 .. Len(kept) : i < j => at[i] < at[j]
    /\ \A p \in 1 .. k : seq[p] \in S => \E i \in 1 .. Len(kept) : at[i] = p
Chosen(S, seq, kept, k) ==
    /\ kept \in Seq(ToSet(seq)) /\ Len(kept) <= k
    /\ \E at : ChosenAt(S, seq, kept, k, at)

ChosenSoFar(S, seq, none, kept, k) == Chosen(S, seq, kept, k)

Picking == INSTANCE Folding WITH Op <- PickStep, Inv <- ChosenSoFar

\* One element more.
LEMMA ChosenNext ==
    ASSUME NEW S, NEW seq, NEW n \in Nat, DOMAIN seq = 1 .. n, NEW k \in 1 .. n, NEW kept,
           Chosen(S, seq, kept, k - 1)
    PROVE  Chosen(S, seq, PickStep(S, seq, kept, seq[k]), k)
  <1> DEFINE T == ToSet(seq)
             L == Len(kept)
             next == Append(kept, seq[k])
  <1>1. kept \in Seq(T) /\ L \in Nat /\ L <= k - 1 /\ k - 1 \in Nat
    BY DEF Chosen
  <1>2. PICK at : ChosenAt(S, seq, kept, k - 1, at)
    BY DEF Chosen
  <1>3. seq[k] \in T
    BY DEF ToSet
  <1> HIDE DEF T
  <1>4. CASE seq[k] \in S
    <2>1. next \in Seq(T) /\ Len(next) = L + 1
      BY <1>1, <1>3
    <2>2. next[L + 1] = seq[k] /\ \A i \in 1 .. L : next[i] = kept[i]
      BY <1>1, <1>3
    <2> HIDE DEF next
    <2> DEFINE to == [i \in 1 .. L + 1 |-> IF i = L + 1 THEN k ELSE at[i]]
    <2>3. to[L + 1] = k /\ \A i \in 1 .. L : to[i] = at[i]
      BY <1>1
    <2>4. \A i \in 1 .. L : at[i] \in 1 .. k - 1
      BY <1>2 DEF ChosenAt
    <2>5. to \in [1 .. L + 1 -> 1 .. k]
      BY <1>1, <2>4
    <2>6. DOMAIN to = 1 .. L + 1
      OBVIOUS
    <2> HIDE DEF to
    <2>7. ASSUME NEW i \in 1 .. L + 1 PROVE next[i] = seq[to[i]] /\ seq[to[i]] \in S
      <3>1. CASE i = L + 1
        BY <1>4, <2>2, <2>3, <3>1
      <3>2. CASE i # L + 1
        <4>1. i \in 1 .. L
          BY <1>1, <3>2
        <4> QED
          BY <1>2, <2>2, <2>3, <4>1 DEF ChosenAt
      <3> QED
        BY <3>1, <3>2
    <2>8. ASSUME NEW i \in 1 .. L + 1, NEW j \in 1 .. L + 1, i < j PROVE to[i] < to[j]
      <3>1. i \in 1 .. L
        BY <1>1, <2>8
      <3>2. CASE j = L + 1
        BY <1>1, <2>3, <2>4, <3>1, <3>2
      <3>3. CASE j # L + 1
        <4>1. j \in 1 .. L
          BY <1>1, <3>3
        <4> QED
          BY <1>2, <2>3, <2>8, <3>1, <4>1 DEF ChosenAt
      <3> QED
        BY <3>2, <3>3
    <2>9. ASSUME NEW p \in 1 .. k, seq[p] \in S PROVE \E i \in 1 .. L + 1 : to[i] = p
      <3>1. CASE p = k
        BY <1>1, <2>3, <3>1
      <3>2. CASE p # k
        <4>1. p \in 1 .. k - 1
          BY <3>2
        <4>2. PICK i \in 1 .. L : at[i] = p
          BY <1>2, <2>9, <4>1 DEF ChosenAt
        <4>3. i \in 1 .. L + 1 /\ to[i] = p
          BY <1>1, <2>3, <4>2
        <4> QED
          BY <4>3
      <3> QED
        BY <3>1, <3>2
    <2>10. ChosenAt(S, seq, next, k, to)
      BY <2>1, <2>5, <2>7, <2>8, <2>9 DEF ChosenAt
    <2>11. L + 1 <= k
      BY <1>1
    <2>12. Chosen(S, seq, next, k)
      BY <2>1, <2>10, <2>11 DEF Chosen, T
    <2> QED
      BY <1>4, <2>12 DEF PickStep, next
  <1>5. CASE seq[k] \notin S
    <2>1. at \in [1 .. L -> 1 .. k]
      BY <1>2 DEF ChosenAt
    <2>2. ASSUME NEW p \in 1 .. k, seq[p] \in S PROVE \E i \in 1 .. L : at[i] = p
      <3>1. p \in 1 .. k - 1
        BY <1>5, <2>2
      <3> QED
        BY <1>2, <2>2, <3>1 DEF ChosenAt
    <2>3. ChosenAt(S, seq, kept, k, at)
      BY <1>2, <2>1, <2>2 DEF ChosenAt
    <2>4. L <= k
      BY <1>1
    <2> QED
      BY <1>1, <1>5, <2>3, <2>4 DEF Chosen, T, PickStep
  <1> QED
    BY <1>4, <1>5

\* What Picked picks.
LEMMA PickedIsChosen ==
    ASSUME NEW S, NEW seq, NEW n \in Nat, DOMAIN seq = 1 .. n
    PROVE  Chosen(S, seq, Picked(seq, S), n)
  <1>1. Picked(seq, S) = Picking!Fold(S, seq, <<>>, seq)
    BY DEF Picked, Picking!Fold, FoldLeft, MapThenFoldSet, Max, Picking!Greatest, PickStep
  <1>2. Chosen(S, seq, <<>>, 0)
    <2>1. ChosenAt(S, seq, <<>>, 0, [i \in 1 .. 0 |-> 1])
      BY DEF ChosenAt
    <2>2. <<>> \in Seq(ToSet(seq)) /\ Len(<<>>) <= 0
      OBVIOUS
    <2> QED
      BY <2>1, <2>2 DEF Chosen
  <1>3. ChosenSoFar(S, seq, 0, <<>>, 0)
    BY <1>2 DEF ChosenSoFar
  <1>4. \A k \in 1 .. n : \A a : ChosenSoFar(S, seq, 0, a, k - 1)
                                    => ChosenSoFar(S, seq, 0, PickStep(S, seq, a, seq[k]), k)
    BY ChosenNext DEF ChosenSoFar
  <1>ind. Picking!Counted
    BY NumbersAreCounted, Zenon DEF Picking!Counted
  <1>5. ChosenSoFar(S, seq, 0, Picking!Fold(S, seq, <<>>, seq), n)
    BY <1>3, <1>4, <1>ind, Picking!FoldKeeps
  <1> QED
    BY <1>1, <1>5 DEF ChosenSoFar

-----------------------------------------------------------------------------
(* The pixels of a block in order. *)

\* is goes through S, in order.
Ordered(is, S) ==
    /\ is \in Seq(Nat)
    /\ \A k \in 1 .. Len(is) : is[k] \in S
    /\ \A x \in S : \E k \in 1 .. Len(is) : is[k] = x
    /\ \A k, l \in 1 .. Len(is) : k < l => is[k] < is[l]

\* The ones of the w pixels from j on that are in S, in order; no more than w.
LEMMA LanesPicked ==
    ASSUME NEW j \in Nat, NEW w \in Nat, NEW S, S \subseteq j .. j + w - 1
    PROVE  Ordered(Picked(Lanes(j, w), S), S) /\ Len(Picked(Lanes(j, w), S)) <= w
  <1> DEFINE is == Picked(Lanes(j, w), S)
             seq == Lanes(j, w)
  <1>1. DOMAIN seq = 1 .. w /\ \A k \in 1 .. w : seq[k] = j + k - 1
    BY DEF Lanes
  <1>2. ToSet(seq) \subseteq Nat
    BY <1>1 DEF ToSet
  <1>3. Chosen(S, seq, is, w)
    BY <1>1, PickedIsChosen
  <1> HIDE DEF is, seq
  <1>4. is \in Seq(ToSet(seq)) /\ Len(is) <= w /\ Len(is) \in Nat
    BY <1>3 DEF Chosen
  <1>5. is \in Seq(Nat)
    BY <1>2, <1>4
  <1>6. PICK at : ChosenAt(S, seq, is, w, at)
    BY <1>3 DEF Chosen
  <1>7. \A k \in 1 .. Len(is) : at[k] \in 1 .. w /\ is[k] = j + at[k] - 1 /\ is[k] \in S
    BY <1>1, <1>6 DEF ChosenAt
  <1>8. ASSUME NEW x \in S PROVE \E k \in 1 .. Len(is) : is[k] = x
    <2> DEFINE p == x - j + 1
    <2>1. x \in j .. j + w - 1
      OBVIOUS
    <2>2. p \in 1 .. w
      BY <2>1
    <2>3. seq[p] = x
      BY <1>1, <2>1, <2>2
    <2> HIDE DEF p
    <2>4. PICK k \in 1 .. Len(is) : at[k] = p
      BY <1>6, <2>2, <2>3 DEF ChosenAt
    <2>5. is[k] = x
      BY <1>6, <2>3, <2>4 DEF ChosenAt
    <2> QED
      BY <2>5
  <1>9. ASSUME NEW k \in 1 .. Len(is), NEW l \in 1 .. Len(is), k < l PROVE is[k] < is[l]
    <2>1. at[k] < at[l]
      BY <1>6, <1>9 DEF ChosenAt
    <2> QED
      BY <1>7, <2>1
  <1>10. Ordered(is, S)
    BY <1>5, <1>7, <1>8, <1>9 DEF Ordered
  <1> QED
    BY <1>4, <1>10 DEF is, seq

\* What is selected of the pixels from one on to before another.
Keep(c, from, upto) == {i \in from .. upto - 1 : mask_ok(c, i) /\ Greater(c.px[i], c.cut)}

\* Bits goes through the kept pixels of a vector.
LEMMA BitsOrdered ==
    ASSUME NEW c, NEW j \in Nat, NEW w \in Nat
    PROVE  Ordered(Bits(c, j, w), Keep(c, j, j + w)) /\ Len(Bits(c, j, w)) <= w
  <1>1. Keep(c, j, j + w) \subseteq j .. j + w - 1
    BY DEF Keep
  <1>2. Bits(c, j, w) = Picked(Lanes(j, w), Keep(c, j, j + w))
    BY DEF Bits, Keep
  <1> QED
    BY <1>1, <1>2, LanesPicked

\* The same by the comparison of signed lanes, for values and a cut of the width of a lane.
LEMMA BiasedBitsAreBits ==
    ASSUME NEW c, NEW j \in Nat, NEW w \in Nat, c.cut \in 0 .. Word - 1,
           \A i \in j .. j + w - 1 : c.px[i] \in 0 .. Word - 1
    PROVE  BiasedBits(c, j, w) = Bits(c, j, w)
  <1>1. ASSUME NEW v \in 0 .. Word - 1, NEW t \in 0 .. Word - 1 PROVE GreaterByBias(v, t) <=> Greater(v, t)
    BY DEF GreaterByBias, Greater, Signed, Flip, Word, NaN
  <1>2. {i \in j .. j + w - 1 : mask_ok(c, i) /\ GreaterByBias(c.px[i], c.cut)}
          = {i \in j .. j + w - 1 : mask_ok(c, i) /\ Greater(c.px[i], c.cut)}
    BY <1>1
  <1> QED
    BY <1>2 DEF BiasedBits, Bits

-----------------------------------------------------------------------------
(* Storing. *)

\* r is buf, with s from at on.
IsStored(r, buf, at, s) ==
    /\ r \in Seq(Int)
    /\ Len(r) = IF at + Len(s) > Len(buf) THEN at + Len(s) ELSE Len(buf)
    /\ \A k \in 1 .. at : r[k] = buf[k]
    /\ \A k \in 1 .. Len(s) : r[at + k] = s[k]

\* A store leaves what is before it, and after it.
LEMMA StoreFacts ==
    ASSUME NEW buf \in Seq(Int), NEW s \in Seq(Int), NEW at \in Nat, at <= Len(buf)
    PROVE  IsStored(Store(buf, at, s), buf, at, s)
  <1> DEFINE a == SubSeq(buf, 1, at)
             b == SubSeq(buf, at + Len(s) + 1, Len(buf))
  <1>1. a \in Seq(Int) /\ Len(a) = at /\ \A k \in 1 .. at : a[k] = buf[k]
    OBVIOUS
  <1>2. b \in Seq(Int) /\ Len(b) = IF at + Len(s) > Len(buf) THEN 0 ELSE Len(buf) - at - Len(s)
    <2>1. CASE at + Len(s) > Len(buf)
      BY <2>1
    <2>2. CASE at + Len(s) <= Len(buf)
      BY <2>2
    <2> QED
      BY <2>1, <2>2
  <1> HIDE DEF a, b
  <1>3. (a \o s) \in Seq(Int) /\ Len(a \o s) = at + Len(s)
    <2>1. a \in Seq(Int) /\ Len(a) = at
      BY <1>1
    <2>2. (a \o s) \in Seq(Int)
      BY <2>1
    <2>3. Len(a \o s) = Len(a) + Len(s)
      BY <2>1
    <2> QED
      BY <2>1, <2>2, <2>3
  <1>4. \A k \in 1 .. at : (a \o s)[k] = buf[k]
    BY <1>1
  <1>5. \A k \in 1 .. Len(s) : (a \o s)[at + k] = s[k]
    BY <1>1
  <1> DEFINE h == a \o s
  <1> HIDE DEF h
  <1>6. h \in Seq(Int) /\ Len(h) = at + Len(s) /\ (\A k \in 1 .. at : h[k] = buf[k])
          /\ (\A k \in 1 .. Len(s) : h[at + k] = s[k])
    BY <1>3, <1>4, <1>5 DEF h
  <1>7. h \o b \in Seq(Int) /\ Len(h \o b) = Len(h) + Len(b) /\ \A k \in 1 .. Len(h) : (h \o b)[k] = h[k]
    <2>1. h \in Seq(Int) /\ b \in Seq(Int)
      BY <1>2, <1>6
    <2> QED
      BY <2>1
  <1>8. Store(buf, at, s) = h \o b
    BY DEF Store, h, a, b
  <1>9. Len(s) \in Nat /\ Len(buf) \in Nat
    OBVIOUS
  <1>10. Len(h \o b) = IF at + Len(s) > Len(buf) THEN at + Len(s) ELSE Len(buf)
    <2>1. CASE at + Len(s) > Len(buf)
      BY <1>2, <1>6, <1>7, <1>9, <2>1
    <2>2. CASE ~(at + Len(s) > Len(buf))
      <3>1. Len(b) = Len(buf) - at - Len(s)
        BY <1>2, <2>2
      <3>2. Len(h \o b) = at + Len(s) + (Len(buf) - at - Len(s))
        BY <1>6, <1>7, <3>1
      <3> QED
        BY <1>9, <2>2, <3>2
    <2> QED
      BY <2>1, <2>2
  <1>11. \A k \in 1 .. at : (h \o b)[k] = buf[k]
    BY <1>6, <1>7, <1>9, SMTT(30)
  <1>12. \A k \in 1 .. Len(s) : (h \o b)[at + k] = s[k]
    BY <1>6, <1>7, <1>9
  <1> QED
    BY <1>7, <1>8, <1>10, <1>11, <1>12 DEF IsStored

\* o lists, in order, the pixels S of those before j, and its buffers reach no further than j.
Collected(c, S, o, j) ==
    /\ o \in [vals : Seq(Int), adr : Seq(Int), n : Nat]
    /\ o.n <= Len(o.vals) /\ Len(o.vals) <= j
    /\ o.n <= Len(o.adr) /\ Len(o.adr) <= j
    /\ S \subseteq 0 .. j - 1
    /\ \A k \in 1 .. o.n : o.adr[k] - c.i0 \in S /\ o.vals[k] = c.px[o.adr[k] - c.i0]
    /\ \A x \in S : \E k \in 1 .. o.n : o.adr[k] = c.i0 + x
    /\ \A k, l \in 1 .. o.n : k < l => o.adr[k] < o.adr[l]

\* An empty list has collected nothing.
LEMMA CollectedNothing ==
    ASSUME NEW c
    PROVE  Collected(c, {}, Empty, 0)
  BY DEF Collected, Empty

\* The pixels T of the next w, as is lists them: their values and addresses stored where o stands, by
\* stores of w lanes at most.
LEMMA StoredNext ==
    ASSUME NEW c, c.i0 \in Nat, NEW S, NEW o, NEW j \in Nat, Collected(c, S, o, j),
           NEW w \in Nat, NEW T, T \subseteq j .. j + w - 1, NEW is, Ordered(is, T),
           NEW vals \in Seq(Int), NEW adr \in Seq(Int),
           o.n + Len(is) <= Len(vals), Len(vals) <= j + w,
           o.n + Len(is) <= Len(adr), Len(adr) <= j + w,
           \A k \in 1 .. o.n : vals[k] = o.vals[k] /\ adr[k] = o.adr[k],
           \A k \in 1 .. Len(is) : vals[o.n + k] = c.px[is[k]] /\ adr[o.n + k] = c.i0 + is[k]
    PROVE  Collected(c, S \cup T, [vals |-> vals, adr |-> adr, n |-> o.n + Len(is)], j + w)
  <1> DEFINE L == Len(is)
             r == [vals |-> vals, adr |-> adr, n |-> o.n + L]
  <1>1. L \in Nat /\ o.n \in Nat
    BY DEF Ordered, Collected
  <1>2. r \in [vals : Seq(Int), adr : Seq(Int), n : Nat]
    BY <1>1
  <1>3. r.vals = vals /\ r.adr = adr /\ r.n = o.n + L
    OBVIOUS
  <1>4. S \subseteq 0 .. j - 1
    BY DEF Collected
  <1>5. S \cup T \subseteq 0 .. (j + w) - 1
    <2>1. ASSUME NEW x \in S PROVE x \in 0 .. (j + w) - 1
      BY <1>4
    <2>2. ASSUME NEW x \in T PROVE x \in 0 .. (j + w) - 1
      OBVIOUS
    <2> QED
      BY <2>1, <2>2
  <1> HIDE DEF L, r
  <1>6. ASSUME NEW k \in 1 .. o.n + L
        PROVE  k \in 1 .. o.n \/ (k - o.n \in 1 .. L /\ k = o.n + (k - o.n))
    BY <1>1, SMTT(30)
  <1>7. ASSUME NEW k \in 1 .. o.n PROVE adr[k] = o.adr[k] /\ vals[k] = o.vals[k] /\ adr[k] - c.i0 \in S
    BY DEF Collected
  <1>8. ASSUME NEW m \in 1 .. L
        PROVE  adr[o.n + m] = c.i0 + is[m] /\ vals[o.n + m] = c.px[is[m]] /\ is[m] \in T /\ is[m] \in Nat
               /\ adr[o.n + m] - c.i0 = is[m]
    <2>1. adr[o.n + m] = c.i0 + is[m] /\ vals[o.n + m] = c.px[is[m]]
      BY DEF L
    <2>2. is[m] \in T /\ is[m] \in Nat
      BY SMTT(30) DEF Ordered, L
    <2>3. (c.i0 + is[m]) - c.i0 = is[m]
      BY <2>2
    <2> QED
      BY <2>1, <2>2, <2>3
  <1>9. ASSUME NEW k \in 1 .. o.n + L
        PROVE  adr[k] - c.i0 \in S \cup T /\ vals[k] = c.px[adr[k] - c.i0]
    <2>1. CASE k \in 1 .. o.n
      BY <1>7, <2>1 DEF Collected
    <2>2. CASE k - o.n \in 1 .. L /\ k = o.n + (k - o.n)
      <3> DEFINE m == k - o.n
      <3>1. m \in 1 .. L /\ k = o.n + m
        BY <2>2
      <3> HIDE DEF m
      <3> QED
        BY <1>8, <3>1
    <2> QED
      BY <1>6, <2>1, <2>2
  <1>10. ASSUME NEW x \in S \cup T PROVE \E k \in 1 .. o.n + L : adr[k] = c.i0 + x
    <2>1. CASE x \in S
      <3>1. PICK k \in 1 .. o.n : o.adr[k] = c.i0 + x
        BY <2>1 DEF Collected
      <3>2. k \in 1 .. o.n + L
        BY <1>1
      <3> QED
        BY <1>7, <3>1, <3>2
    <2>2. CASE x \in T
      <3>1. PICK m \in 1 .. L : is[m] = x
        BY <2>2 DEF Ordered, L
      <3>2. o.n + m \in 1 .. o.n + L
        BY <1>1, SMTT(30)
      <3> QED
        BY <1>8, <3>1, <3>2
    <2> QED
      BY <2>1, <2>2
  <1>11. ASSUME NEW k \in 1 .. o.n + L, NEW l \in 1 .. o.n + L, k < l PROVE adr[k] < adr[l]
    <2>1. CASE l \in 1 .. o.n
      <3>1. k \in 1 .. o.n
        BY <1>1, <1>11, <2>1
      <3> QED
        BY <1>7, <1>11, <2>1, <3>1 DEF Collected
    <2>2. CASE k \in 1 .. o.n /\ l - o.n \in 1 .. L /\ l = o.n + (l - o.n)
      <3> DEFINE m == l - o.n
      <3>1. m \in 1 .. L /\ l = o.n + m
        BY <2>2
      <3> HIDE DEF m
      <3>2. adr[k] - c.i0 \in 0 .. j - 1 /\ is[m] \in j .. j + w - 1 /\ adr[l] = c.i0 + is[m]
        BY <1>4, <1>7, <1>8, <2>2, <3>1
      <3>3. adr[k] \in Int
        <4>1. k \in 1 .. Len(adr)
          BY <1>1, <2>2, SMTT(30)
        <4> QED
          BY <4>1
      <3> QED
        BY <3>2, <3>3, SMTT(30)
    <2>3. CASE (k - o.n \in 1 .. L /\ k = o.n + (k - o.n)) /\ (l - o.n \in 1 .. L /\ l = o.n + (l - o.n))
      <3> DEFINE a == k - o.n
                 b == l - o.n
      <3>1. a \in 1 .. L /\ k = o.n + a /\ b \in 1 .. L /\ l = o.n + b /\ a < b
        BY <1>1, <1>11, <2>3, SMTT(30)
      <3> HIDE DEF a, b
      <3>2. is[a] < is[b]
        BY <3>1 DEF Ordered, L
      <3>3. is[a] \in Nat /\ is[b] \in Nat /\ adr[k] = c.i0 + is[a] /\ adr[l] = c.i0 + is[b]
        BY <1>8, <3>1
      <3> QED
        BY <3>2, <3>3
    <2> QED
      BY <1>6, <1>11, <2>1, <2>2, <2>3
  <1>12. o.n + L <= Len(vals) /\ Len(vals) <= j + w /\ o.n + L <= Len(adr) /\ Len(adr) <= j + w
    BY DEF L
  <1>13. Collected(c, S \cup T, r, j + w)
    BY <1>2, <1>3, <1>5, <1>9, <1>10, <1>11, <1>12 DEF Collected
  <1> QED
    BY <1>13 DEF r, L

\* v and a are the values and the addresses of the pixels is.
AreOf(c, is, v, a) ==
    /\ v \in Seq(Int) /\ Len(v) = Len(is)
    /\ a \in Seq(Int) /\ Len(a) = Len(is)
    /\ \A k \in 1 .. Len(is) : v[k] = c.px[is[k]] /\ a[k] = c.i0 + is[k]

\* What a kernel stores of the pixels it selected.
LEMMA ValuesFacts ==
    ASSUME NEW c, c.i0 \in Nat, NEW T, NEW is, Ordered(is, T), \A x \in T : c.px[x] \in Int
    PROVE  AreOf(c, is, Values(c, is), Addresses(c, is))
  <1>1. is \in Seq(Nat) /\ DOMAIN is = 1 .. Len(is) /\ Len(is) \in Nat
    BY DEF Ordered
  <1>2. \A k \in 1 .. Len(is) : c.px[is[k]] \in Int /\ c.i0 + is[k] \in Int
    BY <1>1 DEF Ordered
  <1>3. Values(c, is) \in Seq(Int) /\ Len(Values(c, is)) = Len(is)
    BY <1>1, <1>2 DEF Values
  <1>4. Addresses(c, is) \in Seq(Int) /\ Len(Addresses(c, is)) = Len(is)
    BY <1>1, <1>2 DEF Addresses
  <1>5. \A k \in 1 .. Len(is) : Values(c, is)[k] = c.px[is[k]] /\ Addresses(c, is)[k] = c.i0 + is[k]
    BY <1>1 DEF Values, Addresses
  <1> QED
    BY <1>3, <1>4, <1>5 DEF AreOf

\* A register: what is selected at its front.
LEMMA WideFacts ==
    ASSUME NEW s \in Seq(Int), NEW w \in Nat, Len(s) <= w
    PROVE  Wide(s, w) \in Seq(Int) /\ Len(Wide(s, w)) = w /\ \A k \in 1 .. Len(s) : Wide(s, w)[k] = s[k]
  <1> DEFINE t == [k \in 1 .. w - Len(s) |-> Junk]
  <1>1. w - Len(s) \in Nat /\ Len(s) \in Nat
    OBVIOUS
  <1>2. t \in Seq(Int) /\ Len(t) = w - Len(s)
    BY <1>1 DEF Junk
  <1> HIDE DEF t
  <1>3. s \o t \in Seq(Int) /\ Len(s \o t) = Len(s) + Len(t) /\ \A k \in 1 .. Len(s) : (s \o t)[k] = s[k]
    BY <1>2
  <1>4. Wide(s, w) = s \o t
    BY DEF Wide, t
  <1> QED
    BY <1>1, <1>2, <1>3, <1>4

\* Values and addresses stored by one store each.
LEMMA PairStored ==
    ASSUME NEW c, c.i0 \in Nat, NEW S, NEW o, NEW j \in Nat, Collected(c, S, o, j),
           NEW w \in Nat, NEW T, T \subseteq j .. j + w - 1, NEW is, Ordered(is, T),
           NEW v \in Seq(Int), NEW a \in Seq(Int),
           Len(is) <= Len(v), Len(v) <= w, Len(is) <= Len(a), Len(a) <= w,
           \A k \in 1 .. Len(is) : v[k] = c.px[is[k]] /\ a[k] = c.i0 + is[k]
    PROVE  Collected(c, S \cup T, [vals |-> Store(o.vals, o.n, v), adr |-> Store(o.adr, o.n, a),
                                   n |-> o.n + Len(is)], j + w)
  <1> DEFINE vals == Store(o.vals, o.n, v)
             adr  == Store(o.adr, o.n, a)
  <1>1. o.vals \in Seq(Int) /\ o.adr \in Seq(Int) /\ o.n \in Nat /\ o.n <= Len(o.vals) /\ Len(o.vals) <= j
        /\ o.n <= Len(o.adr) /\ Len(o.adr) <= j /\ Len(is) \in Nat
    BY DEF Collected, Ordered
  <1>2. Len(v) \in Nat /\ Len(a) \in Nat /\ Len(o.vals) \in Nat /\ Len(o.adr) \in Nat
    BY <1>1
  <1>3. /\ vals \in Seq(Int) /\ Len(vals) = IF o.n + Len(v) > Len(o.vals) THEN o.n + Len(v) ELSE Len(o.vals)
        /\ \A k \in 1 .. o.n : vals[k] = o.vals[k]
        /\ \A k \in 1 .. Len(v) : vals[o.n + k] = v[k]
    <2>1. IsStored(vals, o.vals, o.n, v)
      BY <1>1, StoreFacts
    <2> HIDE DEF vals
    <2> QED
      BY <2>1 DEF IsStored
  <1>4. /\ adr \in Seq(Int) /\ Len(adr) = IF o.n + Len(a) > Len(o.adr) THEN o.n + Len(a) ELSE Len(o.adr)
        /\ \A k \in 1 .. o.n : adr[k] = o.adr[k]
        /\ \A k \in 1 .. Len(a) : adr[o.n + k] = a[k]
    <2>1. IsStored(adr, o.adr, o.n, a)
      BY <1>1, StoreFacts
    <2> HIDE DEF adr
    <2> QED
      BY <2>1 DEF IsStored
  <1> HIDE DEF vals, adr
  <1>5. o.n + Len(is) <= Len(vals) /\ Len(vals) <= j + w
    <2>1. CASE o.n + Len(v) > Len(o.vals)
      <3>1. Len(vals) = o.n + Len(v)
        BY <1>3, <2>1
      <3> QED
        BY <1>1, <1>2, <3>1, SMTT(30)
    <2>2. CASE ~(o.n + Len(v) > Len(o.vals))
      BY <1>1, <1>2, <1>3, <2>2
    <2> QED
      BY <2>1, <2>2
  <1>6. o.n + Len(is) <= Len(adr) /\ Len(adr) <= j + w
    <2>1. CASE o.n + Len(a) > Len(o.adr)
      <3>1. Len(adr) = o.n + Len(a)
        BY <1>4, <2>1
      <3> QED
        BY <1>1, <1>2, <3>1, SMTT(30)
    <2>2. CASE ~(o.n + Len(a) > Len(o.adr))
      BY <1>1, <1>2, <1>4, <2>2
    <2> QED
      BY <2>1, <2>2
  <1>7. \A k \in 1 .. o.n : vals[k] = o.vals[k] /\ adr[k] = o.adr[k]
    BY <1>3, <1>4
  <1>8. ASSUME NEW k \in 1 .. Len(is) PROVE vals[o.n + k] = c.px[is[k]] /\ adr[o.n + k] = c.i0 + is[k]
    <2>1. k \in 1 .. Len(v) /\ k \in 1 .. Len(a)
      BY <1>1, <1>2, SMTT(30)
    <2> QED
      BY <1>3, <1>4, <2>1
  <1>9. Collected(c, S \cup T, [vals |-> vals, adr |-> adr, n |-> o.n + Len(is)], j + w)
    BY <1>3, <1>4, <1>5, <1>6, <1>7, <1>8, StoredNext
  <1> QED
    BY <1>9 DEF vals, adr

\* One pixel after the other.
LEMMA PushCollects ==
    ASSUME NEW c, c.i0 \in Nat, NEW S, NEW o, NEW j \in Nat, Collected(c, S, o, j),
           NEW w \in Nat, NEW T, T \subseteq j .. j + w - 1, NEW is, Ordered(is, T), Len(is) <= w,
           \A x \in T : c.px[x] \in Int
    PROVE  Collected(c, S \cup T, Push(o, c, is), j + w)
  <1>1. Len(is) \in Nat
    BY DEF Ordered
  <1>2. AreOf(c, is, Values(c, is), Addresses(c, is))
    BY ValuesFacts
  <1> DEFINE v == Values(c, is)
             a == Addresses(c, is)
  <1> HIDE DEF v, a
  <1>3. v \in Seq(Int) /\ a \in Seq(Int) /\ Len(is) <= Len(v) /\ Len(v) <= w /\ Len(is) <= Len(a) /\ Len(a) <= w
    BY <1>1, <1>2 DEF v, a, AreOf
  <1>4. \A k \in 1 .. Len(is) : v[k] = c.px[is[k]] /\ a[k] = c.i0 + is[k]
    BY <1>2 DEF v, a, AreOf
  <1>5. Collected(c, S \cup T, [vals |-> Store(o.vals, o.n, v), adr |-> Store(o.adr, o.n, a),
                               n |-> o.n + Len(is)], j + w)
    BY <1>3, <1>4, PairStored
  <1> QED
    BY <1>5 DEF Push, v, a

\* A whole register.
LEMMA PushWideCollects ==
    ASSUME NEW c, c.i0 \in Nat, NEW S, NEW o, NEW j \in Nat, Collected(c, S, o, j),
           NEW w \in Nat, NEW T, T \subseteq j .. j + w - 1, NEW is, Ordered(is, T), Len(is) <= w,
           \A x \in T : c.px[x] \in Int
    PROVE  Collected(c, S \cup T, PushWide(o, c, is, w), j + w)
  <1>1. Len(is) \in Nat
    BY DEF Ordered
  <1>2. AreOf(c, is, Values(c, is), Addresses(c, is))
    BY ValuesFacts
  <1> DEFINE v == Wide(Values(c, is), w)
             a == Wide(Addresses(c, is), w)
  <1>3. v \in Seq(Int) /\ Len(v) = w /\ \A k \in 1 .. Len(is) : v[k] = Values(c, is)[k]
    <2>1. Values(c, is) \in Seq(Int) /\ Len(Values(c, is)) = Len(is)
      BY <1>2 DEF AreOf
    <2>2. Wide(Values(c, is), w) \in Seq(Int) /\ Len(Wide(Values(c, is), w)) = w
          /\ \A k \in 1 .. Len(Values(c, is)) : Wide(Values(c, is), w)[k] = Values(c, is)[k]
      BY <2>1, WideFacts
    <2> QED
      BY <2>1, <2>2
  <1>4. a \in Seq(Int) /\ Len(a) = w /\ \A k \in 1 .. Len(is) : a[k] = Addresses(c, is)[k]
    <2>1. Addresses(c, is) \in Seq(Int) /\ Len(Addresses(c, is)) = Len(is)
      BY <1>2 DEF AreOf
    <2>2. Wide(Addresses(c, is), w) \in Seq(Int) /\ Len(Wide(Addresses(c, is), w)) = w
          /\ \A k \in 1 .. Len(Addresses(c, is)) : Wide(Addresses(c, is), w)[k] = Addresses(c, is)[k]
      BY <2>1, WideFacts
    <2> QED
      BY <2>1, <2>2
  <1> HIDE DEF v, a
  <1>5. \A k \in 1 .. Len(is) : v[k] = c.px[is[k]] /\ a[k] = c.i0 + is[k]
    BY <1>2, <1>3, <1>4 DEF AreOf
  <1>6. Len(is) <= Len(v) /\ Len(v) <= w /\ Len(is) <= Len(a) /\ Len(a) <= w
    BY <1>3, <1>4
  <1>7. Collected(c, S \cup T, [vals |-> Store(o.vals, o.n, v), adr |-> Store(o.adr, o.n, a),
                               n |-> o.n + Len(is)], j + w)
    BY <1>3, <1>4, <1>5, <1>6, PairStored
  <1> QED
    BY <1>7 DEF PushWide, v, a

-----------------------------------------------------------------------------
(* The groups of the tiers. *)

\* A call whose pixels are numbers.
IsCall(c) == c.n \in Nat /\ c.i0 \in Nat /\ \A i \in 0 .. c.n - 1 : c.px[i] \in Int

\* The pixels before j are listed.
SoFar(c, o, j) == Collected(c, Keep(c, 0, j), o, j)

\* What is kept of a block and of the pixels after it.
LEMMA KeepMore ==
    ASSUME NEW c, NEW j \in Nat, NEW w \in Nat
    PROVE  Keep(c, 0, j) \cup Keep(c, j, j + w) = Keep(c, 0, j + w)
  <1>1. ASSUME NEW x PROVE x \in 0 .. (j + w) - 1 <=> x \in 0 .. j - 1 \/ x \in j .. (j + w) - 1
    OBVIOUS
  <1> QED
    BY <1>1 DEF Keep

\* Kept pixels are where they are looked for.
LEMMA KeepWithin ==
    ASSUME NEW c, NEW j \in Nat, NEW w \in Nat
    PROVE  Keep(c, j, j + w) \subseteq j .. j + w - 1
  BY DEF Keep

\* The pixels kept of a call are numbers.
LEMMA KeptAreNumbers ==
    ASSUME NEW c, IsCall(c), NEW j \in Nat, NEW w \in Nat, j + w <= c.n
    PROVE  \A x \in Keep(c, j, j + w) : c.px[x] \in Int
  <1>1. ASSUME NEW x \in Keep(c, j, j + w) PROVE x \in 0 .. c.n - 1
    BY DEF Keep, IsCall
  <1> QED
    BY <1>1 DEF IsCall

\* The kept pixels of the next vector, stored one by one or as a register, are listed.
LEMMA GroupPushed ==
    ASSUME NEW c, IsCall(c), NEW o, NEW j \in Nat, NEW w \in Nat, j + w <= c.n, SoFar(c, o, j),
           NEW is, Ordered(is, Keep(c, j, j + w)), Len(is) <= w
    PROVE  SoFar(c, Push(o, c, is), j + w) /\ SoFar(c, PushWide(o, c, is, w), j + w)
  <1>1. c.i0 \in Nat /\ \A x \in Keep(c, j, j + w) : c.px[x] \in Int
    BY KeptAreNumbers DEF IsCall
  <1>2. Keep(c, 0, j) \cup Keep(c, j, j + w) = Keep(c, 0, j + w)
    BY KeepMore
  <1>3. Collected(c, Keep(c, 0, j) \cup Keep(c, j, j + w), Push(o, c, is), j + w)
    BY <1>1, KeepWithin, PushCollects DEF SoFar
  <1>4. Collected(c, Keep(c, 0, j) \cup Keep(c, j, j + w), PushWide(o, c, is, w), j + w)
    BY <1>1, KeepWithin, PushWideCollects DEF SoFar
  <1> QED
    BY <1>2, <1>3, <1>4 DEF SoFar

\* The same for the selection of that vector.
LEMMA BitsPushed ==
    ASSUME NEW c, IsCall(c), NEW o, NEW j \in Nat, NEW w \in Nat, j + w <= c.n, SoFar(c, o, j)
    PROVE  SoFar(c, Push(o, c, Bits(c, j, w)), j + w) /\ SoFar(c, PushWide(o, c, Bits(c, j, w), w), j + w)
  BY BitsOrdered, GroupPushed

\* Nothing selected: the list stands for the next pixels as well.
LEMMA GroupSkipped ==
    ASSUME NEW c, NEW o, NEW j \in Nat, NEW w \in Nat, SoFar(c, o, j), Keep(c, j, j + w) = {}
    PROVE  SoFar(c, o, j + w)
  <1>1. Keep(c, 0, j + w) = Keep(c, 0, j)
    <2>1. Keep(c, 0, j) \cup Keep(c, j, j + w) = Keep(c, 0, j + w)
      BY KeepMore
    <2> QED
      BY <2>1, Zenon
  <1>2. Collected(c, Keep(c, 0, j), o, j)
    BY DEF SoFar
  <1>3. Collected(c, Keep(c, 0, j), o, j + w)
    <2> DEFINE S == Keep(c, 0, j)
    <2>1. S \subseteq 0 .. j - 1
      BY <1>2 DEF Collected
    <2>2. \A x \in 0 .. j - 1 : x \in 0 .. (j + w) - 1
      OBVIOUS
    <2> HIDE DEF S
    <2>3. S \subseteq 0 .. (j + w) - 1
      BY <2>1, <2>2
    <2>4. Collected(c, S, o, j)
      BY <1>2 DEF S
    <2>5. o.n <= Len(o.vals) /\ Len(o.vals) <= j + w /\ o.n <= Len(o.adr) /\ Len(o.adr) <= j + w
      <3>1. Len(o.vals) \in Nat /\ Len(o.adr) \in Nat
        BY <2>4 DEF Collected
      <3> QED
        BY <2>4, <3>1 DEF Collected
    <2> QED
      BY <2>3, <2>4, <2>5, Zenon DEF Collected, S
  <1> QED
    BY <1>1, <1>3 DEF SoFar

\* Nothing selected, nothing kept.
LEMMA NoBits ==
    ASSUME NEW c, NEW j \in Nat, NEW w \in Nat, Bits(c, j, w) = <<>>
    PROVE  Keep(c, j, j + w) = {}
  <1>1. Ordered(<<>>, Keep(c, j, j + w))
    BY BitsOrdered
  <1> QED
    BY <1>1 DEF Ordered

\* A vector that is passed over has nothing to keep.
LEMMA NotGated ==
    ASSUME NEW c, NEW j \in Nat, NEW w \in Nat, ~ Gated(c, j, w)
    PROVE  Keep(c, j, j + w) = {}
  BY DEF Gated, Keep

\* The first n of f are the numbers S, in order.
Ascends(f, n, S) ==
    /\ n \in Nat
    /\ \A k \in 1 .. n : f[k] \in S /\ f[k] \in Int
    /\ \A x \in S : \E k \in 1 .. n : f[k] = x
    /\ \A k, l \in 1 .. n : k < l => f[k] < f[l]

\* Two lists of the same numbers in order are the same.
LEMMA SameList ==
    ASSUME NEW m, NEW n, NEW f, NEW g, NEW S, Ascends(f, m, S), Ascends(g, n, S)
    PROVE  m <= n /\ \A k \in 1 .. m : f[k] = g[k]
  <1>0. /\ m \in Nat /\ n \in Nat
        /\ \A k \in 1 .. m : f[k] \in S /\ f[k] \in Int
        /\ \A k \in 1 .. n : g[k] \in S /\ g[k] \in Int
        /\ \A x \in S : \E k \in 1 .. m : f[k] = x
        /\ \A x \in S : \E k \in 1 .. n : g[k] = x
        /\ \A k, l \in 1 .. m : k < l => f[k] < f[l]
        /\ \A k, l \in 1 .. n : k < l => g[k] < g[l]
    BY DEF Ascends
  <1> DEFINE W == {k \in 1 .. m : k > n \/ f[k] # g[k]}
  <1> SUFFICES ASSUME W # {} PROVE FALSE
    <2>1. W = {} => m <= n
      <3> SUFFICES ASSUME W = {}, m > n PROVE FALSE
        BY <1>0
      <3>1. m \in W
        BY <1>0
      <3> QED
        BY <3>1
    <2> QED
      BY <1>0, <2>1
  <1>1. W \subseteq Nat
    BY <1>0
  <1>ind. Picking!Counted
    BY NumbersAreCounted, Zenon DEF Picking!Counted
  <1>2. PICK k \in W : \A l \in W : k <= l
    BY <1>1, <1>ind, Picking!LeastNumber
  <1>3. k \in 1 .. m /\ (k > n \/ f[k] # g[k])
    OBVIOUS
  <1>4. ASSUME NEW l \in 1 .. k - 1 PROVE l \in 1 .. n /\ l \in 1 .. m /\ f[l] = g[l]
    <2>1. l \notin W
      BY <1>0, <1>2, <1>3
    <2>2. l \in 1 .. m
      BY <1>0, <1>3
    <2> QED
      BY <1>0, <2>1, <2>2
  <1> HIDE DEF W
  <1>5. PICK l \in 1 .. n : g[l] = f[k]
    BY <1>0, <1>3
  <1>6. l >= k
    <2> SUFFICES ASSUME l < k PROVE FALSE
      BY <1>0, <1>3
    <2>1. l \in 1 .. k - 1
      BY <1>0, <1>3
    <2>2. f[l] = g[l] /\ l \in 1 .. m
      BY <1>0, <1>4, <2>1
    <2>3. f[l] < f[k]
      BY <1>0, <1>3, <2>2
    <2> QED
      BY <1>0, <1>3, <1>5, <2>2, <2>3
  <1>7. k \in 1 .. n
    BY <1>0, <1>3, <1>6
  <1>8. PICK h \in 1 .. m : f[h] = g[k]
    BY <1>0, <1>7
  <1>9. h >= k
    <2> SUFFICES ASSUME h < k PROVE FALSE
      BY <1>0, <1>3
    <2>1. h \in 1 .. k - 1
      BY <1>0, <1>3
    <2>2. f[h] = g[h] /\ h \in 1 .. n
      BY <1>0, <1>4, <2>1
    <2>3. g[h] < g[k]
      BY <1>0, <1>7, <2>2
    <2> QED
      BY <1>0, <1>7, <1>8, <2>2, <2>3
  <1>10. g[k] <= g[l] /\ f[k] <= f[h]
    <2>1. g[k] <= g[l]
      BY <1>0, <1>6, <1>7
    <2>2. f[k] <= f[h]
      BY <1>0, <1>3, <1>9, SMTT(30)
    <2> QED
      BY <2>1, <2>2
  <1>11. f[k] \in Int /\ g[k] \in Int
    BY <1>0, <1>3, <1>7
  <1> QED
    BY <1>0, <1>3, <1>5, <1>7, <1>8, <1>10, <1>11

\* A list whose addresses were stored in parts: AsValues(c) has addresses in place of values, so that
\* the addresses alone are a list, of which buf holds at.
AsValues(c)   == [i0 |-> c.i0, px |-> [x \in 0 .. c.n - 1 |-> c.i0 + x]]
AsList(buf, at) == [vals |-> buf, adr |-> buf, n |-> at]

\* The values by one store, the addresses part by part.
LEMMA PartsTogether ==
    ASSUME NEW c, NEW S, NEW o, NEW buf, NEW at, NEW j \in Nat,
           Collected(c, S, o, j), Collected(AsValues(c), S, AsList(buf, at), j), c.i0 \in Nat
    PROVE  Collected(c, S, [vals |-> o.vals, adr |-> buf, n |-> at], j)
  <1> DEFINE b == AsList(buf, at)
             r == [vals |-> o.vals, adr |-> buf, n |-> at]
  <1>1. b.vals = buf /\ b.adr = buf /\ b.n = at /\ AsValues(c).i0 = c.i0
    BY DEF AsList, AsValues
  <1>2. r.vals = o.vals /\ r.adr = buf /\ r.n = at
    OBVIOUS
  <1> HIDE DEF b, r
  <1>3. /\ o \in [vals : Seq(Int), adr : Seq(Int), n : Nat] /\ o.n <= Len(o.vals) /\ Len(o.vals) <= j
        /\ o.n <= Len(o.adr) /\ S \subseteq 0 .. j - 1
        /\ \A k \in 1 .. o.n : o.adr[k] - c.i0 \in S /\ o.vals[k] = c.px[o.adr[k] - c.i0]
        /\ \A x \in S : \E k \in 1 .. o.n : o.adr[k] = c.i0 + x
        /\ \A k, l \in 1 .. o.n : k < l => o.adr[k] < o.adr[l]
    BY DEF Collected
  <1>4. /\ buf \in Seq(Int) /\ at \in Nat /\ at <= Len(buf) /\ Len(buf) <= j
        /\ \A k \in 1 .. at : buf[k] - c.i0 \in S
        /\ \A x \in S : \E k \in 1 .. at : buf[k] = c.i0 + x
        /\ \A k, l \in 1 .. at : k < l => buf[k] < buf[l]
    <2>1. Collected(AsValues(c), S, b, j)
      BY DEF b
    <2>2. /\ b \in [vals : Seq(Int), adr : Seq(Int), n : Nat]
          /\ b.n <= Len(b.adr) /\ Len(b.adr) <= j
          /\ \A k \in 1 .. b.n : b.adr[k] - AsValues(c).i0 \in S
          /\ \A x \in S : \E k \in 1 .. b.n : b.adr[k] = AsValues(c).i0 + x
          /\ \A k, l \in 1 .. b.n : k < l => b.adr[k] < b.adr[l]
      BY <2>1 DEF Collected
    <2>3. b.adr \in Seq(Int) /\ b.n \in Nat
      BY <2>2
    <2> QED
      BY <1>1, <2>2, <2>3, Zenon
  <1> DEFINE A == {c.i0 + x : x \in S}
             f == o.adr
             n == o.n
  <1>5. n \in Nat /\ f \in Seq(Int) /\ n <= Len(f)
    BY <1>3
  <1>6. \A k \in 1 .. n : f[k] \in Int
    BY <1>5
  <1>7. \A k \in 1 .. at : buf[k] \in Int
    BY <1>4
  <1>8. \A k \in 1 .. n : f[k] \in A
    <2> SUFFICES ASSUME NEW k \in 1 .. n PROVE f[k] \in A
      OBVIOUS
    <2>1. f[k] - c.i0 \in S /\ f[k] = c.i0 + (f[k] - c.i0)
      BY <1>3, <1>6, SMTT(30)
    <2> QED
      BY <2>1
  <1>9. \A k \in 1 .. at : buf[k] \in A
    <2> SUFFICES ASSUME NEW k \in 1 .. at PROVE buf[k] \in A
      OBVIOUS
    <2>1. buf[k] - c.i0 \in S /\ buf[k] = c.i0 + (buf[k] - c.i0)
      BY <1>4, <1>7
    <2> QED
      BY <2>1
  <1>10. (\A y \in A : \E k \in 1 .. n : f[k] = y) /\ (\A y \in A : \E k \in 1 .. at : buf[k] = y)
    <2>1. (\A x \in S : \E k \in 1 .. n : f[k] = c.i0 + x) /\ (\A x \in S : \E k \in 1 .. at : buf[k] = c.i0 + x)
      BY <1>3, <1>4
    <2>2. ASSUME NEW y \in A PROVE (\E k \in 1 .. n : f[k] = y) /\ (\E k \in 1 .. at : buf[k] = y)
      <3>1. PICK x \in S : y = c.i0 + x
        OBVIOUS
      <3> HIDE DEF A, f, n
      <3> QED
        BY <2>1, <3>1, Zenon
    <2> QED
      BY <2>2
  <1>11. (\A k, l \in 1 .. n : k < l => f[k] < f[l]) /\ (\A k, l \in 1 .. at : k < l => buf[k] < buf[l])
    BY <1>3, <1>4
  <1> HIDE DEF A, f, n
  <1>20. \A k \in 1 .. n : f[k] \in A /\ f[k] \in Int
    BY <1>6, <1>8
  <1>21. \A k \in 1 .. at : buf[k] \in A /\ buf[k] \in Int
    BY <1>7, <1>9
  <1>22. at \in Nat
    BY <1>4
  <1>23. Ascends(f, n, A)
    BY <1>5, <1>10, <1>11, <1>20 DEF Ascends
  <1>24. Ascends(buf, at, A)
    BY <1>10, <1>11, <1>21, <1>22 DEF Ascends
  <1>12. n <= at /\ \A k \in 1 .. n : f[k] = buf[k]
    BY <1>23, <1>24, SameList
  <1>13. at <= n
    BY <1>23, <1>24, SameList
  <1>14. at = n
    BY <1>4, <1>5, <1>12, <1>13
  <1>15. \A k \in 1 .. at : buf[k] - c.i0 \in S /\ o.vals[k] = c.px[buf[k] - c.i0]
    BY <1>3, <1>12, <1>14 DEF f, n
  <1>16. r \in [vals : Seq(Int), adr : Seq(Int), n : Nat]
    BY <1>3, <1>4 DEF r
  <1>17. at <= Len(o.vals) /\ Len(o.vals) <= j
    BY <1>3, <1>14 DEF n
  <1>18. Collected(c, S, r, j)
    BY <1>2, <1>3, <1>4, <1>15, <1>16, <1>17 DEF Collected
  <1> QED
    BY <1>18 DEF r

\* One part: the addresses of the selected ones of so many pixels from i on.
PartStep(c, part, a, i) ==
    [buf |-> Store(a.buf, a.at, Wide(Addresses(c, Bits(c, i, part)), part)), at |-> a.at + Len(Bits(c, i, part))]
\* After q parts from j on.
PartsSoFar(c, part, j, a, q) ==
    Collected(AsValues(c), Keep(c, 0, j + part * q), AsList(a.buf, a.at), j + part * q)

Parts == INSTANCE Folding WITH Op <- PartStep, Inv <- PartsSoFar

\* A part of the addresses of a vector, stored in as many lanes as it has or in all of them.
LEMMA PartStored ==
    ASSUME NEW c, IsCall(c), NEW part \in Nat, NEW j \in Nat, NEW q \in Nat, j + part * q + part <= c.n,
           NEW a, PartsSoFar(c, part, j, a, q)
    PROVE  PartsSoFar(c, part, j, PartStep(c, part, a, j + part * q), q + 1)
  <1> DEFINE i  == j + part * q
             is == Bits(c, i, part)
             v  == AsValues(c)
             b  == AsList(a.buf, a.at)
             T  == Keep(c, i, i + part)
  <1>0. i \in Nat /\ j + part * (q + 1) = i + part /\ i + part <= c.n
    <2>1. part * q \in Nat /\ part * (q + 1) = part * q + part
      OBVIOUS
    <2> DEFINE pq == part * q
    <2> HIDE DEF pq
    <2>2. pq \in Nat /\ part * (q + 1) = pq + part /\ i = j + pq /\ i + part <= c.n
      BY <2>1 DEF pq
    <2> HIDE DEF i
    <2> QED
      BY <2>2
  <1> HIDE DEF i
  <1>1. Collected(v, Keep(c, 0, i), b, i)
    BY DEF PartsSoFar, i
  <1>2. Ordered(is, T) /\ Len(is) <= part
    BY <1>0, BitsOrdered
  <1>3. T \subseteq i .. i + part - 1
    BY <1>0, KeepWithin
  <1>4. v.i0 = c.i0 /\ c.i0 \in Nat /\ c.n \in Nat
    BY DEF AsValues, IsCall
  <1>5. ASSUME NEW x \in T PROVE v.px[x] = c.i0 + x /\ v.px[x] \in Int
    <2>1. x \in 0 .. c.n - 1
      BY <1>0, <1>3, <1>4
    <2>2. v.px = [y \in 0 .. c.n - 1 |-> c.i0 + y]
      BY DEF AsValues
    <2>3. v.px[x] = c.i0 + x
      BY <2>1, <2>2
    <2> QED
      BY <1>4, <2>1, <2>3
  <1> HIDE DEF v, b, T
  <1>6. Collected(v, Keep(c, 0, i) \cup T, PushWide(b, v, is, part), i + part)
    BY <1>0, <1>1, <1>2, <1>3, <1>4, <1>5, PushWideCollects
  <1>7. Keep(c, 0, i) \cup T = Keep(c, 0, i + part)
    <2>1. Keep(c, 0, i) \cup Keep(c, i, i + part) = Keep(c, 0, i + part)
      BY <1>0, KeepMore, Zenon
    <2> QED
      BY <2>1, Zenon DEF T
  <1>8. Addresses(v, is) = Addresses(c, is)
    BY <1>4 DEF Addresses
  <1>9. Values(v, is) = Addresses(c, is)
    <2>1. is \in Seq(Nat) /\ DOMAIN is = 1 .. Len(is) /\ \A k \in 1 .. Len(is) : is[k] \in T
      BY <1>2 DEF Ordered
    <2>2. \A k \in DOMAIN is : v.px[is[k]] = c.i0 + is[k]
      BY <1>5, <2>1
    <2> QED
      BY <2>2 DEF Values, Addresses
  <1>10. b.vals = a.buf /\ b.adr = a.buf /\ b.n = a.at
    BY DEF b, AsList
  <1> DEFINE s == PartStep(c, part, a, i)
             z == Wide(Addresses(c, is), part)
  <1>11. s.buf = Store(a.buf, a.at, z) /\ s.at = a.at + Len(is)
    BY DEF PartStep
  <1>12. PushWide(b, v, is, part) = AsList(s.buf, s.at)
    <2>1. PushWide(b, v, is, part) = [vals |-> Store(b.vals, b.n, Wide(Values(v, is), part)),
             adr |-> Store(b.adr, b.n, Wide(Addresses(v, is), part)), n |-> b.n + Len(is)]
      BY DEF PushWide
    <2> HIDE DEF is, s
    <2> QED
      BY <1>8, <1>9, <1>10, <1>11, <2>1 DEF AsList
  <1> HIDE DEF s
  <1>13. Collected(v, Keep(c, 0, i + part), AsList(s.buf, s.at), i + part)
    BY <1>6, <1>7, <1>12
  <1>14. PartsSoFar(c, part, j, s, q + 1)
    BY <1>0, <1>13 DEF PartsSoFar, v
  <1> QED
    BY <1>14 DEF s, i

\* The list whose values alone are asked for, as one of addresses.
LEMMA AsValuesCollected ==
    ASSUME NEW c, IsCall(c), NEW S, NEW o, NEW j \in Nat, j <= c.n, Collected(c, S, o, j)
    PROVE  Collected(AsValues(c), S, AsList(o.adr, o.n), j)
  <1> DEFINE b == AsList(o.adr, o.n)
             v == AsValues(c)
  <1>1. b.vals = o.adr /\ b.adr = o.adr /\ b.n = o.n /\ b \in [vals : Seq(Int), adr : Seq(Int), n : Nat]
    BY DEF AsList, Collected
  <1>2. v.i0 = c.i0 /\ v.px = [x \in 0 .. c.n - 1 |-> c.i0 + x]
    BY DEF AsValues
  <1> HIDE DEF b, v
  <1>3. ASSUME NEW k \in 1 .. o.n PROVE o.adr[k] - c.i0 \in S /\ o.adr[k] = v.px[o.adr[k] - c.i0]
    <2> DEFINE x == o.adr[k] - c.i0
    <2>1. x \in S /\ S \subseteq 0 .. j - 1 /\ o.adr \in Seq(Int) /\ o.n \in Nat /\ o.n <= Len(o.adr)
      BY DEF Collected
    <2>2. o.adr[k] \in Int /\ c.i0 \in Int /\ c.n \in Nat
      BY <2>1 DEF IsCall
    <2>3. c.i0 + x = o.adr[k]
      BY <2>2
    <2> HIDE DEF x
    <2>4. x \in 0 .. c.n - 1
      BY <2>1, <2>2
    <2> QED
      BY <1>2, <2>1, <2>3, <2>4 DEF x
  <1>4. Collected(v, S, b, j)
    BY <1>1, <1>2, <1>3 DEF Collected
  <1> QED
    BY <1>4 DEF b, v

\* The w pixels from j on, their addresses in m parts.
LEMMA PartsPushed ==
    ASSUME NEW c, IsCall(c), NEW o, NEW j \in Nat, NEW w \in Nat, j + w <= c.n, SoFar(c, o, j),
           NEW part \in Nat, NEW m \in Nat, w = part * m, w \div part = m
    PROVE  SoFar(c, PushParts(o, c, j, w, part), j + w)
  <1> DEFINE base == [buf |-> o.adr, at |-> o.n]
             s    == [q \in 1 .. m |-> j + part * (q - 1)]
             t    == [q \in 1 .. w \div part |-> j + part * (q - 1)]
             r    == Parts!Fold(c, part, base, s)
             is   == Bits(c, j, w)
             p    == PushWide(o, c, is, w)
  <1>1. PushParts(o, c, j, w, part) = [vals |-> p.vals, adr |-> r.buf, n |-> r.at]
    <2>1. PushParts(o, c, j, w, part) = [vals |-> Store(o.vals, o.n, Wide(Values(c, is), w)),
                                         adr |-> r.buf, n |-> r.at]
      <3>1. PushParts(o, c, j, w, part) = [vals |-> Store(o.vals, o.n, Wide(Values(c, is), w)),
                                           adr |-> Parts!Fold(c, part, base, t).buf,
                                           n |-> Parts!Fold(c, part, base, t).at]
        BY Zenon DEF PushParts, PushLanes, Parts!Fold, FoldLeft, MapThenFoldSet, Max, Parts!Greatest, PartStep
      <3>2. t = s
        OBVIOUS
      <3> QED
        BY <3>1, <3>2, Zenon
    <2>2. p.vals = Store(o.vals, o.n, Wide(Values(c, is), w))
      BY DEF PushWide
    <2> HIDE DEF r, is, p
    <2> QED
      BY <2>1, <2>2
  <1>2. SoFar(c, p, j + w)
    BY BitsPushed
  <1>3. PartsSoFar(c, part, j, base, 0)
    <2>1. c.n \in Nat /\ j <= c.n
      BY DEF IsCall
    <2>2. Collected(AsValues(c), Keep(c, 0, j), AsList(o.adr, o.n), j)
      BY <2>1, AsValuesCollected DEF SoFar
    <2>3. base.buf = o.adr /\ base.at = o.n /\ j + part * 0 = j
      OBVIOUS
    <2> HIDE DEF base
    <2> QED
      BY <2>2, <2>3 DEF PartsSoFar
  <1> HIDE DEF base, p, is
  <1>4. ASSUME NEW q \in 1 .. m, NEW a, PartsSoFar(c, part, j, a, q - 1)
        PROVE  PartsSoFar(c, part, j, PartStep(c, part, a, s[q]), q)
    <2> DEFINE l == q - 1
    <2>1. l \in Nat /\ l + 1 = q /\ l + 1 <= m
      OBVIOUS
    <2>2. s[q] = j + part * l
      OBVIOUS
    <2> HIDE DEF l, s
    <2>3. part * (l + 1) <= part * m /\ part * (l + 1) = part * l + part /\ part * l \in Nat
      BY <2>1
    <2>4. j + part * l + part <= c.n
      BY <2>3 DEF IsCall
    <2>5. PartsSoFar(c, part, j, PartStep(c, part, a, j + part * l), l + 1)
      BY <1>4, <2>1, <2>4, PartStored DEF l
    <2> QED
      BY <2>1, <2>2, <2>5
  <1>5. DOMAIN s = 1 .. m
    OBVIOUS
  <1> HIDE DEF s
  <1>ind. Parts!Counted
    BY NumbersAreCounted, Zenon DEF Parts!Counted
  <1>6. PartsSoFar(c, part, j, r, m)
    BY <1>3, <1>4, <1>5, <1>ind, Parts!FoldKeeps
  <1> HIDE DEF r
  <1>7. Collected(AsValues(c), Keep(c, 0, j + w), AsList(r.buf, r.at), j + w)
    BY <1>6 DEF PartsSoFar
  <1>8. Collected(c, Keep(c, 0, j + w), [vals |-> p.vals, adr |-> r.buf, n |-> r.at], j + w)
    <2>1. j + w \in Nat /\ c.i0 \in Nat
      BY DEF IsCall
    <2>2. Collected(c, Keep(c, 0, j + w), p, j + w)
      BY <1>2 DEF SoFar
    <2> QED
      BY <1>7, <2>1, <2>2, PartsTogether
  <1> QED
    BY <1>1, <1>8 DEF SoFar

-----------------------------------------------------------------------------
(* The tiers by vectors. *)

\* After k vectors of w pixels.
VectorsSoFar(c, d, w, o, k) == SoFar(c, o, w * k)
Starts(c, w) == [q \in 1 .. c.n \div w |-> w * (q - 1)]

\* The vectors of a block and what is left behind them.
LEMMA StartsFacts ==
    ASSUME NEW c, c.n \in Nat, NEW w \in Nat \ {0}
    PROVE  /\ c.n \div w \in Nat /\ DOMAIN Starts(c, w) = 1 .. c.n \div w
           /\ c.n % w \in Nat /\ c.n - (c.n % w) = w * (c.n \div w)
           /\ \A k \in 1 .. c.n \div w : /\ Starts(c, w)[k] = w * (k - 1) /\ w * (k - 1) \in Nat
                                         /\ w * (k - 1) + w = w * k /\ w * k <= c.n
  <1> DEFINE n == c.n
             m == n \div w
             r == n % w
  <1>1. n \in Nat
    OBVIOUS
  <1> HIDE DEF n
  <1>2. m \in Nat /\ r \in Nat /\ n = w * m + r
    BY <1>1
  <1> HIDE DEF m, r
  <1>3. w * m \in Nat
    BY <1>2
  <1>4. n - r = w * m
    BY <1>2, <1>3
  <1>5. ASSUME NEW k \in 1 .. m
        PROVE  w * (k - 1) \in Nat /\ w * (k - 1) + w = w * k /\ w * k <= n
    <2>1. w * (k - 1) \in Nat /\ w * (k - 1) + w = w * k
      BY <1>2
    <2>2. w * k <= w * m /\ w * k \in Nat
      BY <1>2
    <2> QED
      BY <1>1, <1>2, <1>3, <2>1, <2>2
  <1>6. DOMAIN Starts(c, w) = 1 .. m /\ \A k \in 1 .. m : Starts(c, w)[k] = w * (k - 1)
    BY DEF Starts, m, n
  <1> QED
    BY <1>2, <1>4, <1>5, <1>6 DEF m, r, n

\* No vector done yet.
LEMMA NoVectors ==
    ASSUME NEW c, NEW d, NEW w \in Nat
    PROVE  VectorsSoFar(c, d, w, Empty, 0)
  <1>1. Keep(c, 0, 0) = {} /\ w * 0 = 0
    BY DEF Keep
  <1> QED
    BY <1>1, CollectedNothing DEF VectorsSoFar, SoFar

\* The scalar loop over what is left.
LEMMA RestPushed ==
    ASSUME NEW c, IsCall(c), NEW d, NEW w \in Nat \ {0}, NEW o, VectorsSoFar(c, d, w, o, c.n \div w)
    PROVE  SoFar(c, Push(o, c, Bits(c, c.n - (c.n % w), c.n % w)), c.n)
  <1> DEFINE r == c.n % w
             j == c.n - r
  <1>1. c.n \in Nat
    BY DEF IsCall
  <1>2. r \in Nat /\ j = w * (c.n \div w) /\ j \in Nat
    <2>1. r \in Nat /\ j = w * (c.n \div w) /\ c.n \div w \in Nat
      BY <1>1, StartsFacts
    <2> DEFINE m == c.n \div w
    <2> HIDE DEF r, j, m
    <2>2. w * m \in Nat
      BY <2>1 DEF m
    <2> QED
      BY <2>1, <2>2 DEF m
  <1>3. SoFar(c, o, j)
    BY <1>2 DEF VectorsSoFar
  <1>4. j + r = c.n
    BY <1>1, <1>2
  <1> HIDE DEF r, j
  <1>5. SoFar(c, Push(o, c, Bits(c, j, r)), j + r)
    BY <1>1, <1>2, <1>3, <1>4, BitsPushed
  <1> QED
    BY <1>4, <1>5 DEF r, j

-----------------------------------------------------------------------------

Avx512u16Step(c, d, o, j) == IF Bits(c, j, 8) = <<>> THEN o ELSE PushParts(o, c, j, 8, 4)
Avx512u16 == INSTANCE Folding WITH Op <- Avx512u16Step, Inv <- VectorsSoFar

\* What this tier does with one vector keeps the list.
LEMMA Avx512u16Vector ==
    ASSUME NEW c, IsCall(c), NEW a, NEW j \in Nat, j + 8 <= c.n, SoFar(c, a, j)
    PROVE  SoFar(c, Avx512u16Step(c, 0, a, j), j + 8)
  <1>1. CASE Bits(c, j, 8) = <<>>
    BY <1>1, NoBits, GroupSkipped DEF Avx512u16Step
  <1>2. CASE Bits(c, j, 8) # <<>>
    <2>1. 8 = 4 * 2 /\ 8 \div 4 = 2
      OBVIOUS
    <2>2. SoFar(c, PushParts(a, c, j, 8, 4), j + 8)
      BY <2>1, PartsPushed
    <2> QED
      BY <1>2, <2>2 DEF Avx512u16Step
  <1> QED
    BY <1>1, <1>2

\* All its vectors, then the scalar loop.
LEMMA Avx512u16Vectors ==
    ASSUME NEW c, IsCall(c)
    PROVE  SoFar(c, Push(Avx512u16!Fold(c, 0, Empty, Starts(c, 8)), c, Bits(c, c.n - (c.n % 8), c.n % 8)), c.n)
  <1> DEFINE o == Avx512u16!Fold(c, 0, Empty, Starts(c, 8))
  <1>1. c.n \in Nat /\ 8 \in Nat \ {0} /\ IsCall(c)
    BY DEF IsCall
  <1>2. ASSUME NEW k \in 1 .. c.n \div 8, NEW a, VectorsSoFar(c, 0, 8, a, k - 1)
        PROVE  VectorsSoFar(c, 0, 8, Avx512u16Step(c, 0, a, Starts(c, 8)[k]), k)
    <2> DEFINE j == 8 * (k - 1)
    <2>1. Starts(c, 8)[k] = j /\ j \in Nat /\ j + 8 = 8 * k /\ j + 8 <= c.n
      BY <1>1, StartsFacts
    <2>2. SoFar(c, a, j)
      BY <1>2 DEF VectorsSoFar
    <2> HIDE DEF j
    <2>3. SoFar(c, Avx512u16Step(c, 0, a, j), j + 8)
      BY <2>1, <2>2, Avx512u16Vector
    <2> QED
      BY <2>1, <2>3 DEF VectorsSoFar
  <1>ind. Avx512u16!Counted
    BY NumbersAreCounted, Zenon DEF Avx512u16!Counted
  <1>3. VectorsSoFar(c, 0, 8, o, c.n \div 8)
    BY <1>1, <1>2, NoVectors, StartsFacts, <1>ind, Avx512u16!FoldKeeps
  <1> HIDE DEF o
  <1>4. SoFar(c, Push(o, c, Bits(c, c.n - (c.n % 8), c.n % 8)), c.n)
    BY <1>1, <1>3, RestPushed
  <1> QED
    BY <1>4 DEF o

\* collect_avx512cs_u16 of collect.hpp lists the selected pixels of the block.
LEMMA collect_avx512cs_u16_lists ==
    ASSUME NEW c, IsCall(c)
    PROVE  SoFar(c, collect_avx512cs_u16(c), c.n)
  <1>1. collect_avx512cs_u16(c) = Push(Avx512u16!Fold(c, 0, Empty, Starts(c, 8)), c,
                       Bits(c, c.n - (c.n % 8), c.n % 8))
    BY DEF collect_avx512cs_u16, ByVectors, Avx512u16!Fold, FoldLeft, MapThenFoldSet,
           Max, Avx512u16!Greatest, Avx512u16Step, Starts
  <1> QED
    BY <1>1, Avx512u16Vectors

-----------------------------------------------------------------------------

Avx512u32Step(c, d, o, j) == IF Bits(c, j, 4) = <<>> THEN o ELSE PushWide(o, c, Bits(c, j, 4), 4)
Avx512u32 == INSTANCE Folding WITH Op <- Avx512u32Step, Inv <- VectorsSoFar

\* What this tier does with one vector keeps the list.
LEMMA Avx512u32Vector ==
    ASSUME NEW c, IsCall(c), NEW a, NEW j \in Nat, j + 4 <= c.n, SoFar(c, a, j)
    PROVE  SoFar(c, Avx512u32Step(c, 0, a, j), j + 4)
  <1>1. CASE Bits(c, j, 4) = <<>>
    BY <1>1, NoBits, GroupSkipped DEF Avx512u32Step
  <1>2. CASE Bits(c, j, 4) # <<>>
    BY <1>2, BitsPushed DEF Avx512u32Step
  <1> QED
    BY <1>1, <1>2

\* All its vectors, then the scalar loop.
LEMMA Avx512u32Vectors ==
    ASSUME NEW c, IsCall(c)
    PROVE  SoFar(c, Push(Avx512u32!Fold(c, 0, Empty, Starts(c, 4)), c, Bits(c, c.n - (c.n % 4), c.n % 4)), c.n)
  <1> DEFINE o == Avx512u32!Fold(c, 0, Empty, Starts(c, 4))
  <1>1. c.n \in Nat /\ 4 \in Nat \ {0} /\ IsCall(c)
    BY DEF IsCall
  <1>2. ASSUME NEW k \in 1 .. c.n \div 4, NEW a, VectorsSoFar(c, 0, 4, a, k - 1)
        PROVE  VectorsSoFar(c, 0, 4, Avx512u32Step(c, 0, a, Starts(c, 4)[k]), k)
    <2> DEFINE j == 4 * (k - 1)
    <2>1. Starts(c, 4)[k] = j /\ j \in Nat /\ j + 4 = 4 * k /\ j + 4 <= c.n
      BY <1>1, StartsFacts
    <2>2. SoFar(c, a, j)
      BY <1>2 DEF VectorsSoFar
    <2> HIDE DEF j
    <2>3. SoFar(c, Avx512u32Step(c, 0, a, j), j + 4)
      BY <2>1, <2>2, Avx512u32Vector
    <2> QED
      BY <2>1, <2>3 DEF VectorsSoFar
  <1>ind. Avx512u32!Counted
    BY NumbersAreCounted, Zenon DEF Avx512u32!Counted
  <1>3. VectorsSoFar(c, 0, 4, o, c.n \div 4)
    BY <1>1, <1>2, NoVectors, StartsFacts, <1>ind, Avx512u32!FoldKeeps
  <1> HIDE DEF o
  <1>4. SoFar(c, Push(o, c, Bits(c, c.n - (c.n % 4), c.n % 4)), c.n)
    BY <1>1, <1>3, RestPushed
  <1> QED
    BY <1>4 DEF o

\* collect_avx512cs_u32 of collect.hpp lists the selected pixels of the block.
LEMMA collect_avx512cs_u32_lists ==
    ASSUME NEW c, IsCall(c)
    PROVE  SoFar(c, collect_avx512cs_u32(c), c.n)
  <1>1. collect_avx512cs_u32(c) = Push(Avx512u32!Fold(c, 0, Empty, Starts(c, 4)), c,
                       Bits(c, c.n - (c.n % 4), c.n % 4))
    BY DEF collect_avx512cs_u32, ByVectors, Avx512u32!Fold, FoldLeft, MapThenFoldSet,
           Max, Avx512u32!Greatest, Avx512u32Step, Starts
  <1> QED
    BY <1>1, Avx512u32Vectors

-----------------------------------------------------------------------------

\* A call whose pixels and cut have the width of a lane.
IsWordCall(c) == IsCall(c) /\ c.cut \in 0 .. Word - 1 /\ \A i \in 0 .. c.n - 1 : c.px[i] \in 0 .. Word - 1

\* Signed lanes select what unsigned ones would, in a call for pixels of the width of a lane.
LEMMA WordBits ==
    ASSUME NEW c, IsWordCall(c), NEW j \in Nat, NEW w \in Nat, j + w <= c.n
    PROVE  BiasedBits(c, j, w) = Bits(c, j, w)
  <1>1. ASSUME NEW i \in j .. j + w - 1 PROVE c.px[i] \in 0 .. Word - 1
    <2>1. i \in 0 .. c.n - 1
      BY DEF IsWordCall, IsCall
    <2> QED
      BY <2>1 DEF IsWordCall
  <1> QED
    BY <1>1, BiasedBitsAreBits DEF IsWordCall

-----------------------------------------------------------------------------

BiasedStep(c, d, o, j) == Push(o, c, BiasedBits(c, j, d))
Biased == INSTANCE Folding WITH Op <- BiasedStep, Inv <- VectorsSoFar

\* What this tier does with one vector keeps the list.
LEMMA BiasedVector ==
    ASSUME NEW c, IsWordCall(c), NEW w \in Nat \ {0}, NEW a, NEW j \in Nat, j + w <= c.n, SoFar(c, a, j)
    PROVE  SoFar(c, BiasedStep(c, w, a, j), j + w)
  <1>1. w \in Nat /\ IsCall(c)
    BY DEF IsWordCall
  <1>2. BiasedBits(c, j, w) = Bits(c, j, w)
    BY <1>1, WordBits
  <1>3. SoFar(c, Push(a, c, Bits(c, j, w)), j + w)
    BY <1>1, BitsPushed
  <1> QED
    BY <1>2, <1>3 DEF BiasedStep

\* All its vectors, then the scalar loop.
LEMMA BiasedVectors ==
    ASSUME NEW c, IsWordCall(c), NEW w \in Nat \ {0}
    PROVE  SoFar(c, Push(Biased!Fold(c, w, Empty, Starts(c, w)), c, Bits(c, c.n - (c.n % w), c.n % w)), c.n)
  <1> DEFINE o == Biased!Fold(c, w, Empty, Starts(c, w))
  <1>1. c.n \in Nat /\ w \in Nat \ {0} /\ IsCall(c)
    BY DEF IsCall, IsWordCall
  <1>2. ASSUME NEW k \in 1 .. c.n \div w, NEW a, VectorsSoFar(c, w, w, a, k - 1)
        PROVE  VectorsSoFar(c, w, w, BiasedStep(c, w, a, Starts(c, w)[k]), k)
    <2> DEFINE j == w * (k - 1)
    <2>1. Starts(c, w)[k] = j /\ j \in Nat /\ j + w = w * k /\ j + w <= c.n
      BY <1>1, StartsFacts
    <2>2. SoFar(c, a, j)
      BY <1>2 DEF VectorsSoFar
    <2> HIDE DEF j
    <2>3. SoFar(c, BiasedStep(c, w, a, j), j + w)
      BY <2>1, <2>2, BiasedVector
    <2> QED
      BY <2>1, <2>3 DEF VectorsSoFar
  <1>ind. Biased!Counted
    BY NumbersAreCounted, Zenon DEF Biased!Counted
  <1>3. VectorsSoFar(c, w, w, o, c.n \div w)
    BY <1>1, <1>2, NoVectors, StartsFacts, <1>ind, Biased!FoldKeeps
  <1> HIDE DEF o
  <1>4. SoFar(c, Push(o, c, Bits(c, c.n - (c.n % w), c.n % w)), c.n)
    BY <1>1, <1>3, RestPushed
  <1> QED
    BY <1>4 DEF o

\* collect_avx2cs_u32 of collect.hpp lists the selected pixels of the block.
LEMMA collect_avx2cs_u32_lists ==
    ASSUME NEW c, IsWordCall(c)
    PROVE  SoFar(c, collect_avx2cs_u32(c), c.n)
  <1>1. collect_avx2cs_u32(c) = Push(Biased!Fold(c, 2, Empty, Starts(c, 2)), c,
                       Bits(c, c.n - (c.n % 2), c.n % 2))
    BY DEF collect_avx2cs_u32, ByVectors, Biased!Fold, FoldLeft, MapThenFoldSet,
           Max, Biased!Greatest, BiasedStep, Starts
  <1> QED
    BY <1>1, BiasedVectors

\* collect_sse2_u16 of collect.hpp lists the selected pixels of the block.
LEMMA collect_sse2_u16_lists ==
    ASSUME NEW c, IsWordCall(c)
    PROVE  SoFar(c, collect_sse2_u16(c), c.n)
  <1>1. collect_sse2_u16(c) = Push(Biased!Fold(c, 2, Empty, Starts(c, 2)), c,
                       Bits(c, c.n - (c.n % 2), c.n % 2))
    BY DEF collect_sse2_u16, ByVectors, Biased!Fold, FoldLeft, MapThenFoldSet,
           Max, Biased!Greatest, BiasedStep, Starts
  <1> QED
    BY <1>1, BiasedVectors

\* collect_sse2_u32 of collect.hpp lists the selected pixels of the block.
LEMMA collect_sse2_u32_lists ==
    ASSUME NEW c, IsWordCall(c)
    PROVE  SoFar(c, collect_sse2_u32(c), c.n)
  <1>1. collect_sse2_u32(c) = Push(Biased!Fold(c, 1, Empty, Starts(c, 1)), c,
                       Bits(c, c.n - (c.n % 1), c.n % 1))
    BY DEF collect_sse2_u32, ByVectors, Biased!Fold, FoldLeft, MapThenFoldSet,
           Max, Biased!Greatest, BiasedStep, Starts
  <1> QED
    BY <1>1, BiasedVectors

-----------------------------------------------------------------------------

NeonStep(c, d, o, j) == IF Gated(c, j, d) THEN Push(o, c, Bits(c, j, d)) ELSE o
Neon == INSTANCE Folding WITH Op <- NeonStep, Inv <- VectorsSoFar

\* What this tier does with one vector keeps the list.
LEMMA NeonVector ==
    ASSUME NEW c, IsCall(c), NEW w \in Nat \ {0}, NEW a, NEW j \in Nat, j + w <= c.n, SoFar(c, a, j)
    PROVE  SoFar(c, NeonStep(c, w, a, j), j + w)
  <1>1. CASE Gated(c, j, w)
    BY <1>1, BitsPushed DEF NeonStep
  <1>2. CASE ~ Gated(c, j, w)
    BY <1>2, NotGated, GroupSkipped DEF NeonStep
  <1> QED
    BY <1>1, <1>2

\* All its vectors, then the scalar loop.
LEMMA NeonVectors ==
    ASSUME NEW c, IsCall(c), NEW w \in Nat \ {0}
    PROVE  SoFar(c, Push(Neon!Fold(c, w, Empty, Starts(c, w)), c, Bits(c, c.n - (c.n % w), c.n % w)), c.n)
  <1> DEFINE o == Neon!Fold(c, w, Empty, Starts(c, w))
  <1>1. c.n \in Nat /\ w \in Nat \ {0} /\ IsCall(c)
    BY DEF IsCall
  <1>2. ASSUME NEW k \in 1 .. c.n \div w, NEW a, VectorsSoFar(c, w, w, a, k - 1)
        PROVE  VectorsSoFar(c, w, w, NeonStep(c, w, a, Starts(c, w)[k]), k)
    <2> DEFINE j == w * (k - 1)
    <2>1. Starts(c, w)[k] = j /\ j \in Nat /\ j + w = w * k /\ j + w <= c.n
      BY <1>1, StartsFacts
    <2>2. SoFar(c, a, j)
      BY <1>2 DEF VectorsSoFar
    <2> HIDE DEF j
    <2>3. SoFar(c, NeonStep(c, w, a, j), j + w)
      BY <2>1, <2>2, NeonVector
    <2> QED
      BY <2>1, <2>3 DEF VectorsSoFar
  <1>ind. Neon!Counted
    BY NumbersAreCounted, Zenon DEF Neon!Counted
  <1>3. VectorsSoFar(c, w, w, o, c.n \div w)
    BY <1>1, <1>2, NoVectors, StartsFacts, <1>ind, Neon!FoldKeeps
  <1> HIDE DEF o
  <1>4. SoFar(c, Push(o, c, Bits(c, c.n - (c.n % w), c.n % w)), c.n)
    BY <1>1, <1>3, RestPushed
  <1> QED
    BY <1>4 DEF o

\* collect_neon_u16 of collect.hpp lists the selected pixels of the block.
LEMMA collect_neon_u16_lists ==
    ASSUME NEW c, IsCall(c)
    PROVE  SoFar(c, collect_neon_u16(c), c.n)
  <1>1. collect_neon_u16(c) = Push(Neon!Fold(c, 2, Empty, Starts(c, 2)), c,
                       Bits(c, c.n - (c.n % 2), c.n % 2))
    BY DEF collect_neon_u16, ByVectors, Neon!Fold, FoldLeft, MapThenFoldSet,
           Max, Neon!Greatest, NeonStep, Starts
  <1> QED
    BY <1>1, NeonVectors

\* collect_neon_u32 of collect.hpp lists the selected pixels of the block.
LEMMA collect_neon_u32_lists ==
    ASSUME NEW c, IsCall(c)
    PROVE  SoFar(c, collect_neon_u32(c), c.n)
  <1>1. collect_neon_u32(c) = Push(Neon!Fold(c, 1, Empty, Starts(c, 1)), c,
                       Bits(c, c.n - (c.n % 1), c.n % 1))
    BY DEF collect_neon_u32, ByVectors, Neon!Fold, FoldLeft, MapThenFoldSet,
           Max, Neon!Greatest, NeonStep, Starts
  <1> QED
    BY <1>1, NeonVectors

-----------------------------------------------------------------------------
(* AVX2, 16 bit: the table of lanes. *)

Avx2Half(o, c, j, all) ==
    LET lanes == avx2cs_lut[{b \in 0 .. 1 : \E k \in DOMAIN all : all[k] = j + b}]
    IN  PushWide(o, c, [k \in DOMAIN lanes |-> j + lanes[k]], 2)

\* The set bits of one half, packed to the front.
LEMMA HalfPushed ==
    ASSUME NEW c, IsCall(c), NEW o, NEW j \in Nat, j + 2 <= c.n, SoFar(c, o, j),
           NEW all, NEW T, Ordered(all, T), \A x \in j .. j + 1 : x \in T <=> x \in Keep(c, j, j + 2)
    PROVE  SoFar(c, Avx2Half(o, c, j, all), j + 2)
  <1> DEFINE m == {b \in 0 .. 1 : \E k \in DOMAIN all : all[k] = j + b}
             lanes == Picked(Lanes(0, 2), m)
             is == [k \in DOMAIN lanes |-> j + lanes[k]]
  <1>1. m \subseteq 0 .. 0 + 2 - 1
    OBVIOUS
  <1>2. Ordered(lanes, m) /\ Len(lanes) <= 2
    BY <1>1, LanesPicked
  <1>3. avx2cs_lut[m] = lanes
    BY DEF avx2cs_lut
  <1>4. DOMAIN all = 1 .. Len(all)
    BY DEF Ordered
  <1>5. ASSUME NEW b \in 0 .. 1 PROVE b \in m <=> j + b \in Keep(c, j, j + 2)
    <2>1. j + b \in j .. j + 1
      OBVIOUS
    <2>2. (\E k \in DOMAIN all : all[k] = j + b) <=> j + b \in T
      BY <1>4 DEF Ordered
    <2> QED
      BY <2>1, <2>2
  <1> HIDE DEF m, lanes
  <1>6. lanes \in Seq(Nat) /\ DOMAIN lanes = 1 .. Len(lanes) /\ Len(lanes) \in Nat
    BY <1>2 DEF Ordered
  <1>7. is \in Seq(Nat) /\ Len(is) = Len(lanes) /\ \A k \in 1 .. Len(is) : is[k] = j + lanes[k]
    BY <1>6
  <1>8. \A k \in 1 .. Len(lanes) : lanes[k] \in m /\ lanes[k] \in 0 .. 1
    <2>1. ASSUME NEW k \in 1 .. Len(lanes) PROVE lanes[k] \in m
      BY <1>2 DEF Ordered
    <2>2. ASSUME NEW k \in 1 .. Len(lanes) PROVE lanes[k] \in 0 .. 1
      <3>1. lanes[k] \in m
        BY <2>1
      <3>2. \A x \in m : x \in 0 .. 1
        BY <1>1
      <3> QED
        BY <3>1, <3>2
    <2> QED
      BY <2>1, <2>2
  <1> HIDE DEF is
  <1>9. Ordered(is, Keep(c, j, j + 2))
    <2>1. \A k \in 1 .. Len(is) : is[k] \in Keep(c, j, j + 2)
      BY <1>5, <1>7, <1>8
    <2>2. ASSUME NEW x \in Keep(c, j, j + 2) PROVE \E k \in 1 .. Len(is) : is[k] = x
      <3> DEFINE b == x - j
      <3>1. b \in 0 .. 1 /\ x = j + b
        BY DEF Keep
      <3> HIDE DEF b
      <3>2. b \in m
        BY <1>5, <3>1
      <3>3. PICK k \in 1 .. Len(lanes) : lanes[k] = b
        BY <1>2, <3>2 DEF Ordered
      <3> QED
        BY <1>7, <3>1, <3>3
    <2>3. ASSUME NEW k \in 1 .. Len(is), NEW l \in 1 .. Len(is), k < l PROVE is[k] < is[l]
      <3>1. lanes[k] < lanes[l] /\ lanes[k] \in 0 .. 1 /\ lanes[l] \in 0 .. 1
        BY <1>2, <1>7, <1>8, <2>3 DEF Ordered
      <3> QED
        BY <1>7, <3>1
    <2> QED
      BY <1>7, <2>1, <2>2, <2>3 DEF Ordered
  <1>10. Len(is) <= 2
    BY <1>2, <1>7
  <1>11. SoFar(c, PushWide(o, c, is, 2), j + 2)
    BY <1>9, <1>10, GroupPushed
  <1>12. Avx2Half(o, c, j, all) = PushWide(o, c, [k \in DOMAIN lanes |-> j + lanes[k]], 2)
    BY <1>3 DEF Avx2Half, m
  <1> QED
    BY <1>11, <1>12 DEF is

-----------------------------------------------------------------------------

Avx2u16Step(c, d, o, j) == 
    LET all == BiasedBits(c, j, 4)
    IN  IF Len(all) <= ScalarMax THEN Push(o, c, all)
        ELSE Avx2Half(Avx2Half(o, c, j, all), c, j + 2, all)
Avx2u16 == INSTANCE Folding WITH Op <- Avx2u16Step, Inv <- VectorsSoFar

\* What this tier does with one vector keeps the list.
LEMMA Avx2u16Vector ==
    ASSUME NEW c, IsWordCall(c), NEW a, NEW j \in Nat, j + 4 <= c.n, SoFar(c, a, j)
    PROVE  SoFar(c, Avx2u16Step(c, 0, a, j), j + 4)
  <1> DEFINE all == Bits(c, j, 4)
             T   == Keep(c, j, j + 4)
             one == Avx2Half(a, c, j, all)
             two == Avx2Half(one, c, j + 2, all)
  <1>1. IsCall(c) /\ c.n \in Nat
    BY DEF IsWordCall, IsCall
  <1>2. BiasedBits(c, j, 4) = all
    BY WordBits
  <1>3. Ordered(all, T)
    BY BitsOrdered
  <1>4. SoFar(c, Push(a, c, all), j + 4)
    BY <1>1, BitsPushed
  <1> HIDE DEF all
  <1>5. \A x \in j .. j + 1 : x \in T <=> x \in Keep(c, j, j + 2)
    BY DEF Keep
  <1>6. \A x \in j + 2 .. (j + 2) + 1 : x \in T <=> x \in Keep(c, j + 2, (j + 2) + 2)
    BY DEF Keep
  <1> HIDE DEF T
  <1>7. j + 2 \in Nat /\ j + 2 <= c.n /\ (j + 2) + 2 <= c.n /\ (j + 2) + 2 = j + 4
    BY <1>1
  <1>8. SoFar(c, one, j + 2)
    BY <1>1, <1>3, <1>5, <1>7, HalfPushed
  <1> HIDE DEF one
  <1>9. SoFar(c, two, (j + 2) + 2)
    BY <1>1, <1>3, <1>6, <1>7, <1>8, HalfPushed
  <1> HIDE DEF two
  <1>10. Avx2u16Step(c, 0, a, j) = IF Len(all) <= ScalarMax THEN Push(a, c, all) ELSE two
    BY <1>2 DEF Avx2u16Step, two, one
  <1> QED
    BY <1>4, <1>7, <1>9, <1>10

\* All its vectors, then the scalar loop.
LEMMA Avx2u16Vectors ==
    ASSUME NEW c, IsWordCall(c)
    PROVE  SoFar(c, Push(Avx2u16!Fold(c, 0, Empty, Starts(c, 4)), c, Bits(c, c.n - (c.n % 4), c.n % 4)), c.n)
  <1> DEFINE o == Avx2u16!Fold(c, 0, Empty, Starts(c, 4))
  <1>1. c.n \in Nat /\ 4 \in Nat \ {0} /\ IsCall(c)
    BY DEF IsCall, IsWordCall
  <1>2. ASSUME NEW k \in 1 .. c.n \div 4, NEW a, VectorsSoFar(c, 0, 4, a, k - 1)
        PROVE  VectorsSoFar(c, 0, 4, Avx2u16Step(c, 0, a, Starts(c, 4)[k]), k)
    <2> DEFINE j == 4 * (k - 1)
    <2>1. Starts(c, 4)[k] = j /\ j \in Nat /\ j + 4 = 4 * k /\ j + 4 <= c.n
      BY <1>1, StartsFacts
    <2>2. SoFar(c, a, j)
      BY <1>2 DEF VectorsSoFar
    <2> HIDE DEF j
    <2>3. SoFar(c, Avx2u16Step(c, 0, a, j), j + 4)
      BY <2>1, <2>2, Avx2u16Vector
    <2> QED
      BY <2>1, <2>3 DEF VectorsSoFar
  <1>ind. Avx2u16!Counted
    BY NumbersAreCounted, Zenon DEF Avx2u16!Counted
  <1>3. VectorsSoFar(c, 0, 4, o, c.n \div 4)
    BY <1>1, <1>2, NoVectors, StartsFacts, <1>ind, Avx2u16!FoldKeeps
  <1> HIDE DEF o
  <1>4. SoFar(c, Push(o, c, Bits(c, c.n - (c.n % 4), c.n % 4)), c.n)
    BY <1>1, <1>3, RestPushed
  <1> QED
    BY <1>4 DEF o

\* collect_avx2cs_u16 of collect.hpp lists the selected pixels of the block.
LEMMA collect_avx2cs_u16_lists ==
    ASSUME NEW c, IsWordCall(c)
    PROVE  SoFar(c, collect_avx2cs_u16(c), c.n)
  <1>1. collect_avx2cs_u16(c) = Push(Avx2u16!Fold(c, 0, Empty, Starts(c, 4)), c,
                       Bits(c, c.n - (c.n % 4), c.n % 4))
    BY DEF collect_avx2cs_u16, ByVectors, Avx2u16!Fold, FoldLeft, MapThenFoldSet,
           Max, Avx2u16!Greatest, Avx2u16Step, Avx2Half, Starts
  <1> QED
    BY <1>1, Avx2u16Vectors

-----------------------------------------------------------------------------
(* VSX: windows, each by the gated vectors or by the scalar loop. *)

VsxVector(c, w, kept, i) == IF Gated(c, i, w) THEN kept \o Bits(c, i, w) ELSE kept
KeptSoFar(c, w, j, kept, k) == Ordered(kept, Keep(c, j, j + w * k)) /\ Len(kept) <= w * k
VsxVectors == INSTANCE Folding WITH Op <- VsxVector, Inv <- KeptSoFar
VsxSparse(c, w, j, len) == VsxVectors!Fold(c, w, <<>>, [q \in 1 .. len \div w |-> j + w * (q - 1)])

\* Two lists in order, the second of later pixels, make one.
LEMMA OrderedJoined ==
    ASSUME NEW c, NEW j \in Nat, NEW i \in Nat, NEW e \in Nat, j <= i, i <= e, NEW a, NEW b,
           Ordered(a, Keep(c, j, i)), Ordered(b, Keep(c, i, e))
    PROVE  Ordered(a \o b, Keep(c, j, e)) /\ Len(a \o b) = Len(a) + Len(b)
  <1> DEFINE ab == a \o b
             S  == Keep(c, j, i)
             T  == Keep(c, i, e)
             U  == Keep(c, j, e)
  <1>1. a \in Seq(Nat) /\ b \in Seq(Nat) /\ Len(a) \in Nat /\ Len(b) \in Nat
    BY DEF Ordered
  <1>2. ab \in Seq(Nat) /\ Len(ab) = Len(a) + Len(b)
    BY <1>1
  <1>3. \A k \in 1 .. Len(a) : ab[k] = a[k]
    BY <1>1
  <1>4. \A k \in 1 .. Len(b) : ab[Len(a) + k] = b[k]
    BY <1>1
  <1>5. (\A x : x \in U <=> x \in S \/ x \in T) /\ (\A x \in S : x < i) /\ \A x \in T : x >= i
    BY DEF Keep
  <1>6. (\A k \in 1 .. Len(a) : a[k] \in S) /\ (\A x \in S : \E k \in 1 .. Len(a) : a[k] = x)
        /\ \A k, l \in 1 .. Len(a) : k < l => a[k] < a[l]
    BY DEF Ordered
  <1>7. (\A k \in 1 .. Len(b) : b[k] \in T) /\ (\A x \in T : \E k \in 1 .. Len(b) : b[k] = x)
        /\ \A k, l \in 1 .. Len(b) : k < l => b[k] < b[l]
    BY DEF Ordered
  <1>8. \A k \in 1 .. Len(a) : a[k] \in Nat
    BY <1>1
  <1>9. \A k \in 1 .. Len(b) : b[k] \in Nat
    BY <1>1
  <1> HIDE DEF ab, S, T, U
  <1>10. ASSUME NEW k \in 1 .. Len(ab), ~ (k <= Len(a))
         PROVE  k - Len(a) \in 1 .. Len(b) /\ ab[k] = b[k - Len(a)]
    <2>1. k - Len(a) \in 1 .. Len(b) /\ Len(a) + (k - Len(a)) = k
      BY <1>1, <1>2, <1>10
    <2> QED
      BY <1>4, <2>1
  <1>11. ASSUME NEW k \in 1 .. Len(ab) PROVE ab[k] \in U
    <2>1. CASE k <= Len(a)
      <3>1. k \in 1 .. Len(a)
        BY <1>1, <2>1
      <3> QED
        BY <1>3, <1>5, <1>6, <3>1
    <2>2. CASE ~ (k <= Len(a))
      BY <1>5, <1>7, <1>10, <2>2
    <2> QED
      BY <2>1, <2>2
  <1>12. ASSUME NEW x \in U PROVE \E k \in 1 .. Len(ab) : ab[k] = x
    <2>1. CASE x \in S
      <3>1. PICK k \in 1 .. Len(a) : a[k] = x
        BY <1>6, <2>1
      <3>2. k \in 1 .. Len(ab)
        BY <1>1, <1>2
      <3> QED
        BY <1>3, <3>1, <3>2
    <2>2. CASE x \in T
      <3>1. PICK k \in 1 .. Len(b) : b[k] = x
        BY <1>7, <2>2
      <3>2. Len(a) + k \in 1 .. Len(ab)
        BY <1>1, <1>2
      <3> QED
        BY <1>4, <3>1, <3>2
    <2> QED
      BY <1>5, <2>1, <2>2
  <1>13. ASSUME NEW k \in 1 .. Len(ab), NEW l \in 1 .. Len(ab), k < l PROVE ab[k] < ab[l]
    <2>1. CASE l <= Len(a)
      <3>1. k \in 1 .. Len(a) /\ l \in 1 .. Len(a)
        BY <1>1, <1>13, <2>1
      <3> QED
        BY <1>3, <1>6, <1>13, <3>1
    <2>2. CASE k <= Len(a) /\ ~ (l <= Len(a))
      <3>1. k \in 1 .. Len(a)
        BY <1>1, <2>2
      <3>2. ab[k] = a[k] /\ a[k] < i /\ a[k] \in Nat
        BY <1>3, <1>5, <1>6, <1>8, <3>1
      <3> DEFINE y == b[l - Len(a)]
      <3>3. ab[l] = y /\ y >= i /\ y \in Nat
        BY <1>5, <1>7, <1>9, <1>10, <2>2
      <3> HIDE DEF y
      <3> QED
        BY <3>2, <3>3
    <2>3. CASE ~ (k <= Len(a))
      <3>1. ~ (l <= Len(a))
        BY <1>1, <1>2, <1>13, <2>3
      <3>2. k - Len(a) < l - Len(a)
        BY <1>1, <1>2, <1>13
      <3> QED
        BY <1>7, <1>10, <2>3, <3>1, <3>2
    <2> QED
      BY <2>1, <2>2, <2>3
  <1> QED
    BY <1>2, <1>11, <1>12, <1>13 DEF Ordered, ab, U

\* The gated vectors of a window keep what its scalar loop would.
LEMMA VsxSparseOrdered ==
    ASSUME NEW c, NEW w \in Nat \ {0}, NEW j \in Nat, NEW m \in Nat
    PROVE  LET kept == VsxSparse(c, w, j, w * m)
           IN  Ordered(kept, Keep(c, j, j + w * m)) /\ Len(kept) <= w * m
  <1> DEFINE starts == [q \in 1 .. (w * m) \div w |-> j + w * (q - 1)]
  <1>1. (w * m) \div w = m
    OBVIOUS
  <1>2. DOMAIN starts = 1 .. m
    BY <1>1
  <1>3. \A k \in 1 .. m : starts[k] = j + w * (k - 1)
    BY <1>1
  <1>4. KeptSoFar(c, w, j, <<>>, 0)
    <2>1. w * 0 = 0 /\ Keep(c, j, j + 0) = {}
      BY DEF Keep
    <2> QED
      BY <2>1 DEF KeptSoFar, Ordered
  <1> HIDE DEF starts
  <1>5. ASSUME NEW k \in 1 .. m, NEW a, KeptSoFar(c, w, j, a, k - 1)
        PROVE  KeptSoFar(c, w, j, VsxVector(c, w, a, starts[k]), k)
    <2> DEFINE v == w * (k - 1)
               i == j + v
    <2>1. v \in Nat /\ w * k = v + w
      OBVIOUS
    <2>2. starts[k] = i
      BY <1>3
    <2>3. Ordered(a, Keep(c, j, i)) /\ Len(a) <= v
      BY <1>5 DEF KeptSoFar
    <2> HIDE DEF v
    <2>4. i + w = j + w * k
      BY <2>1
    <2>7. i \in Nat /\ j <= i /\ w \in Nat /\ i + w \in Nat /\ i <= i + w
      BY <2>1
    <2> HIDE DEF i
    <2>5. CASE Gated(c, i, w)
      <3> DEFINE b == Bits(c, i, w)
      <3>1. Ordered(b, Keep(c, i, i + w)) /\ Len(b) <= w
        BY <2>7, BitsOrdered
      <3> HIDE DEF b
      <3>2. Ordered(a \o b, Keep(c, j, i + w)) /\ Len(a \o b) = Len(a) + Len(b)
        <4>1. Ordered(a, Keep(c, j, i))
          BY <2>3
        <4>2. Ordered(b, Keep(c, i, i + w))
          BY <3>1
        <4> QED
          BY <2>7, <4>1, <4>2, OrderedJoined
      <3>3. Len(a) \in Nat /\ Len(b) \in Nat
        BY <2>3, <3>1 DEF Ordered
      <3>4. Len(a \o b) <= w * k
        BY <2>1, <2>3, <3>1, <3>2, <3>3
      <3>5. VsxVector(c, w, a, starts[k]) = a \o b
        BY <2>2, <2>5 DEF VsxVector, b
      <3> QED
        BY <2>4, <3>2, <3>4, <3>5 DEF KeptSoFar
    <2>6. CASE ~ Gated(c, i, w)
      <3>1. Keep(c, i, i + w) = {}
        BY <2>6, <2>7, NotGated
      <3>2. Keep(c, j, i + w) = Keep(c, j, i)
        <4>1. ASSUME NEW x PROVE x \in Keep(c, j, i + w) <=> x \in Keep(c, j, i) \/ x \in Keep(c, i, i + w)
          BY <2>7 DEF Keep
        <4> QED
          BY <3>1, <4>1
      <3>3. Len(a) \in Nat
        BY <2>3 DEF Ordered
      <3>4. Len(a) <= w * k
        BY <2>1, <2>3, <3>3
      <3>5. VsxVector(c, w, a, starts[k]) = a
        BY <2>2, <2>6 DEF VsxVector
      <3> QED
        BY <2>3, <2>4, <3>2, <3>4, <3>5 DEF KeptSoFar
    <2> QED
      BY <2>5, <2>6
  <1>ind. VsxVectors!Counted
    BY NumbersAreCounted, Zenon DEF VsxVectors!Counted
  <1>6. KeptSoFar(c, w, j, VsxVectors!Fold(c, w, <<>>, starts), m)
    BY <1>2, <1>4, <1>5, <1>ind, VsxVectors!FoldKeeps
  <1> QED
    BY <1>6 DEF KeptSoFar, VsxSparse, starts

VsxNext(c, w, s, q) ==
    LET nv   == c.n - (c.n % w)
        j    == Window * (q - 1)
        len  == IF j + Window < nv THEN Window ELSE nv - j
        kept == IF s.dense THEN Bits(c, j, len) ELSE VsxSparse(c, w, j, len)
    IN  [o |-> Push(s.o, c, kept), dense |-> vsx_next_dense(s.dense, Len(kept))]
WindowEnd(nv, k) == IF Window * k < nv THEN Window * k ELSE nv
WindowsSoFar(c, w, d, s, k) == SoFar(c, s.o, WindowEnd(c.n - (c.n % w), k))
VsxWindows == INSTANCE Folding WITH Op <- VsxNext, Inv <- WindowsSoFar
VsxBase == [o |-> Empty, dense |-> FALSE]
WindowNumbers(c, w) == [q \in 1 .. ((c.n - (c.n % w)) + Window - 1) \div Window |-> q]

\* Where a window begins and ends: a whole number of vectors.
LEMMA WindowFacts ==
    ASSUME NEW w \in {1, 2}, NEW n \in Nat, NEW nv, nv = n - (n % w),
           NEW k \in 1 .. (nv + Window - 1) \div Window
    PROVE  LET j   == Window * (k - 1)
               len == IF j + Window < nv THEN Window ELSE nv - j
           IN  /\ j \in Nat /\ len \in Nat /\ len \div w \in Nat /\ len = w * (len \div w)
               /\ WindowEnd(nv, k - 1) = j /\ WindowEnd(nv, k) = j + len /\ j + len <= n
  <1>1. nv \in Nat /\ nv % w = 0 /\ nv <= n
    <2>1. CASE w = 1
      BY <2>1
    <2>2. CASE w = 2
      BY <2>2
    <2> QED
      BY <2>1, <2>2
  <1>2. k \in Nat /\ k >= 1 /\ 4 * (k - 1) < nv
    BY <1>1 DEF Window
  <1>3. CASE w = 1
    BY <1>1, <1>2, <1>3 DEF Window, WindowEnd
  <1>4. CASE w = 2
    BY <1>1, <1>2, <1>4 DEF Window, WindowEnd
  <1> QED
    BY <1>3, <1>4

\* A window, whichever way it is done, keeps the list.
LEMMA VsxWindow ==
    ASSUME NEW c, IsCall(c), NEW w \in {1, 2}, NEW s,
           NEW k \in 1 .. ((c.n - (c.n % w)) + Window - 1) \div Window, WindowsSoFar(c, w, 0, s, k - 1)
    PROVE  WindowsSoFar(c, w, 0, VsxNext(c, w, s, k), k)
  <1> DEFINE nv   == c.n - (c.n % w)
             j    == Window * (k - 1)
             len  == IF j + Window < nv THEN Window ELSE nv - j
             skimmed == VsxSparse(c, w, j, len)
             kept == IF s.dense THEN Bits(c, j, len) ELSE skimmed
  <1>1. c.n \in Nat
    BY DEF IsCall
  <1>2. j \in Nat /\ len \in Nat /\ len \div w \in Nat /\ len = w * (len \div w)
        /\ WindowEnd(nv, k - 1) = j /\ WindowEnd(nv, k) = j + len /\ j + len <= c.n
    BY <1>1, WindowFacts
  <1>3. SoFar(c, s.o, j)
    BY <1>2 DEF WindowsSoFar
  <1>4. VsxNext(c, w, s, k).o = Push(s.o, c, kept)
    BY DEF VsxNext
  <1> HIDE DEF nv, j, len
  <1>5. Ordered(Bits(c, j, len), Keep(c, j, j + len)) /\ Len(Bits(c, j, len)) <= len
    BY <1>2, BitsOrdered
  <1>6. Ordered(skimmed, Keep(c, j, j + len)) /\ Len(skimmed) <= len
    <2> DEFINE m == len \div w
    <2>1. m \in Nat /\ len = w * m /\ w \in Nat \ {0}
      BY <1>2
    <2> HIDE DEF m, skimmed
    <2>2. Ordered(VsxSparse(c, w, j, w * m), Keep(c, j, j + w * m)) /\ Len(VsxSparse(c, w, j, w * m)) <= w * m
      BY <1>2, <2>1, VsxSparseOrdered
    <2> QED
      BY <2>1, <2>2 DEF skimmed
  <1> HIDE DEF skimmed
  <1>7. Ordered(kept, Keep(c, j, j + len)) /\ Len(kept) <= len
    <2>1. CASE s.dense
      BY <1>5, <2>1
    <2>2. CASE ~ s.dense
      BY <1>6, <2>2
    <2> QED
      BY <2>1, <2>2
  <1> HIDE DEF kept
  <1>8. SoFar(c, Push(s.o, c, kept), j + len)
    BY <1>2, <1>3, <1>7, GroupPushed
  <1> QED
    BY <1>2, <1>4, <1>8 DEF WindowsSoFar, nv

\* All the windows, then what is left of a vector by the scalar loop.
LEMMA VsxLists ==
    ASSUME NEW c, IsCall(c), NEW w \in {1, 2}
    PROVE  SoFar(c, Push(VsxWindows!Fold(c, w, VsxBase, WindowNumbers(c, w)).o, c,
                         Bits(c, c.n - (c.n % w), c.n % w)), c.n)
  <1> DEFINE nv == c.n - (c.n % w)
             r  == c.n % w
             m  == (nv + Window - 1) \div Window
             ws == WindowNumbers(c, w)
             s  == VsxWindows!Fold(c, w, VsxBase, ws)
  <1>1. c.n \in Nat
    BY DEF IsCall
  <1>2. nv \in Nat /\ r \in Nat /\ nv + r = c.n
    <2>1. CASE w = 1
      BY <1>1, <2>1
    <2>2. CASE w = 2
      BY <1>1, <2>2
    <2> QED
      BY <2>1, <2>2
  <1>3. DOMAIN ws = 1 .. m /\ \A k \in 1 .. m : ws[k] = k
    BY DEF WindowNumbers
  <1>4. WindowsSoFar(c, w, 0, VsxBase, 0)
    <2>1. WindowEnd(nv, 0) = 0
      <3> HIDE DEF nv
      <3> QED
        BY <1>2 DEF WindowEnd, Window
    <2>2. Keep(c, 0, 0) = {}
      BY DEF Keep
    <2> QED
      BY <2>1, <2>2, CollectedNothing DEF WindowsSoFar, SoFar, VsxBase
  <1>5. ASSUME NEW k \in 1 .. m, NEW a, WindowsSoFar(c, w, 0, a, k - 1)
        PROVE  WindowsSoFar(c, w, 0, VsxNext(c, w, a, ws[k]), k)
    BY <1>3, <1>5, VsxWindow
  <1> HIDE DEF ws
  <1>6. m \in Nat /\ WindowEnd(nv, m) = nv
    <2> HIDE DEF nv
    <2> QED
      BY <1>2 DEF Window, WindowEnd
  <1> HIDE DEF m
  <1>ind. VsxWindows!Counted
    BY NumbersAreCounted, Zenon DEF VsxWindows!Counted
  <1>7. WindowsSoFar(c, w, 0, s, m)
    BY <1>3, <1>4, <1>5, <1>6, <1>ind, VsxWindows!FoldKeeps
  <1>8. SoFar(c, s.o, nv)
    BY <1>6, <1>7 DEF WindowsSoFar
  <1> HIDE DEF s, nv, r
  <1>9. SoFar(c, Push(s.o, c, Bits(c, nv, r)), nv + r)
    BY <1>1, <1>2, <1>8, BitsPushed
  <1> QED
    BY <1>2, <1>9 DEF s, nv, r, ws

\* collect_vsx_u16 of collect.hpp lists the selected pixels of the block.
LEMMA collect_vsx_u16_lists ==
    ASSUME NEW c, IsCall(c)
    PROVE  SoFar(c, collect_vsx_u16(c), c.n)
  <1>1. collect_vsx_u16(c) = Push(VsxWindows!Fold(c, 2, VsxBase, WindowNumbers(c, 2)).o, c,
                                Bits(c, c.n - (c.n % 2), c.n % 2))
    BY DEF collect_vsx_u16, Windows, VsxBase, WindowNumbers, VsxNext, VsxSparse, VsxVector, VsxWindows!Fold,
           VsxVectors!Fold, FoldLeft, MapThenFoldSet,
           Max, VsxWindows!Greatest, VsxVectors!Greatest
  <1>2. 2 \in {1, 2}
    OBVIOUS
  <1> QED
    BY <1>1, <1>2, VsxLists

\* collect_vsx_u32 of collect.hpp lists the selected pixels of the block.
LEMMA collect_vsx_u32_lists ==
    ASSUME NEW c, IsCall(c)
    PROVE  SoFar(c, collect_vsx_u32(c), c.n)
  <1>1. collect_vsx_u32(c) = Push(VsxWindows!Fold(c, 1, VsxBase, WindowNumbers(c, 1)).o, c,
                                Bits(c, c.n - (c.n % 1), c.n % 1))
    BY DEF collect_vsx_u32, Windows, VsxBase, WindowNumbers, VsxNext, VsxSparse, VsxVector, VsxWindows!Fold,
           VsxVectors!Fold, FoldLeft, MapThenFoldSet,
           Max, VsxWindows!Greatest, VsxVectors!Greatest
  <1>2. 1 \in {1, 2}
    OBVIOUS
  <1> QED
    BY <1>1, <1>2, VsxLists

-----------------------------------------------------------------------------
(* The entry points, for every pixel type and every tier. *)

\* The scalar loop.
LEMMA collect_scalar_lists ==
    ASSUME NEW c, IsCall(c)
    PROVE  SoFar(c, collect_scalar(c), c.n)
  <1>1. c.n \in Nat /\ 0 \in Nat /\ 0 + c.n <= c.n /\ 0 + c.n = c.n
    BY DEF IsCall
  <1>2. SoFar(c, Empty, 0)
    <2>1. Keep(c, 0, 0) = {}
      BY DEF Keep
    <2> QED
      BY <2>1, CollectedNothing DEF SoFar
  <1>3. SoFar(c, Push(Empty, c, Bits(c, 0, c.n)), 0 + c.n)
    BY <1>1, <1>2, BitsPushed
  <1> QED
    BY <1>1, <1>3 DEF collect_scalar

\* A call as the dispatcher of a pixel type makes it: pixels and cut of 16 or 32 bits, or any numbers.
IsTyped(c, type) == IsCall(c) /\ (type \in {"u16", "u32"} => IsWordCall(c))

\* collect_gt of collect.hpp: whatever the type and the tier, the list is the selected pixels in order.
THEOREM CollectGtLists ==
    ASSUME NEW c, NEW type, NEW tier, IsTyped(c, type)
    PROVE  SoFar(c, collect_gt(c, type, tier), c.n)
  <1>1. IsCall(c)
    BY DEF IsTyped
  <1>2. CASE type = "u16"
    <2>1. IsWordCall(c)
      BY <1>2 DEF IsTyped
    <2>2. SoFar(c, collect_gt_u16(c, tier), c.n)
      BY <1>1, <2>1, collect_avx512cs_u16_lists, collect_avx2cs_u16_lists, collect_sse2_u16_lists,
         collect_vsx_u16_lists, collect_neon_u16_lists, collect_scalar_lists DEF collect_gt_u16
    <2> QED
      BY <1>2, <2>2 DEF collect_gt
  <1>3. CASE type = "u32"
    <2>1. IsWordCall(c)
      BY <1>3 DEF IsTyped
    <2>2. SoFar(c, collect_gt_u32(c, tier), c.n)
      BY <1>1, <2>1, collect_avx512cs_u32_lists, collect_avx2cs_u32_lists, collect_sse2_u32_lists,
         collect_vsx_u32_lists, collect_neon_u32_lists, collect_scalar_lists DEF collect_gt_u32
    <2> QED
      BY <1>3, <2>2 DEF collect_gt
  <1>4. CASE type \notin {"u16", "u32"}
    BY <1>1, <1>4, collect_scalar_lists DEF collect_gt
  <1> QED
    BY <1>2, <1>3, <1>4

\* The pixels that are not 0.
NonZero(c) == {i \in 0 .. c.n - 1 : mask_ok(c, i) /\ c.px[i] # 0}

\* A call of a kernel, field by field.
CallOf(n, first, px, masked, cut) == [n |-> n, i0 |-> first, px |-> px, mask |-> masked, cut |-> cut]

\* collect_nz of collect.hpp: the pixels that are not 0; the cut has no part in it.
THEOREM CollectNzLists ==
    ASSUME NEW n, NEW first, NEW px, NEW masked, NEW cut, NEW type, NEW tier,
           IsTyped(CallOf(n, first, px, masked, 0), type)
    PROVE  LET c == CallOf(n, first, px, masked, cut)
           IN  Collected(c, NonZero(c), collect_nz(c, type, tier), n)
  <1> DEFINE c == CallOf(n, first, px, masked, cut)
             z == CallOf(n, first, px, masked, 0)
             S == {i \in 0 .. n - 1 : mask_ok(c, i) /\ px[i] # 0}
  <1>1. c.n = n /\ c.i0 = first /\ c.px = px /\ c.mask = masked /\ z.n = n /\ z.i0 = first /\ z.px = px
        /\ z.mask = masked /\ z.cut = 0
    BY DEF CallOf
  <1>2. [c EXCEPT !.cut = 0] = z
    BY DEF CallOf
  <1>3. NonZero(c) = S
    BY <1>1 DEF NonZero
  <1>4. IsTyped(z, type)
    OBVIOUS
  <1>5. n \in Nat /\ first \in Nat /\ \A i \in 0 .. n - 1 : px[i] \in Int
    BY <1>1, <1>4 DEF IsTyped, IsCall
  <1> HIDE DEF c, z
  <1>6. ASSUME type \in {"u16", "u32"} PROVE Collected(c, S, collect_nz(c, type, tier), n)
    <2>1. \A i \in 0 .. n - 1 : px[i] \in 0 .. Word - 1
      BY <1>1, <1>4, <1>6 DEF IsTyped, IsWordCall
    <2>3. IsTyped(z, type)
      BY <1>4
    <2>4. Keep(z, 0, n) = S
      <3>1. ASSUME NEW i \in 0 .. n - 1 PROVE Greater(px[i], 0) <=> px[i] # 0
        BY <2>1 DEF Greater, Word, NaN
      <3>2. ASSUME NEW i PROVE mask_ok(z, i) <=> mask_ok(c, i)
        BY <1>1 DEF mask_ok
      <3> QED
        BY <1>1, <3>1, <3>2 DEF Keep
    <2>5. collect_nz(c, type, tier) = collect_gt(z, type, tier)
      BY <1>2, <1>6 DEF collect_nz, collect_nz_u16, collect_nz_u32, collect_gt
    <2>6. SoFar(z, collect_gt(z, type, tier), n)
      BY <1>1, <2>3, CollectGtLists
    <2>7. Collected(z, S, collect_nz(c, type, tier), n)
      BY <2>4, <2>5, <2>6 DEF SoFar
    <2> HIDE DEF S
    <2> QED
      BY <1>1, <2>7 DEF Collected
  <1>7. ASSUME type \notin {"u16", "u32"} PROVE Collected(c, S, collect_nz(c, type, tier), n)
    <2> DEFINE is == Picked(Lanes(0, n), S)
               zero == 0
    <2>1. S \subseteq 0 .. 0 + n - 1 /\ {} \cup S = S
      BY <1>5
    <2>2. Ordered(is, S) /\ Len(is) <= n
      BY <1>5, <2>1, LanesPicked
    <2>3. \A x \in S : c.px[x] \in Int
      BY <1>1, <1>5
    <2>4. Collected(c, {}, Empty, 0)
      BY CollectedNothing
    <2>5. collect_nz(c, type, tier) = Push(Empty, c, is)
      BY <1>1, <1>7 DEF collect_nz, collect_nz_any
    <2>6. S \subseteq zero .. zero + n - 1 /\ Collected(c, {}, Empty, zero) /\ zero \in Nat /\ zero + n = n
      BY <1>5, <2>1, <2>4
    <2> HIDE DEF is, S, zero
    <2>7. Collected(c, {} \cup S, Push(Empty, c, is), zero + n)
      BY <1>1, <1>5, <2>2, <2>3, <2>6, PushCollects
    <2> QED
      BY <2>1, <2>5, <2>6, <2>7
  <1>8. Collected(c, NonZero(c), collect_nz(c, type, tier), n)
    BY <1>3, <1>6, <1>7
  <1> QED
    BY <1>8 DEF c

-----------------------------------------------------------------------------
(* From planes to pixels. *)

SumStep(s, d, a, x) == a + x
SumTo(s, d, e, a, k) ==
    /\ k = 0 => a = 0
    /\ k = 1 => a = s[1]
    /\ k = 2 => a = s[1] + s[2]
    /\ k = 3 => a = s[1] + s[2] + s[3]
Summing == INSTANCE Folding WITH Op <- SumStep, Inv <- SumTo

\* The sum of two or three numbers, which a fold adds up.
LEMMA SumOfFew ==
    ASSUME NEW n \in {2, 3}, NEW s, DOMAIN s = 1 .. n, \A k \in 1 .. n : s[k] \in Int
    PROVE  FoldLeft(+, 0, s) = IF n = 2 THEN s[1] + s[2] ELSE s[1] + s[2] + s[3]
  <1>1. FoldLeft(+, 0, s) = Summing!Fold(s, 0, 0, s)
    BY DEF Summing!Fold, FoldLeft, MapThenFoldSet, Max, Summing!Greatest,
           SumStep
  <1>2. SumTo(s, 0, 0, 0, 0)
    BY DEF SumTo
  <1>3. ASSUME NEW k \in 1 .. n, NEW a, SumTo(s, 0, 0, a, k - 1) PROVE SumTo(s, 0, 0, SumStep(s, 0, a, s[k]), k)
    <2>1. s[k] \in Int /\ s[1] \in Int /\ k \in {1, 2, 3}
      OBVIOUS
    <2>2. CASE k = 1
      BY <1>3, <2>1, <2>2 DEF SumTo, SumStep
    <2>3. CASE k = 2
      BY <1>3, <2>1, <2>3 DEF SumTo, SumStep
    <2>4. CASE k = 3
      BY <1>3, <2>1, <2>4 DEF SumTo, SumStep
    <2> QED
      BY <2>1, <2>2, <2>3, <2>4
  <1>4. n \in Nat
    OBVIOUS
  <1>ind. Summing!Counted
    BY NumbersAreCounted, Zenon DEF Summing!Counted
  <1>5. SumTo(s, 0, 0, Summing!Fold(s, 0, 0, s), n)
    BY <1>2, <1>3, <1>4, <1>ind, Summing!FoldKeeps
  <1>6. CASE n = 2
    BY <1>1, <1>5, <1>6 DEF SumTo
  <1>7. CASE n = 3
    BY <1>1, <1>5, <1>7 DEF SumTo
  <1> QED
    BY <1>6, <1>7

\* What plane p gives to pixel e.
FromPlane(buf, ne, np, p, e) == IF p < np /\ p * ne + e \in DOMAIN buf THEN 2^p * buf[p * ne + e] ELSE 0

\* Pixels is the sum of what the planes give.
LEMMA PixelsAddUp ==
    ASSUME NEW buf, NEW ne, NEW np, NEW upto, NEW e \in 0 .. upto - 1, NEW bits \in {2, 3},
           \A p \in 0 .. bits - 1 : FromPlane(buf, ne, np, p, e) \in Int
    PROVE  Pixels(buf, ne, np, bits, upto)[e]
           = IF bits = 2 THEN FromPlane(buf, ne, np, 0, e) + FromPlane(buf, ne, np, 1, e)
             ELSE FromPlane(buf, ne, np, 0, e) + FromPlane(buf, ne, np, 1, e) + FromPlane(buf, ne, np, 2, e)
  <1> DEFINE s == [k \in 1 .. bits |-> FromPlane(buf, ne, np, k - 1, e)]
  <1>1. Pixels(buf, ne, np, bits, upto)[e] = FoldLeft(+, 0, s)
    BY DEF Pixels, FromPlane
  <1>2. DOMAIN s = 1 .. bits
    OBVIOUS
  <1>3. \A k \in 1 .. bits : s[k] \in Int
    OBVIOUS
  <1>4. s[1] = FromPlane(buf, ne, np, 0, e) /\ s[2] = FromPlane(buf, ne, np, 1, e)
    OBVIOUS
  <1>5. bits = 3 => s[3] = FromPlane(buf, ne, np, 2, e)
    OBVIOUS
  <1> HIDE DEF s
  <1>6. FoldLeft(+, 0, s) = IF bits = 2 THEN s[1] + s[2] ELSE s[1] + s[2] + s[3]
    BY <1>2, <1>3, SumOfFew
  <1> QED
    BY <1>1, <1>4, <1>5, <1>6

-----------------------------------------------------------------------------
(* A buffer that stands for pixels. *)

Place(p, ne, e) == p * ne + e

\* Pixel e of plane p is in the buffer, and / and % of its place give them back.
LEMMA PlaceFacts ==
    ASSUME NEW ne \in Nat \ {0}, NEW p \in 0 .. 2, NEW e \in 0 .. ne - 1
    PROVE  /\ Place(p, ne, e) \in 0 .. AllBits * ne - 1
           /\ Place(p, ne, e) % ne = e /\ Place(p, ne, e) \div ne = p
  <1>1. CASE p = 0
    BY <1>1 DEF Place, AllBits
  <1>2. CASE p = 1
    <2>1. Place(p, ne, e) = ne + e
      BY <1>2 DEF Place
    <2>2. (ne + e) % ne = e /\ (ne + e) \div ne = 1
      OBVIOUS
    <2> QED
      BY <1>2, <2>1, <2>2 DEF AllBits
  <1>3. CASE p = 2
    <2>1. Place(p, ne, e) = 2 * ne + e
      BY <1>3 DEF Place
    <2>2. (2 * ne + e) % ne = e /\ (2 * ne + e) \div ne = 2
      OBVIOUS
    <2> QED
      BY <1>3, <2>1, <2>2 DEF AllBits
  <1> QED
    BY <1>1, <1>2, <1>3

\* The first of it, for provers that do not need the rest.
LEMMA PlaceWithin ==
    ASSUME NEW ne \in Nat \ {0}, NEW p \in 0 .. 2, NEW e \in 0 .. ne - 1
    PROVE  Place(p, ne, e) \in 0 .. AllBits * ne - 1
  BY PlaceFacts

\* Up to nz the planes hold the bits of px; past it the bits of px are 0, whatever the buffer holds.
StandsFor(buf, px, ne, nz) ==
    /\ buf \in [0 .. AllBits * ne - 1 -> Int] /\ nz \in 0 .. AllBits * ne
    /\ \A e \in 0 .. ne - 1 : px[e] \in 0 .. Word - 1
    /\ \A p \in 0 .. 2, e \in 0 .. ne - 1 :
          IF Place(p, ne, e) < nz THEN buf[Place(p, ne, e)] = Bit(px[e], p) ELSE Bit(px[e], p) = 0

\* A pixel is the sum of its bits.
LEMMA BitsOfPixel ==
    ASSUME NEW v \in 0 .. Word - 1
    PROVE  /\ \A p \in 0 .. 2 : Bit(v, p) \in {0, 1}
           /\ v = Bit(v, 0) + 2 * Bit(v, 1) + 4 * Bit(v, 2)
  <1>1. v \in {0, 1, 2, 3, 4, 5, 6, 7}
    BY DEF Word
  <1>2. Bit(v, 0) = v % 2 /\ Bit(v, 1) = (v \div 2) % 2 /\ Bit(v, 2) = (v \div 4) % 2
    BY DEF Bit
  <1> QED
    BY <1>1, <1>2

\* What a decoder leaves stands for the pixels it decoded.
LEMMA DecodedStands ==
    ASSUME NEW ne \in Nat \ {0}, NEW px, \A e \in 0 .. ne - 1 : px[e] \in 0 .. Word - 1,
           NEW buf \in [0 .. AllBits * ne - 1 -> Int], NEW nz \in 0 .. AllBits * ne,
           \A i \in DOMAIN PlanesOf(px, ne) : i >= nz => PlanesOf(px, ne)[i] = 0
    PROVE  StandsFor(LeftBy(PlanesOf(px, ne), nz, buf), px, ne, nz)
  <1> DEFINE planes == PlanesOf(px, ne)
             leaves   == LeftBy(planes, nz, buf)
  <1>1. DOMAIN planes = 0 .. AllBits * ne - 1
    BY DEF PlanesOf
  <1>2. ASSUME NEW i \in 0 .. AllBits * ne - 1 PROVE planes[i] \in Int
    <2>1. planes[i] = Bit(px[i % ne], i \div ne)
      BY DEF PlanesOf
    <2>2. i % ne \in 0 .. ne - 1 /\ i \div ne \in 0 .. 2
      <3> DEFINE q == i \div ne
      <3>1. i < 3 * ne /\ i \in Nat
        BY DEF AllBits
      <3>2. q \in Nat /\ ne * q <= i /\ i % ne \in 0 .. ne - 1
        <4>1. i % ne \in 0 .. ne - 1
          BY <3>1
        <4>2. i = ne * q + (i % ne) /\ q \in Nat
          BY <3>1
        <4> HIDE DEF q
        <4>3. ne * q \in Int
          BY <4>2
        <4>4. ne * q <= i
          BY <3>1, <4>1, <4>2, <4>3
        <4> QED
          BY <4>1, <4>2, <4>4
      <3> HIDE DEF q
      <3>3. ~ (q >= 3)
        <4>1. ASSUME q >= 3 PROVE ne * q >= 3 * ne
          BY <3>2, <4>1
        <4> QED
          BY <3>1, <3>2, <4>1
      <3> QED
        BY <3>2, <3>3 DEF q
    <2>3. Bit(px[i % ne], i \div ne) \in {0, 1}
      BY <2>2, BitsOfPixel
    <2> QED
      BY <2>1, <2>3
  <1>3. ASSUME NEW p \in 0 .. 2, NEW e \in 0 .. ne - 1
        PROVE  planes[Place(p, ne, e)] = Bit(px[e], p) /\ Place(p, ne, e) \in DOMAIN planes
    <2>1. Place(p, ne, e) \in 0 .. AllBits * ne - 1 /\ Place(p, ne, e) % ne = e /\ Place(p, ne, e) \div ne = p
      BY PlaceFacts
    <2> QED
      BY <2>1 DEF PlanesOf
  <1> HIDE DEF planes
  <1>4. leaves \in [0 .. AllBits * ne - 1 -> Int]
    BY <1>1, <1>2 DEF LeftBy
  <1>5. ASSUME NEW p \in 0 .. 2, NEW e \in 0 .. ne - 1
        PROVE  IF Place(p, ne, e) < nz THEN leaves[Place(p, ne, e)] = Bit(px[e], p) ELSE Bit(px[e], p) = 0
    <2> DEFINE i == Place(p, ne, e)
    <2>1. planes[i] = Bit(px[e], p) /\ i \in DOMAIN planes
      BY <1>3
    <2> HIDE DEF i
    <2>2. i \in Nat
      BY <1>1, <2>1
    <2>3. CASE i < nz
      BY <2>1, <2>3 DEF LeftBy, i
    <2>4. CASE ~ (i < nz)
      <3>1. i >= nz
        BY <2>2, <2>4
      <3>2. planes[i] = 0
        BY <2>1, <3>1 DEF planes
      <3> QED
        BY <2>1, <2>4, <3>2 DEF i
    <2> QED
      BY <2>3, <2>4 DEF i
  <1> HIDE DEF leaves
  <1> QED
    BY <1>4, <1>5 DEF StandsFor, leaves, planes

\* Masked plane by plane, the buffer stands for the pixels with the masked ones 0.
LEMMA MaskedStands ==
    ASSUME NEW ne \in Nat \ {0}, NEW px, NEW buf, NEW nz, StandsFor(buf, px, ne, nz), NEW masked, NEW first,
           NEW out, \A e \in 0 .. ne - 1 : out[e] = IF first + e \in masked THEN 0 ELSE px[e]
    PROVE  StandsFor(mask_planes(buf, pack_mask(masked, first, ne), ne, nz), out, ne, nz)
  <1> DEFINE bits == pack_mask(masked, first, ne)
             m    == mask_planes(buf, bits, ne, nz)
  <1>1. \A e \in 0 .. ne - 1 : bits[e] = (IF first + e \in masked THEN 0 ELSE 1)
    BY DEF pack_mask
  <1> HIDE DEF bits
  <1>2. buf \in [0 .. AllBits * ne - 1 -> Int] /\ nz \in 0 .. AllBits * ne
    BY DEF StandsFor
  <1>3. m \in [0 .. AllBits * ne - 1 -> Int]
    <2>1. ASSUME NEW i \in 0 .. AllBits * ne - 1 PROVE buf[i] * bits[i % ne] \in Int
      <3>1. i \in Nat /\ buf[i] \in Int
        BY <1>2
      <3>2. i % ne \in 0 .. ne - 1
        BY <3>1
      <3>3. bits[i % ne] \in {0, 1}
        BY <1>1, <3>2
      <3> HIDE DEF m
      <3> QED
        BY <3>1, <3>3
    <2> QED
      BY <1>2, <2>1 DEF mask_planes
  <1>4. ASSUME NEW e \in 0 .. ne - 1 PROVE out[e] \in 0 .. Word - 1
    BY DEF StandsFor, Word
  <1>5. ASSUME NEW p \in 0 .. 2, NEW e \in 0 .. ne - 1
        PROVE  IF Place(p, ne, e) < nz THEN m[Place(p, ne, e)] = Bit(out[e], p) ELSE Bit(out[e], p) = 0
    <2> DEFINE i == Place(p, ne, e)
    <2>1. i \in 0 .. AllBits * ne - 1 /\ i % ne = e
      BY PlaceFacts, PlaceWithin
    <2>2. IF i < nz THEN buf[i] = Bit(px[e], p) ELSE Bit(px[e], p) = 0
      BY DEF StandsFor
    <2>3. px[e] \in 0 .. Word - 1
      BY DEF StandsFor
    <2>4. Bit(0, p) = 0
      <3>1. 2^p \in {1, 2, 4}
        <4>1. 2^0 = 1 /\ 2^1 = 2 /\ 2^2 = 4
          OBVIOUS
        <4>2. p = 0 \/ p = 1 \/ p = 2
          OBVIOUS
        <4> QED
          BY <4>1, <4>2
      <3> QED
        BY <3>1 DEF Bit
    <2>5. Bit(px[e], p) \in {0, 1}
      BY <2>3, BitsOfPixel
    <2> HIDE DEF i, m
    <2>6. CASE first + e \in masked
      <3>1. out[e] = 0 /\ bits[e] = 0
        BY <1>1, <2>6
      <3>2. ASSUME i < nz PROVE m[i] = 0
        <4>1. m[i] = buf[i] * bits[e]
          BY <1>2, <2>1, <3>2 DEF mask_planes, m
        <4>2. buf[i] \in Int
          BY <1>2, <2>1
        <4> QED
          BY <3>1, <4>1, <4>2
      <3> QED
        BY <2>4, <3>1, <3>2 DEF i
    <2>7. CASE first + e \notin masked
      <3>1. out[e] = px[e] /\ bits[e] = 1
        BY <1>1, <2>7
      <3>2. ASSUME i < nz PROVE m[i] = buf[i]
        <4>1. m[i] = buf[i] * bits[e]
          BY <1>2, <2>1, <3>2 DEF mask_planes, m
        <4>2. buf[i] \in Int
          BY <1>2, <2>1
        <4> QED
          BY <3>1, <4>1, <4>2
      <3> QED
        BY <2>2, <3>1, <3>2 DEF i
    <2> QED
      BY <2>6, <2>7
  <1> QED
    BY <1>2, <1>3, <1>4, <1>5 DEF StandsFor, bits

\* Filling past nz changes nothing it stands for.
LEMMA FilledStands ==
    ASSUME NEW ne \in Nat \ {0}, NEW px, NEW buf, NEW nz, StandsFor(buf, px, ne, nz), NEW upto \in Nat
    PROVE  /\ StandsFor(Fill(buf, nz, upto), px, ne, nz)
           /\ nz <= upto /\ upto <= AllBits * ne => StandsFor(Fill(buf, nz, upto), px, ne, upto)
  <1> DEFINE f == Fill(buf, nz, upto)
  <1>1. buf \in [0 .. AllBits * ne - 1 -> Int] /\ nz \in 0 .. AllBits * ne
    BY DEF StandsFor
  <1>2. f \in [0 .. AllBits * ne - 1 -> Int]
    BY <1>1 DEF Fill
  <1>3. \A e \in 0 .. ne - 1 : px[e] \in 0 .. Word - 1
    BY DEF StandsFor
  <1>4. ASSUME NEW p \in 0 .. 2, NEW e \in 0 .. ne - 1
        PROVE  /\ IF Place(p, ne, e) < nz THEN f[Place(p, ne, e)] = Bit(px[e], p) ELSE Bit(px[e], p) = 0
               /\ IF Place(p, ne, e) < nz THEN TRUE
                  ELSE Place(p, ne, e) < upto => f[Place(p, ne, e)] = Bit(px[e], p)
    <2> DEFINE i == Place(p, ne, e)
    <2>1. i \in 0 .. AllBits * ne - 1
      BY PlaceWithin
    <2>2. IF i < nz THEN buf[i] = Bit(px[e], p) ELSE Bit(px[e], p) = 0
      BY DEF StandsFor
    <2> HIDE DEF i
    <2>3. f[i] = IF i >= nz /\ i < upto THEN 0 ELSE buf[i]
      BY <1>1, <2>1 DEF Fill
    <2>4. i \in Int /\ nz \in Int
      BY <1>1, <2>1
    <2> HIDE DEF f
    <2> QED
      BY <2>2, <2>3, <2>4 DEF i
  <1> HIDE DEF f
  <1>5. StandsFor(f, px, ne, nz)
    BY <1>1, <1>2, <1>3, <1>4 DEF StandsFor
  <1>6. ASSUME nz <= upto, upto <= AllBits * ne PROVE StandsFor(f, px, ne, upto)
    <2>1. upto \in 0 .. AllBits * ne
      BY <1>1, <1>6 DEF AllBits
    <2>2. ASSUME NEW p \in 0 .. 2, NEW e \in 0 .. ne - 1
          PROVE  IF Place(p, ne, e) < upto THEN f[Place(p, ne, e)] = Bit(px[e], p) ELSE Bit(px[e], p) = 0
      <3> DEFINE i == Place(p, ne, e)
      <3>1. i \in Int /\ nz \in Int
        <4>1. i \in 0 .. AllBits * ne - 1
          BY PlaceWithin
        <4> HIDE DEF i
        <4> QED
          BY <1>1, <4>1
      <3>2. /\ IF i < nz THEN f[i] = Bit(px[e], p) ELSE Bit(px[e], p) = 0
            /\ IF i < nz THEN TRUE ELSE i < upto => f[i] = Bit(px[e], p)
        BY <1>4
      <3> HIDE DEF i
      <3> QED
        BY <1>6, <3>1, <3>2 DEF i
    <2> QED
      BY <1>2, <1>3, <2>1, <2>2 DEF StandsFor
  <1> QED
    BY <1>5, <1>6 DEF f

\* The planes give pixel e its bits.
Gives(buf, ne, np, v, p, e) ==
  FromPlane(buf, ne, np, p, e) = (IF p = 0 THEN 1 ELSE IF p = 1 THEN 2 ELSE 4) * Bit(v, p)

\* A plane of a buffer that stands for a block gives its bit of a pixel.
LEMMA StandingGives ==
    ASSUME NEW ne \in Nat \ {0}, NEW px, NEW buf, NEW nz, StandsFor(buf, px, ne, nz),
           NEW np, NEW p \in 0 .. 2, NEW e \in 0 .. ne - 1, p < np, Place(p, ne, e) < nz
    PROVE  Gives(buf, ne, np, px[e], p, e)
  <1> DEFINE i == Place(p, ne, e)
  <1>1. buf[i] = Bit(px[e], p) /\ DOMAIN buf = 0 .. AllBits * ne - 1
    BY DEF StandsFor
  <1>2. i \in DOMAIN buf
    BY <1>1, PlaceWithin
  <1>3. i = p * ne + e
    BY DEF Place
  <1> HIDE DEF i
  <1>4. FromPlane(buf, ne, np, p, e) = 2^p * Bit(px[e], p)
    BY <1>1, <1>2, <1>3 DEF FromPlane
  <1>5. 2^0 = 1 /\ 2^1 = 2 /\ 2^2 = 4 /\ (p = 0 \/ p = 1 \/ p = 2)
    OBVIOUS
  <1> QED
    BY <1>4, <1>5 DEF Gives

\* A pixel with no high bit, from the two low planes.
LEMMA LowPixel ==
    ASSUME NEW buf, NEW ne, NEW np, NEW upto, NEW e \in 0 .. upto - 1, NEW v \in 0 .. Word - 1, Bit(v, 2) = 0,
           Gives(buf, ne, np, v, 0, e), Gives(buf, ne, np, v, 1, e)
    PROVE  Pixels(buf, ne, np, LowBits, upto)[e] = v
  <1>1. Bit(v, 0) \in {0, 1} /\ Bit(v, 1) \in {0, 1} /\ v = Bit(v, 0) + 2 * Bit(v, 1)
    <2>1. Bit(v, 0) \in {0, 1} /\ Bit(v, 1) \in {0, 1} /\ v = Bit(v, 0) + 2 * Bit(v, 1) + 4 * Bit(v, 2)
      BY BitsOfPixel
    <2> QED
      BY <2>1
  <1>2. FromPlane(buf, ne, np, 0, e) = Bit(v, 0) /\ FromPlane(buf, ne, np, 1, e) = 2 * Bit(v, 1)
    BY <1>1 DEF Gives
  <1>3. \A p \in 0 .. 2 - 1 : FromPlane(buf, ne, np, p, e) \in Int
    <2>1. \A p \in 0 .. 2 - 1 : p = 0 \/ p = 1
      OBVIOUS
    <2> QED
      BY <1>1, <1>2, <2>1
  <1>4. Pixels(buf, ne, np, 2, upto)[e] = FromPlane(buf, ne, np, 0, e) + FromPlane(buf, ne, np, 1, e)
    BY <1>3, PixelsAddUp
  <1> QED
    BY <1>1, <1>2, <1>4 DEF LowBits

\* A pixel from all planes.
LEMMA FullPixel ==
    ASSUME NEW buf, NEW ne, NEW np, NEW upto, NEW e \in 0 .. upto - 1, NEW v \in 0 .. Word - 1,
           Gives(buf, ne, np, v, 0, e), Gives(buf, ne, np, v, 1, e), Gives(buf, ne, np, v, 2, e)
    PROVE  Pixels(buf, ne, np, AllBits, upto)[e] = v
  <1>1. Bit(v, 0) \in {0, 1} /\ Bit(v, 1) \in {0, 1} /\ Bit(v, 2) \in {0, 1}
        /\ v = Bit(v, 0) + 2 * Bit(v, 1) + 4 * Bit(v, 2)
    BY BitsOfPixel
  <1>2. FromPlane(buf, ne, np, 0, e) = Bit(v, 0) /\ FromPlane(buf, ne, np, 1, e) = 2 * Bit(v, 1)
        /\ FromPlane(buf, ne, np, 2, e) = 4 * Bit(v, 2)
    BY <1>1 DEF Gives
  <1>3. \A p \in 0 .. 3 - 1 : FromPlane(buf, ne, np, p, e) \in Int
    <2>1. \A p \in 0 .. 3 - 1 : p = 0 \/ p = 1 \/ p = 2
      OBVIOUS
    <2> QED
      BY <1>1, <1>2, <2>1
  <1>4. Pixels(buf, ne, np, 3, upto)[e]
        = FromPlane(buf, ne, np, 0, e) + FromPlane(buf, ne, np, 1, e) + FromPlane(buf, ne, np, 2, e)
    BY <1>3, PixelsAddUp
  <1> QED
    BY <1>1, <1>2, <1>4 DEF AllBits

-----------------------------------------------------------------------------
(* The high planes. *)

Look(u, buf, ne, nz) == IF u = "c" THEN high_planes_zero_c(buf, ne, nz) ELSE high_planes_zero(buf, ne, nz)

\* What high_planes_zero finds is so, and the buffer still stands for the block.
LEMMA LookStands ==
    ASSUME NEW ne \in Nat \ {0}, NEW px, NEW buf, NEW nz, StandsFor(buf, px, ne, nz), NEW u
    PROVE  LET look == Look(u, buf, ne, nz)
           IN  /\ StandsFor(look.raw, px, ne, nz)
               /\ look.zero => \A e \in 0 .. ne - 1 : Bit(px[e], 2) = 0
               /\ u = "c" => \E m \in LowBits * ne .. AllBits * ne : StandsFor(look.raw, px, ne, m)
  <1> DEFINE look == Look(u, buf, ne, nz)
             low  == LowBits * ne
             all  == AllBits * ne
  <1>1. low \in Nat /\ all \in Nat /\ low <= all /\ nz \in Nat /\ nz <= all
    BY DEF StandsFor, LowBits, AllBits
  <1>2. \A e \in 0 .. ne - 1 : Place(2, ne, e) = low + e
    BY DEF Place, LowBits
  <1> HIDE DEF low
  <1>3. CASE nz <= low
    <2>1. look.zero = TRUE /\ look.raw = IF u = "c" THEN Fill(buf, nz, low) ELSE buf
      BY <1>3 DEF Look, high_planes_zero, high_planes_zero_c, low
    <2>2. StandsFor(Fill(buf, nz, low), px, ne, nz) /\ StandsFor(Fill(buf, nz, low), px, ne, low)
      BY <1>1, <1>3, FilledStands
    <2>3. ASSUME NEW e \in 0 .. ne - 1 PROVE Bit(px[e], 2) = 0
      <3>1. IF Place(2, ne, e) < nz THEN buf[Place(2, ne, e)] = Bit(px[e], 2) ELSE Bit(px[e], 2) = 0
        BY DEF StandsFor
      <3>2. ~ (low + e < nz)
        BY <1>1, <1>3
      <3> QED
        BY <1>2, <3>1, <3>2
    <2>4. low \in low .. all
      BY <1>1
    <2> HIDE DEF look
    <2> QED
      BY <2>1, <2>2, <2>3, <2>4 DEF look, low
  <1>4. CASE ~ (nz <= low)
    <2> DEFINE full == Fill(buf, nz, all)
    <2>1. look.zero = all_zero(full, low, all) /\ look.raw = full
      BY <1>4 DEF Look, high_planes_zero, high_planes_zero_c, low
    <2>2. StandsFor(full, px, ne, nz) /\ StandsFor(full, px, ne, all)
      BY <1>1, FilledStands
    <2> HIDE DEF full
    <2>3. ASSUME all_zero(full, low, all), NEW e \in 0 .. ne - 1 PROVE Bit(px[e], 2) = 0
      <3>1. IF Place(2, ne, e) < all THEN full[Place(2, ne, e)] = Bit(px[e], 2) ELSE Bit(px[e], 2) = 0
        BY <2>2 DEF StandsFor
      <3>2. low + e \in low .. all - 1
        BY <1>1 DEF low, LowBits, AllBits
      <3>3. full[low + e] = 0
        BY <2>3, <3>2 DEF all_zero
      <3> QED
        BY <1>2, <3>1, <3>2, <3>3
    <2>4. all \in low .. all
      BY <1>1
    <2> HIDE DEF look
    <2> QED
      BY <2>1, <2>2, <2>3, <2>4 DEF look, low
  <1> QED
    BY <1>3, <1>4

\* The planes a fused collect reads give the pixels of a block whose high planes are zero.
LEMMA FusedPixels ==
    ASSUME NEW ne \in Nat \ {0}, NEW px, NEW buf, NEW nz, StandsFor(buf, px, ne, nz),
           NEW e \in 0 .. ne - 1, Bit(px[e], 2) = 0, NEW upto \in Nat, ne <= upto
    PROVE  Pixels(FillLast(buf, ne, nz), ne, PlanesWritten(ne, nz), LowBits, upto)[e] = px[e]
  <1> DEFINE z  == Lowest(nz, LowBits * ne)
             np == PlanesWritten(ne, nz)
             f  == Fill(buf, z, np * ne)
  <1>1. nz \in Nat /\ z \in Nat /\ z <= nz /\ z <= 2 * ne /\ (z = nz \/ z = 2 * ne)
        /\ buf \in [0 .. AllBits * ne - 1 -> Int] /\ px[e] \in 0 .. Word - 1
    BY DEF StandsFor, Lowest, LowBits
  <1>2. np = (z + ne - 1) \div ne
    BY DEF PlanesWritten
  <1>3. FillLast(buf, ne, nz) = f
    BY DEF FillLast
  <1> HIDE DEF z, np
  <1>4. /\ z = 0 => np = 0
        /\ z > 0 /\ z <= ne => np = 1
        /\ z > ne => np = 2
    <2>1. ASSUME z = 0 PROVE (z + ne - 1) \div ne = 0
      BY <2>1
    <2>2. ASSUME z > 0, z <= ne PROVE (z + ne - 1) \div ne = 1
      BY <1>1, <2>2
    <2>3. ASSUME z > ne PROVE (z + ne - 1) \div ne = 2
      BY <1>1, <2>3
    <2> QED
      BY <1>2, <2>1, <2>2, <2>3
  <1>5. np \in {0, 1, 2}
    BY <1>1, <1>4
  <1>6. ASSUME NEW p \in {0, 1} PROVE Gives(f, ne, np, px[e], p, e)
    <2> DEFINE i == Place(p, ne, e)
    <2>1. IF i < nz THEN buf[i] = Bit(px[e], p) ELSE Bit(px[e], p) = 0
      BY DEF StandsFor
    <2>2. i = IF p = 0 THEN e ELSE ne + e
      BY DEF Place
    <2>3. i \in 0 .. AllBits * ne - 1
      BY PlaceWithin
    <2>4. p * ne + e = i
      BY DEF Place
    <2> HIDE DEF i
    <2>5. DOMAIN f = 0 .. AllBits * ne - 1 /\ f[i] = IF i >= z /\ i < np * ne THEN 0 ELSE buf[i]
      BY <1>1, <2>3 DEF Fill
    <2> HIDE DEF f
    <2>6. FromPlane(f, ne, np, p, e) = IF p < np THEN 2^p * f[i] ELSE 0
      BY <2>3, <2>4, <2>5 DEF FromPlane
    <2>7. 2^0 = 1 /\ 2^1 = 2
      OBVIOUS
    <2>8. CASE p < np
      <3>1. i < np * ne
        <4>1. CASE p = 0
          BY <1>5, <2>2, <2>8, <4>1
        <4>2. CASE p = 1
          BY <1>5, <2>2, <2>8, <4>2
        <4> QED
          BY <4>1, <4>2
      <3>2. i < 2 * ne
        BY <2>2
      <3>3. f[i] = Bit(px[e], p)
        <4>1. CASE i < z
          BY <1>1, <2>1, <2>3, <2>5, <4>1
        <4>2. CASE i >= z
          <5>1. ~ (i < nz)
            BY <1>1, <2>3, <3>2, <4>2
          <5> QED
            BY <2>1, <2>5, <3>1, <4>2, <5>1
        <4> QED
          BY <1>1, <2>3, <4>1, <4>2
      <3> QED
        BY <2>6, <2>7, <2>8, <3>3 DEF Gives
    <2>9. CASE ~ (p < np)
      <3>1. i >= z /\ ~ (i < nz)
        <4>1. CASE p = 0
          BY <1>1, <1>4, <1>5, <2>2, <2>9, <4>1
        <4>2. CASE p = 1
          BY <1>1, <1>4, <1>5, <2>2, <2>9, <4>2
        <4> QED
          BY <4>1, <4>2
      <3>2. Bit(px[e], p) = 0
        BY <2>1, <3>1
      <3> QED
        BY <2>6, <2>9, <3>2 DEF Gives
    <2> QED
      BY <2>8, <2>9
  <1> HIDE DEF f
  <1>7. e \in 0 .. upto - 1
    OBVIOUS
  <1>8. Gives(f, ne, np, px[e], 0, e) /\ Gives(f, ne, np, px[e], 1, e)
    BY <1>6
  <1> QED
    BY <1>1, <1>3, <1>7, <1>8, LowPixel DEF np

-----------------------------------------------------------------------------
(* Untransposed. *)

\* All planes of a buffer that holds them all give the pixels.
LEMMA BackendPixels ==
    ASSUME NEW ne \in Nat \ {0}, NEW px, NEW buf, StandsFor(buf, px, ne, AllBits * ne)
    PROVE  LET b == untranspose_backend(buf, ne)
           IN  DOMAIN b = 0 .. ne - 1 /\ \A e \in 0 .. ne - 1 : b[e] = px[e]
  <1>1. DOMAIN untranspose_backend(buf, ne) = 0 .. ne - 1
    BY DEF untranspose_backend, Pixels
  <1>2. ASSUME NEW e \in 0 .. ne - 1 PROVE untranspose_backend(buf, ne)[e] = px[e]
    <2>1. px[e] \in 0 .. Word - 1
      BY DEF StandsFor
    <2>2. ASSUME NEW p \in 0 .. 2 PROVE Gives(buf, ne, AllBits, px[e], p, e)
      <3>1. Place(p, ne, e) < AllBits * ne
        <4>1. Place(p, ne, e) \in 0 .. AllBits * ne - 1
          BY PlaceWithin
        <4> QED
          BY <4>1 DEF AllBits
      <3>2. p < AllBits
        BY DEF AllBits
      <3> QED
        BY <3>1, <3>2, StandingGives
    <2>3. Gives(buf, ne, AllBits, px[e], 0, e) /\ Gives(buf, ne, AllBits, px[e], 1, e)
          /\ Gives(buf, ne, AllBits, px[e], 2, e)
      BY <2>2
    <2> QED
      BY <2>1, <2>3, FullPixel DEF untranspose_backend
  <1> QED
    BY <1>1, <1>2

\* The low planes of a buffer that holds them give the pixels of a block without high ones.
LEMMA LowPlanesPixels ==
    ASSUME NEW ne \in Nat \ {0}, NEW px, NEW buf, NEW m \in LowBits * ne .. AllBits * ne,
           StandsFor(buf, px, ne, m), \A e \in 0 .. ne - 1 : Bit(px[e], 2) = 0
    PROVE  LET b == Pixels(buf, ne, LowBits, LowBits, ne)
           IN  DOMAIN b = 0 .. ne - 1 /\ \A e \in 0 .. ne - 1 : b[e] = px[e]
  <1>1. DOMAIN Pixels(buf, ne, LowBits, LowBits, ne) = 0 .. ne - 1
    BY DEF Pixels
  <1>2. ASSUME NEW e \in 0 .. ne - 1 PROVE Pixels(buf, ne, LowBits, LowBits, ne)[e] = px[e]
    <2>1. px[e] \in 0 .. Word - 1 /\ Bit(px[e], 2) = 0
      BY DEF StandsFor
    <2>2. ASSUME NEW p \in {0, 1} PROVE Gives(buf, ne, LowBits, px[e], p, e)
      <3>1. Place(p, ne, e) < m
        BY DEF Place, LowBits, AllBits
      <3>2. p < LowBits /\ p \in 0 .. 2
        BY DEF LowBits
      <3> QED
        BY <3>1, <3>2, StandingGives
    <2>3. Gives(buf, ne, LowBits, px[e], 0, e) /\ Gives(buf, ne, LowBits, px[e], 1, e)
      BY <2>2
    <2> QED
      BY <2>1, <2>3, LowPixel
  <1> QED
    BY <1>1, <1>2

\* bslz4_untranspose_full of driver.c: whatever the untranspose step and wherever the decoder stopped,
\* the block is the pixels the buffer stands for.
THEOREM UntransposedPixels ==
    ASSUME NEW ne \in Nat \ {0}, NEW px, NEW buf, NEW nz, StandsFor(buf, px, ne, nz), NEW u
    PROVE  LET b == untranspose_full(u, buf, ne, nz)
           IN  DOMAIN b = 0 .. ne - 1 /\ \A e \in 0 .. ne - 1 : b[e] = px[e]
  <1> DEFINE all  == AllBits * ne
             full == Fill(buf, nz, all)
             b    == untranspose_full(u, buf, ne, nz)
             fast == u \in {"vbmi", "avx2"} /\ ne % GroupPx = 0 /\ all_zero(full, LowBits * ne, all)
  <1>1. nz \in Nat /\ nz <= all /\ all \in Nat
    BY DEF StandsFor, AllBits
  <1>2. StandsFor(full, px, ne, all)
    BY <1>1, FilledStands
  <1> HIDE DEF full
  <1>3. CASE u \in FusedValues /\ fast
    <2>1. b = FastBlock(u, full, ne)
      BY <1>3 DEF untranspose_full, lowplanes_block, full
    <2>2. FastBlock(u, full, ne) = Pixels(full, ne, LowBits, LowBits, ne)
      BY <1>3 DEF FastBlock, untrans_lowplanes_u16, GroupPx
    <2>3. ASSUME NEW e \in 0 .. ne - 1 PROVE Bit(px[e], 2) = 0
      <3> DEFINE i == Place(2, ne, e)
      <3>1. i \in 0 .. all - 1
        BY PlaceWithin
      <3>2. IF i < all THEN full[i] = Bit(px[e], 2) ELSE Bit(px[e], 2) = 0
        BY <1>2 DEF StandsFor
      <3>3. i \in LowBits * ne .. all - 1
        BY DEF Place, LowBits, AllBits
      <3> HIDE DEF i
      <3>4. full[i] = 0
        BY <1>3, <3>3 DEF all_zero
      <3> QED
        BY <1>1, <3>1, <3>2, <3>4
    <2>4. all \in LowBits * ne .. AllBits * ne
      BY DEF LowBits, AllBits
    <2> HIDE DEF all, b
    <2>5. DOMAIN Pixels(full, ne, LowBits, LowBits, ne) = 0 .. ne - 1
          /\ \A e \in 0 .. ne - 1 : Pixels(full, ne, LowBits, LowBits, ne)[e] = px[e]
      BY <1>2, <2>3, <2>4, LowPlanesPixels
    <2> QED
      BY <2>1, <2>2, <2>5 DEF b
  <1>4. CASE ~ (u \in FusedValues /\ fast)
    <2>1. b = untranspose_backend(full, ne)
      BY <1>4 DEF untranspose_full, lowplanes_block, full
    <2> HIDE DEF b
    <2>2. DOMAIN untranspose_backend(full, ne) = 0 .. ne - 1
          /\ \A e \in 0 .. ne - 1 : untranspose_backend(full, ne)[e] = px[e]
      BY <1>2, BackendPixels
    <2> QED
      BY <2>1, <2>2 DEF b
  <1> QED
    BY <1>3, <1>4

\* A tail is decoded whole and untransposed by kcb.
LEMMA TailPixels ==
    ASSUME NEW n \in Nat, NEW px, \A e \in 0 .. n - 1 : px[e] \in 0 .. Word - 1
    PROVE  LET b == untranspose_backend(PlanesOf(px, n), n)
           IN  DOMAIN b = 0 .. n - 1 /\ \A e \in 0 .. n - 1 : b[e] = px[e]
  <1> DEFINE planes == PlanesOf(px, n)
  <1>1. CASE n = 0
    <2>1. DOMAIN untranspose_backend(planes, n) = 0 .. n - 1
      BY DEF untranspose_backend, Pixels
    <2>2. \A e \in 0 .. n - 1 : FALSE
      BY <1>1
    <2> HIDE DEF planes
    <2> QED
      BY <2>1, <2>2 DEF planes
  <1>2. CASE n # 0
    <2> DEFINE all == AllBits * n
               none == [i \in 0 .. AllBits * n - 1 |-> 0]
    <2>1. n \in Nat \ {0} /\ all \in 0 .. AllBits * n
      BY <1>2 DEF AllBits
    <2>2. DOMAIN planes = 0 .. AllBits * n - 1
      BY DEF PlanesOf
    <2>3. none \in [0 .. AllBits * n - 1 -> Int]
      OBVIOUS
    <2>4. \A i \in DOMAIN planes : i >= all => planes[i] = 0
      BY <2>1, <2>2 DEF AllBits
    <2>5. LeftBy(planes, all, none) = planes
      <3>1. \A i \in DOMAIN planes : i < all
        BY <2>2 DEF AllBits
      <3>2. planes = [i \in DOMAIN planes |-> planes[i]]
        BY DEF PlanesOf
      <3> HIDE DEF planes, all, none
      <3>3. LeftBy(planes, all, none) = [i \in DOMAIN planes |-> planes[i]]
        BY <3>1 DEF LeftBy
      <3> QED
        BY <3>2, <3>3
    <2> HIDE DEF none, all
    <2>6. StandsFor(LeftBy(PlanesOf(px, n), all, none), px, n, all)
      BY <2>1, <2>3, <2>4, DecodedStands
    <2>7. StandsFor(planes, px, n, AllBits * n)
      BY <2>5, <2>6 DEF all
    <2> QED
      BY <2>1, <2>7, BackendPixels
  <1> QED
    BY <1>1, <1>2

-----------------------------------------------------------------------------
(* The groups of a tile. *)

\* What is in S of a list in order is a list in order.
LEMMA PickedOrdered ==
    ASSUME NEW seq, NEW G, Ordered(seq, G), NEW S
    PROVE  Ordered(Picked(seq, S), G \cap S) /\ ToSet(seq) = G
  <1> DEFINE n  == Len(seq)
             is == Picked(seq, S)
  <1>1. seq \in Seq(Nat) /\ n \in Nat /\ DOMAIN seq = 1 .. n
    BY DEF Ordered
  <1>2. ToSet(seq) = G
    BY <1>1 DEF ToSet, Ordered
  <1>3. ToSet(seq) \subseteq Nat
    BY <1>1 DEF ToSet
  <1>4. Chosen(S, seq, is, n)
    BY <1>1, PickedIsChosen
  <1> HIDE DEF is, n
  <1>5. is \in Seq(ToSet(seq)) /\ Len(is) \in Nat
    BY <1>4 DEF Chosen
  <1>6. is \in Seq(Nat)
    BY <1>3, <1>5
  <1>7. PICK at : ChosenAt(S, seq, is, n, at)
    BY <1>4 DEF Chosen
  <1>8. \A k \in 1 .. Len(is) : is[k] \in G \cap S
    <2>1. ASSUME NEW k \in 1 .. Len(is) PROVE is[k] \in S
      BY <1>7 DEF ChosenAt
    <2>2. ASSUME NEW k \in 1 .. Len(is) PROVE is[k] \in G
      BY <1>2, <1>5
    <2> QED
      BY <2>1, <2>2
  <1>9. ASSUME NEW x \in G \cap S PROVE \E k \in 1 .. Len(is) : is[k] = x
    <2>1. PICK p \in 1 .. n : seq[p] = x
      BY DEF Ordered, n
    <2>2. PICK k \in 1 .. Len(is) : at[k] = p
      BY <1>7, <2>1 DEF ChosenAt
    <2>3. is[k] = x
      BY <1>7, <2>1, <2>2 DEF ChosenAt
    <2> QED
      BY <2>3
  <1>10. ASSUME NEW k \in 1 .. Len(is), NEW l \in 1 .. Len(is), k < l PROVE is[k] < is[l]
    <2>1. at[k] < at[l] /\ at[k] \in 1 .. n /\ at[l] \in 1 .. n /\ is[k] = seq[at[k]] /\ is[l] = seq[at[l]]
      BY <1>7, <1>10 DEF ChosenAt
    <2>2. \A p, q \in 1 .. n : p < q => seq[p] < seq[q]
      BY DEF Ordered, n
    <2> QED
      BY <2>1, <2>2
  <1> QED
    BY <1>2, <1>6, <1>8, <1>9, <1>10 DEF Ordered, is

\* A call of a fused collect.
IsLowCall(c) == IsCall(c) /\ c.cut \in Nat

\* A kept pixel is not 0: the fused collects may pass over zeros.
LEMMA LowKept ==
    ASSUME NEW c, IsLowCall(c), NEW from \in Nat, NEW upto \in Nat, NEW x \in Keep(c, from, upto)
    PROVE  c.px[x] # 0 /\ x \in from .. upto - 1
  BY DEF Keep, Greater, IsLowCall, NaN

\* The groups of a tile of m groups from t on; hit lists those with a selection, and maybe others.
Groups(t, m) == {t + GroupPx * (q - 1) : q \in 1 .. m}
Hits(c, t, m, hit) ==
    /\ c.n \in Nat /\ t \in Nat /\ m \in Nat /\ t + GroupPx * m <= c.n
    /\ \E H \in SUBSET Groups(t, m) :
          Ordered(hit, H) /\ \A g \in Groups(t, m) : Keep(c, g, g + GroupPx) # {} => g \in H

\* The groups of a tile, in order.
LEMMA TileGroupsOrdered ==
    ASSUME NEW ne \in Nat, NEW t \in Nat, t <= ne
    PROVE  LET m == Lowest(ne - t, TilePx) \div GroupPx
           IN  m \in Nat /\ Ordered(TileGroups(ne, t), Groups(t, m)) /\ Len(TileGroups(ne, t)) = m
  <1> DEFINE m  == Lowest(ne - t, TilePx) \div GroupPx
             gs == TileGroups(ne, t)
  <1>1. m \in Nat
    <2>1. Lowest(ne - t, TilePx) \in Nat
      BY DEF Lowest, TilePx
    <2> QED
      BY <2>1 DEF GroupPx
  <1>2. gs = [q \in 1 .. m |-> t + GroupPx * (q - 1)]
    BY DEF TileGroups
  <1> HIDE DEF m, gs
  <1>3. gs \in Seq(Nat) /\ Len(gs) = m /\ \A q \in 1 .. m : gs[q] = t + GroupPx * (q - 1)
    BY <1>1, <1>2 DEF GroupPx
  <1>4. \A x \in Groups(t, m) : \E k \in 1 .. Len(gs) : gs[k] = x
    BY <1>3 DEF Groups
  <1>5. \A k \in 1 .. Len(gs) : gs[k] \in Groups(t, m)
    BY <1>3 DEF Groups
  <1>6. \A k, l \in 1 .. Len(gs) : k < l => gs[k] < gs[l]
    BY <1>1, <1>3 DEF GroupPx
  <1> QED
    BY <1>1, <1>3, <1>4, <1>5, <1>6 DEF Ordered, m, gs

\* Every pixel of a tile is in one of its groups.
LEMMA InAGroup ==
    ASSUME NEW t \in Nat, NEW m \in Nat, NEW x \in t .. t + GroupPx * m - 1
    PROVE  \E g \in Groups(t, m) : g \in Nat /\ g <= x /\ x < g + GroupPx
  <1> DEFINE q == (x - t) \div 4 + 1
             g == t + GroupPx * (q - 1)
  <1>1. q \in 1 .. m /\ g \in Nat /\ g <= x /\ x < g + GroupPx
    BY DEF GroupPx
  <1> HIDE DEF q
  <1>2. g \in Groups(t, m)
    BY <1>1 DEF Groups
  <1> HIDE DEF g
  <1> QED
    BY <1>1, <1>2

\* Where a group is.
LEMMA GroupFacts ==
    ASSUME NEW t \in Nat, NEW m \in Nat, NEW g \in Groups(t, m)
    PROVE  g \in Nat /\ t <= g /\ g + GroupPx <= t + GroupPx * m
  BY DEF Groups, GroupPx

\* Groups do not overlap.
LEMMA GroupsApart ==
    ASSUME NEW t \in Nat, NEW m \in Nat, NEW g \in Groups(t, m), NEW h \in Groups(t, m), g < h
    PROVE  g + GroupPx <= h
  BY DEF Groups, GroupPx

HitEnd(t, hit, k) == IF k = 0 THEN t ELSE hit[k] + GroupPx
HitsSoFar(c, d, e, a, k) == SoFar(c, a, HitEnd(e.t, e.hit, k))

\* Where nothing is kept from one pixel on to another, a list up to the one stands for the other.
LEMMA NothingBetween ==
    ASSUME NEW c, NEW a, NEW i \in Nat, NEW j \in Nat, i <= j, SoFar(c, a, i), Keep(c, i, j) = {}
    PROVE  SoFar(c, a, j)
  <1> DEFINE w == j - i
  <1>1. w \in Nat /\ i + w = j
    OBVIOUS
  <1> HIDE DEF w
  <1>2. Keep(c, i, i + w) = {}
    BY <1>1
  <1>3. SoFar(c, a, i + w)
    BY <1>1, <1>2, GroupSkipped
  <1> QED
    BY <1>1, <1>3

\* Between the end of a hit and the next one, or the end of the tile, nothing is selected.
LEMMA NextHit ==
    ASSUME NEW c, NEW t, NEW m, NEW hit, Hits(c, t, m, hit), NEW k \in 0 .. Len(hit)
    PROVE  LET next == IF k < Len(hit) THEN hit[k + 1] ELSE t + GroupPx * m
           IN  /\ HitEnd(t, hit, k) \in Nat /\ next \in Nat /\ HitEnd(t, hit, k) <= next
               /\ Keep(c, HitEnd(t, hit, k), next) = {}
               /\ k < Len(hit) => hit[k + 1] + GroupPx <= c.n
  <1> DEFINE end  == HitEnd(t, hit, k)
             T    == t + GroupPx * m
             next == IF k < Len(hit) THEN hit[k + 1] ELSE T
             G    == Groups(t, m)
  <1>1. t \in Nat /\ m \in Nat /\ T \in Nat /\ T <= c.n /\ t <= T /\ c.n \in Nat
    BY DEF Hits, GroupPx
  <1>2. PICK H \in SUBSET G : Ordered(hit, H) /\ \A g \in G : Keep(c, g, g + GroupPx) # {} => g \in H
    BY DEF Hits
  <1>3. Len(hit) \in Nat /\ \A l \in 1 .. Len(hit) : hit[l] \in H /\ hit[l] \in G
    BY <1>2 DEF Ordered
  <1>4. \A l, n \in 1 .. Len(hit) : l < n => hit[l] < hit[n]
    BY <1>2 DEF Ordered
  <1>5. \A x \in H : \E l \in 1 .. Len(hit) : hit[l] = x
    BY <1>2 DEF Ordered
  <1>6. \A g \in G : g \in Nat /\ t <= g /\ g + GroupPx <= T
    BY <1>1, GroupFacts
  <1>7. \A g, h \in G : g < h => g + GroupPx <= h
    BY <1>1, GroupsApart
  <1>8. ASSUME NEW x \in t .. T - 1 PROVE \E g \in G : g <= x /\ x < g + GroupPx
    <2>1. x \in t .. t + GroupPx * m - 1
      BY <1>1 DEF T, GroupPx
    <2> QED
      BY <1>1, <2>1, InAGroup
  <1> HIDE DEF G, T
  <1>9. k = 0 => end = t
    BY DEF HitEnd
  <1>10. k # 0 => end = hit[k] + GroupPx /\ hit[k] \in G /\ hit[k] \in Nat
    BY <1>3, <1>6 DEF HitEnd
  <1> HIDE DEF end
  <1>11. end \in Nat /\ t <= end /\ end <= T
    BY <1>1, <1>6, <1>9, <1>10 DEF GroupPx
  <1>12. ASSUME k < Len(hit)
        PROVE hit[k + 1] \in G /\ hit[k + 1] \in Nat /\ end <= hit[k + 1] /\ hit[k + 1] + GroupPx <= T
    <2>1. k + 1 \in 1 .. Len(hit)
      BY <1>3, <1>12
    <2>2. hit[k + 1] \in G /\ hit[k + 1] \in Nat /\ t <= hit[k + 1] /\ hit[k + 1] + GroupPx <= T
      BY <1>3, <1>6, <2>1
    <2>3. CASE k = 0
      BY <1>9, <2>2, <2>3
    <2>4. CASE k # 0
      <3>1. hit[k] < hit[k + 1]
        BY <1>3, <1>4, <2>1, <2>4
      <3> QED
        BY <1>7, <1>10, <2>2, <2>4, <3>1
    <2> QED
      BY <2>2, <2>3, <2>4
  <1>13. next \in Nat /\ end <= next /\ next <= T
    <2>1. CASE k < Len(hit)
      BY <1>1, <1>12, <2>1 DEF GroupPx
    <2>2. CASE ~ (k < Len(hit))
      BY <1>1, <1>11, <2>2
    <2> QED
      BY <2>1, <2>2
  <1>14. ASSUME NEW x \in Keep(c, end, next) PROVE FALSE
    <2>1. x \in end .. next - 1 /\ mask_ok(c, x) /\ Greater(c.px[x], c.cut)
      BY DEF Keep
    <2>2. x \in t .. T - 1
      BY <1>1, <1>11, <1>13, <2>1
    <2>3. PICK g \in G : g <= x /\ x < g + GroupPx
      BY <1>8, <2>2
    <2>4. g \in Nat
      BY <1>6
    <2>5. x \in Keep(c, g, g + GroupPx)
      BY <1>13, <2>1, <2>3, <2>4 DEF Keep, GroupPx
    <2>6. g \in H
      BY <1>2, <2>5 DEF G
    <2>7. PICK l \in 1 .. Len(hit) : hit[l] = g
      BY <1>5, <2>6
    <2>8. k < l
      <3>1. CASE k = 0
        BY <3>1
      <3>2. CASE k # 0
        <4>1. k \in 1 .. Len(hit)
          BY <1>3, <3>2
        <4>2. hit[k] < g
          BY <1>10, <2>1, <2>3, <2>4, <3>2 DEF GroupPx
        <4>3. ASSUME l <= k PROVE FALSE
          <5>1. CASE l = k
            BY <1>10, <2>4, <2>7, <3>2, <4>2, <5>1
          <5>2. CASE l < k
            <6>1. hit[l] < hit[k]
              BY <1>4, <4>1, <5>2
            <6> QED
              BY <1>10, <2>4, <2>7, <3>2, <4>2, <6>1
          <5> QED
            BY <1>3, <4>1, <4>3, <5>1, <5>2
        <4> QED
          BY <1>3, <4>1, <4>3
      <3> QED
        BY <3>1, <3>2
    <2>9. k < Len(hit) /\ next = hit[k + 1] /\ k + 1 \in 1 .. Len(hit)
      BY <1>3, <2>8
    <2>10. hit[k + 1] \in Nat
      BY <1>12, <2>9
    <2>11. g < hit[k + 1]
      BY <2>1, <2>3, <2>4, <2>9, <2>10
    <2>12. CASE l = k + 1
      BY <2>4, <2>7, <2>11, <2>12
    <2>13. CASE l # k + 1
      <3>1. k + 1 < l
        BY <1>3, <2>8, <2>13
      <3>2. hit[k + 1] < hit[l]
        BY <1>4, <2>9, <3>1
      <3> QED
        BY <2>4, <2>7, <2>10, <2>11, <3>2
    <2> QED
      BY <2>12, <2>13
  <1>15. k < Len(hit) => hit[k + 1] + GroupPx <= c.n
    <2>1. ASSUME k < Len(hit) PROVE hit[k + 1] + GroupPx <= c.n
      <3>1. hit[k + 1] + GroupPx <= T /\ hit[k + 1] \in Nat
        BY <1>12, <2>1
      <3> QED
        BY <1>1, <3>1 DEF GroupPx
    <2> QED
      BY <2>1
  <1> QED
    BY <1>11, <1>13, <1>14, <1>15 DEF end, T

\* Up to the next hit, or to the end of the tile, by what stands after a hit.
LEMMA ReachesNextHit ==
    ASSUME NEW c, NEW t, NEW m, NEW hit, Hits(c, t, m, hit), NEW k \in 0 .. Len(hit), NEW a,
           SoFar(c, a, HitEnd(t, hit, k))
    PROVE  /\ k < Len(hit) => /\ SoFar(c, a, hit[k + 1]) /\ hit[k + 1] \in Nat
                              /\ hit[k + 1] + GroupPx <= c.n
           /\ k = Len(hit) => SoFar(c, a, t + GroupPx * m)
  <1> DEFINE i    == HitEnd(t, hit, k)
             next == IF k < Len(hit) THEN hit[k + 1] ELSE t + GroupPx * m
  <1>1. i \in Nat /\ next \in Nat /\ i <= next /\ Keep(c, i, next) = {}
        /\ (k < Len(hit) => hit[k + 1] + GroupPx <= c.n)
    BY NextHit
  <1> HIDE DEF i, next
  <1>2. SoFar(c, a, next)
    BY <1>1, NothingBetween DEF i
  <1>3. k < Len(hit) => next = hit[k + 1]
    BY DEF next
  <1>4. k = Len(hit) => next = t + GroupPx * m
    BY DEF next
  <1> QED
    BY <1>1, <1>2, <1>3, <1>4

VbmiStep(c, d, a, g) == lowplanes_emit(a, c, g)
VbmiHits == INSTANCE Folding WITH Op <- VbmiStep, Inv <- HitsSoFar
Avx2Step(c, d, a, g) == avx2_emit(a, c, g)
Avx2Hits == INSTANCE Folding WITH Op <- Avx2Step, Inv <- HitsSoFar

\* What VBMI stores of a group: the values at once, the addresses in four parts.
LEMMA VbmiEmitted ==
    ASSUME NEW c, IsCall(c), NEW a, NEW g \in Nat, g + GroupPx <= c.n, SoFar(c, a, g)
    PROVE  SoFar(c, lowplanes_emit(a, c, g), g + GroupPx)
  <1>1. GroupPx = 4 /\ GroupPx \div 4 = 1 /\ 4 = 1 * 4 /\ 4 \div 1 = 4
    BY DEF GroupPx
  <1>2. g + 4 <= c.n
    BY <1>1
  <1>3. SoFar(c, PushParts(a, c, g, 4, 1), g + 4)
    BY <1>1, <1>2, PartsPushed
  <1> QED
    BY <1>1, <1>3 DEF lowplanes_emit

\* What AVX2 stores of a group: a lone pixel alone, more of them in two parts.
LEMMA Avx2Emitted ==
    ASSUME NEW c, IsCall(c), NEW a, NEW g \in Nat, g + GroupPx <= c.n, SoFar(c, a, g)
    PROVE  SoFar(c, avx2_emit(a, c, g), g + GroupPx)
  <1> DEFINE one  == PushWide(a, c, Bits(c, g, 2), 2)
             two  == PushWide(one, c, Bits(c, g + 2, 2), 2)
             lone == Push(a, c, Bits(c, g, 4))
  <1>1. c.n \in Nat /\ GroupPx = 4 /\ GroupPx \div 2 = 2
    BY DEF IsCall, GroupPx
  <1>2. g + 2 \in Nat /\ g + 2 <= c.n /\ (g + 2) + 2 <= c.n /\ (g + 2) + 2 = g + 4 /\ g + 4 <= c.n
    BY <1>1
  <1>3. SoFar(c, one, g + 2)
    BY <1>2, BitsPushed
  <1> HIDE DEF one
  <1>4. SoFar(c, two, (g + 2) + 2)
    BY <1>2, <1>3, BitsPushed
  <1> HIDE DEF two
  <1>5. SoFar(c, lone, g + 4)
    BY <1>2, BitsPushed
  <1>6. avx2_emit(a, c, g) = IF Len(Bits(c, g, 4)) <= ScalarMax THEN lone ELSE two
    BY <1>1 DEF avx2_emit, one, two
  <1> HIDE DEF lone
  <1> QED
    BY <1>1, <1>2, <1>4, <1>5, <1>6

\* The hits of a tile, one after the other.
LEMMA VbmiTile ==
    ASSUME NEW c, IsCall(c), NEW t, NEW m, NEW hit, Hits(c, t, m, hit), Len(hit) \in Nat,
           DOMAIN hit = 1 .. Len(hit), NEW o, SoFar(c, o, t)
    PROVE  SoFar(c, VbmiHits!Fold(c, 0, o, hit), t + GroupPx * m)
  <1> DEFINE e == [t |-> t, hit |-> hit]
             n == Len(hit)
             r == VbmiHits!Fold(c, 0, o, hit)
  <1>1. HitsSoFar(c, 0, e, o, 0)
    BY DEF HitsSoFar, HitEnd
  <1>2. ASSUME NEW k \in 1 .. n, NEW a, HitsSoFar(c, 0, e, a, k - 1)
        PROVE  HitsSoFar(c, 0, e, VbmiStep(c, 0, a, hit[k]), k)
    <2> DEFINE l == k - 1
               g == hit[k]
    <2>1. l \in 0 .. Len(hit) /\ l < Len(hit) /\ l + 1 = k
      OBVIOUS
    <2>2. SoFar(c, a, HitEnd(t, hit, l))
      BY <1>2 DEF HitsSoFar
    <2> HIDE DEF l
    <2>3. SoFar(c, a, hit[l + 1]) /\ hit[l + 1] \in Nat /\ hit[l + 1] + GroupPx <= c.n
      BY <2>1, <2>2, ReachesNextHit
    <2>4. SoFar(c, a, g) /\ g \in Nat /\ g + GroupPx <= c.n
      BY <2>1, <2>3
    <2> HIDE DEF g
    <2>5. SoFar(c, VbmiStep(c, 0, a, g), g + GroupPx)
      BY <2>4, VbmiEmitted DEF VbmiStep
    <2>6. HitEnd(t, hit, k) = g + GroupPx
      BY DEF HitEnd, g
    <2> QED
      BY <2>5, <2>6 DEF HitsSoFar, g
  <1> HIDE DEF e
  <1>ind. VbmiHits!Counted
    BY NumbersAreCounted, Zenon DEF VbmiHits!Counted
  <1>3. HitsSoFar(c, 0, e, r, n)
    BY <1>1, <1>2, <1>ind, VbmiHits!FoldKeeps
  <1> HIDE DEF r
  <1>4. SoFar(c, r, HitEnd(t, hit, n))
    BY <1>3 DEF HitsSoFar, e
  <1>5. n \in 0 .. Len(hit)
    OBVIOUS
  <1> QED
    BY <1>4, <1>5, ReachesNextHit DEF r

\* The hits of a tile, one after the other.
LEMMA Avx2Tile ==
    ASSUME NEW c, IsCall(c), NEW t, NEW m, NEW hit, Hits(c, t, m, hit), Len(hit) \in Nat,
           DOMAIN hit = 1 .. Len(hit), NEW o, SoFar(c, o, t)
    PROVE  SoFar(c, Avx2Hits!Fold(c, 0, o, hit), t + GroupPx * m)
  <1> DEFINE e == [t |-> t, hit |-> hit]
             n == Len(hit)
             r == Avx2Hits!Fold(c, 0, o, hit)
  <1>1. HitsSoFar(c, 0, e, o, 0)
    BY DEF HitsSoFar, HitEnd
  <1>2. ASSUME NEW k \in 1 .. n, NEW a, HitsSoFar(c, 0, e, a, k - 1)
        PROVE  HitsSoFar(c, 0, e, Avx2Step(c, 0, a, hit[k]), k)
    <2> DEFINE l == k - 1
               g == hit[k]
    <2>1. l \in 0 .. Len(hit) /\ l < Len(hit) /\ l + 1 = k
      OBVIOUS
    <2>2. SoFar(c, a, HitEnd(t, hit, l))
      BY <1>2 DEF HitsSoFar
    <2> HIDE DEF l
    <2>3. SoFar(c, a, hit[l + 1]) /\ hit[l + 1] \in Nat /\ hit[l + 1] + GroupPx <= c.n
      BY <2>1, <2>2, ReachesNextHit
    <2>4. SoFar(c, a, g) /\ g \in Nat /\ g + GroupPx <= c.n
      BY <2>1, <2>3
    <2> HIDE DEF g
    <2>5. SoFar(c, Avx2Step(c, 0, a, g), g + GroupPx)
      BY <2>4, Avx2Emitted DEF Avx2Step
    <2>6. HitEnd(t, hit, k) = g + GroupPx
      BY DEF HitEnd, g
    <2> QED
      BY <2>5, <2>6 DEF HitsSoFar, g
  <1> HIDE DEF e
  <1>ind. Avx2Hits!Counted
    BY NumbersAreCounted, Zenon DEF Avx2Hits!Counted
  <1>3. HitsSoFar(c, 0, e, r, n)
    BY <1>1, <1>2, <1>ind, Avx2Hits!FoldKeeps
  <1> HIDE DEF r
  <1>4. SoFar(c, r, HitEnd(t, hit, n))
    BY <1>3 DEF HitsSoFar, e
  <1>5. n \in 0 .. Len(hit)
    OBVIOUS
  <1> QED
    BY <1>4, <1>5, ReachesNextHit DEF r

-----------------------------------------------------------------------------
(* The fused collects. *)

\* The groups VBMI and AVX2 emit of a tile.
VbmiHit(c, j, t) ==
    LET gs  == TileGroups(j.ne, t)
        gnz == IF j.sparse /\ Len(gs) * GroupPx % OrPx = 0
               THEN Picked(gs, {g \in ToSet(gs) : HoldsData(c, g)}) ELSE gs
    IN  Picked(gnz, {g \in ToSet(gnz) : lowplanes_group(c, g) # <<>>})
Avx2Hit(c, j, t) ==
    LET gs == TileGroups(j.ne, t)
    IN  Picked(gs, {g \in ToSet(gs) : HoldsData(c, g) /\ lowplanes_group(c, g) # <<>>})

TileEnd(ne, t) == t + GroupPx * (Lowest(ne - t, TilePx) \div GroupPx)

\* A list in order of some groups of a tile, with all those with a selection, is its hits.
LEMMA AreHits ==
    ASSUME NEW c, IsLowCall(c), NEW t \in Nat, t <= c.n, NEW hit, NEW H,
           H \subseteq Groups(t, Lowest(c.n - t, TilePx) \div GroupPx), Ordered(hit, H),
           \A g \in Groups(t, Lowest(c.n - t, TilePx) \div GroupPx) : Keep(c, g, g + GroupPx) # {} => g \in H
    PROVE  /\ Hits(c, t, Lowest(c.n - t, TilePx) \div GroupPx, hit)
           /\ Len(hit) \in Nat /\ DOMAIN hit = 1 .. Len(hit)
  <1> DEFINE m == Lowest(c.n - t, TilePx) \div GroupPx
  <1>1. c.n \in Nat
    BY DEF IsLowCall, IsCall
  <1>2. m \in Nat /\ t + GroupPx * m <= c.n
    BY <1>1 DEF Lowest, TilePx, GroupPx
  <1> HIDE DEF m
  <1>3. Hits(c, t, m, hit)
    <2>1. \A g \in Groups(t, m) : Keep(c, g, g + GroupPx) # {} => g \in H
      BY DEF m
    <2>2. H \in SUBSET Groups(t, m)
      BY DEF m
    <2> QED
      BY <1>1, <1>2, <2>1, <2>2 DEF Hits
  <1>4. hit \in Seq(Nat)
    BY DEF Ordered
  <1> QED
    BY <1>3, <1>4 DEF m

\* A group with a selection holds data, and its selection is not empty.
LEMMA SelectedHoldsData ==
    ASSUME NEW c, IsLowCall(c), NEW g \in Nat, Keep(c, g, g + GroupPx) # {}
    PROVE  HoldsData(c, g) /\ lowplanes_group(c, g) # <<>>
  <1>1. g + GroupPx \in Nat /\ GroupPx \in Nat
    BY DEF GroupPx
  <1>2. PICK x \in Keep(c, g, g + GroupPx) : TRUE
    OBVIOUS
  <1>3. c.px[x] # 0 /\ x \in g .. (g + GroupPx) - 1
    BY <1>1, <1>2, LowKept
  <1>4. x \in g .. g + GroupPx - 1
    BY <1>1, <1>3
  <1>5. Bits(c, g, GroupPx) # <<>>
    BY <1>1, NoBits
  <1> QED
    BY <1>3, <1>4, <1>5 DEF HoldsData, lowplanes_group

\* The groups VBMI emits are those with a selection.
LEMMA VbmiHitsAre ==
    ASSUME NEW c, IsLowCall(c), NEW j, j.ne = c.n, NEW t \in Nat, t <= c.n
    PROVE  LET hit == VbmiHit(c, j, t)
           IN  /\ Hits(c, t, Lowest(c.n - t, TilePx) \div GroupPx, hit)
               /\ Len(hit) \in Nat /\ DOMAIN hit = 1 .. Len(hit)
  <1> DEFINE m   == Lowest(c.n - t, TilePx) \div GroupPx
             G   == Groups(t, m)
             gs  == TileGroups(c.n, t)
             few == j.sparse /\ Len(gs) * GroupPx % OrPx = 0
             D   == {g \in ToSet(gs) : HoldsData(c, g)}
             gnz == IF few THEN Picked(gs, D) ELSE gs
             E   == {g \in ToSet(gnz) : lowplanes_group(c, g) # <<>>}
             F   == IF few THEN G \cap D ELSE G
             hit == Picked(gnz, E)
  <1>1. c.n \in Nat
    BY DEF IsLowCall, IsCall
  <1>2. m \in Nat /\ Ordered(gs, G)
    BY <1>1, TileGroupsOrdered
  <1>3. Ordered(Picked(gs, D), G \cap D) /\ ToSet(gs) = G
    <2> HIDE DEF gs, G, D
    <2> QED
      BY <1>2, PickedOrdered
  <1>4. Ordered(gnz, F)
    <2>1. CASE few
      BY <1>3, <2>1
    <2>2. CASE ~ few
      BY <1>2, <2>2
    <2> QED
      BY <2>1, <2>2
  <1>5. Ordered(hit, F \cap E) /\ ToSet(gnz) = F
    <2> HIDE DEF gnz, F, E
    <2> QED
      BY <1>4, PickedOrdered
  <1>6. F \cap E \subseteq G
    <2>1. F \subseteq G
      OBVIOUS
    <2> HIDE DEF F, E
    <2> QED
      BY <2>1
  <1>7. ASSUME NEW g \in G, Keep(c, g, g + GroupPx) # {} PROVE g \in F \cap E
    <2>1. g \in Nat
      <3> HIDE DEF m
      <3> QED
        BY <1>2, GroupFacts
    <2>2. HoldsData(c, g) /\ lowplanes_group(c, g) # <<>>
      BY <1>7, <2>1, SelectedHoldsData
    <2>3. g \in D
      <3> HIDE DEF G, gs
      <3> QED
        BY <1>3, <2>2
    <2>4. g \in F
      <3> HIDE DEF G, D
      <3> QED
        BY <2>3
    <2>5. g \in E
      <3> HIDE DEF F, gnz
      <3> QED
        BY <1>5, <2>2, <2>4
    <2> QED
      BY <2>4, <2>5
  <1>8. VbmiHit(c, j, t) = hit
    BY DEF VbmiHit
  <1> HIDE DEF hit, E, F
  <1>9. Hits(c, t, m, hit) /\ Len(hit) \in Nat /\ DOMAIN hit = 1 .. Len(hit)
    BY <1>5, <1>6, <1>7, AreHits
  <1> QED
    BY <1>8, <1>9

\* The groups AVX2 emits are those with a selection.
LEMMA Avx2HitsAre ==
    ASSUME NEW c, IsLowCall(c), NEW j, j.ne = c.n, NEW t \in Nat, t <= c.n
    PROVE  LET hit == Avx2Hit(c, j, t)
           IN  /\ Hits(c, t, Lowest(c.n - t, TilePx) \div GroupPx, hit)
               /\ Len(hit) \in Nat /\ DOMAIN hit = 1 .. Len(hit)
  <1> DEFINE m   == Lowest(c.n - t, TilePx) \div GroupPx
             G   == Groups(t, m)
             gs  == TileGroups(c.n, t)
             D   == {g \in ToSet(gs) : HoldsData(c, g) /\ lowplanes_group(c, g) # <<>>}
             hit == Picked(gs, D)
  <1>1. c.n \in Nat
    BY DEF IsLowCall, IsCall
  <1>2. m \in Nat /\ Ordered(gs, G)
    BY <1>1, TileGroupsOrdered
  <1>3. Ordered(hit, G \cap D) /\ ToSet(gs) = G
    <2> HIDE DEF gs, G, D
    <2> QED
      BY <1>2, PickedOrdered
  <1>4. ASSUME NEW g \in G, Keep(c, g, g + GroupPx) # {} PROVE g \in G \cap D
    <2>1. g \in Nat
      <3> HIDE DEF m
      <3> QED
        BY <1>2, GroupFacts
    <2>2. HoldsData(c, g) /\ lowplanes_group(c, g) # <<>>
      BY <1>4, <2>1, SelectedHoldsData
    <2> HIDE DEF G, gs
    <2> QED
      BY <1>3, <2>2
  <1>5. Avx2Hit(c, j, t) = hit
    BY DEF Avx2Hit
  <1> HIDE DEF hit, D
  <1>6. G \cap D \subseteq G
    OBVIOUS
  <1>7. Hits(c, t, m, hit) /\ Len(hit) \in Nat /\ DOMAIN hit = 1 .. Len(hit)
    BY <1>3, <1>4, <1>6, AreHits
  <1> QED
    BY <1>5, <1>7

TilesSoFar(c, d, e, a, k) == SoFar(c, a, Lowest(TilePx * k, c.n))
VbmiTileStep(c, j, o, t) == VbmiHits!Fold(c, 0, o, VbmiHit(c, j, t))
VbmiTiles == INSTANCE Folding WITH Op <- VbmiTileStep, Inv <- TilesSoFar
Avx2TileStep(c, j, o, t) == Avx2Hits!Fold(c, 0, o, Avx2Hit(c, j, t))
Avx2Tiles == INSTANCE Folding WITH Op <- Avx2TileStep, Inv <- TilesSoFar

\* Where a tile begins and ends.
LEMMA TileFacts ==
    ASSUME NEW ne \in Nat, ne % GroupPx = 0, NEW k \in 1 .. (ne + TilePx - 1) \div TilePx
    PROVE  LET t == TilePx * (k - 1)
           IN  /\ t \in Nat /\ t <= ne /\ Lowest(TilePx * (k - 1), ne) = t
               /\ TileEnd(ne, t) = Lowest(TilePx * k, ne)
  BY DEF TileEnd, Lowest, TilePx, GroupPx

\* The last tile ends with the block.
LEMMA LastTile ==
    ASSUME NEW ne \in Nat
    PROVE  LET m == (ne + TilePx - 1) \div TilePx
           IN  m \in Nat /\ Lowest(TilePx * m, ne) = ne /\ Lowest(TilePx * 0, ne) = 0
  BY DEF Lowest, TilePx

\* lowplanes_collect_u16 of the fused step lists the selected pixels of the block.
LEMMA lowplanes_collect_u16_lists ==
    ASSUME NEW buf, NEW j, NEW c, c = Fused(buf, j, j.ne), IsLowCall(c), c.n % GroupPx = 0
    PROVE  SoFar(c, lowplanes_collect_u16(buf, j), c.n)
  <1> DEFINE ts == Tiles(j.ne)
             m  == (c.n + TilePx - 1) \div TilePx
             r  == VbmiTiles!Fold(c, j, Empty, ts)
  <1>1. c.n \in Nat /\ c.n = j.ne
    BY DEF IsLowCall, IsCall, Fused
  <1>2. lowplanes_collect_u16(buf, j) = r
    BY DEF lowplanes_collect_u16, VbmiHit, Avx2Hit, VbmiTileStep, VbmiStep, VbmiTiles!Fold, VbmiHits!Fold, FoldLeft,
           MapThenFoldSet, Max, VbmiTiles!Greatest, VbmiHits!Greatest
  <1>3. DOMAIN ts = 1 .. m /\ \A k \in 1 .. m : ts[k] = TilePx * (k - 1)
    BY <1>1 DEF Tiles
  <1> HIDE DEF ts
  <1>4. m \in Nat /\ Lowest(TilePx * m, c.n) = c.n /\ Lowest(TilePx * 0, c.n) = 0
    BY <1>1, LastTile
  <1>5. TilesSoFar(c, j, 0, Empty, 0)
    <2>1. Keep(c, 0, 0) = {}
      BY DEF Keep
    <2> QED
      BY <1>4, <2>1, CollectedNothing DEF TilesSoFar, SoFar
  <1>6. ASSUME NEW k \in 1 .. m, NEW a, TilesSoFar(c, j, 0, a, k - 1)
        PROVE  TilesSoFar(c, j, 0, VbmiTileStep(c, j, a, ts[k]), k)
    <2> DEFINE t   == TilePx * (k - 1)
               hit == VbmiHit(c, j, t)
               n   == Lowest(c.n - t, TilePx) \div GroupPx
    <2>1. t \in Nat /\ t <= c.n /\ Lowest(TilePx * (k - 1), c.n) = t
          /\ TileEnd(c.n, t) = Lowest(TilePx * k, c.n)
      BY <1>1, TileFacts
    <2>2. SoFar(c, a, t)
      BY <1>6, <2>1 DEF TilesSoFar
    <2>3. ts[k] = t
      BY <1>3
    <2> HIDE DEF t
    <2>4. Hits(c, t, n, hit) /\ Len(hit) \in Nat /\ DOMAIN hit = 1 .. Len(hit)
      BY <1>1, <2>1, VbmiHitsAre
    <2>5. t + GroupPx * n = Lowest(TilePx * k, c.n)
      BY <2>1 DEF TileEnd
    <2>6. VbmiTileStep(c, j, a, ts[k]) = VbmiHits!Fold(c, 0, a, hit)
      BY <2>3 DEF VbmiTileStep
    <2> HIDE DEF hit, n
    <2>7. SoFar(c, VbmiHits!Fold(c, 0, a, hit), t + GroupPx * n)
      BY <2>2, <2>4, VbmiTile DEF IsLowCall
    <2> QED
      BY <2>5, <2>6, <2>7 DEF TilesSoFar
  <1> HIDE DEF m
  <1>ind. VbmiTiles!Counted
    BY NumbersAreCounted, Zenon DEF VbmiTiles!Counted
  <1>7. TilesSoFar(c, j, 0, r, m)
    BY <1>3, <1>4, <1>5, <1>6, <1>ind, VbmiTiles!FoldKeeps
  <1> HIDE DEF r
  <1> QED
    BY <1>2, <1>4, <1>7 DEF TilesSoFar

\* lowplanes_collect_avx2_impl of the fused step lists the selected pixels of the block.
LEMMA lowplanes_collect_avx2_impl_lists ==
    ASSUME NEW buf, NEW j, NEW c, c = Fused(buf, j, j.ne), IsLowCall(c), c.n % GroupPx = 0
    PROVE  SoFar(c, lowplanes_collect_avx2_impl(buf, j), c.n)
  <1> DEFINE ts == Tiles(j.ne)
             m  == (c.n + TilePx - 1) \div TilePx
             r  == Avx2Tiles!Fold(c, j, Empty, ts)
  <1>1. c.n \in Nat /\ c.n = j.ne
    BY DEF IsLowCall, IsCall, Fused
  <1>2. lowplanes_collect_avx2_impl(buf, j) = r
    BY DEF lowplanes_collect_avx2_impl, VbmiHit, Avx2Hit, Avx2TileStep, Avx2Step,
        Avx2Tiles!Fold, Avx2Hits!Fold, FoldLeft,
           MapThenFoldSet, Max, Avx2Tiles!Greatest, Avx2Hits!Greatest
  <1>3. DOMAIN ts = 1 .. m /\ \A k \in 1 .. m : ts[k] = TilePx * (k - 1)
    BY <1>1 DEF Tiles
  <1> HIDE DEF ts
  <1>4. m \in Nat /\ Lowest(TilePx * m, c.n) = c.n /\ Lowest(TilePx * 0, c.n) = 0
    BY <1>1, LastTile
  <1>5. TilesSoFar(c, j, 0, Empty, 0)
    <2>1. Keep(c, 0, 0) = {}
      BY DEF Keep
    <2> QED
      BY <1>4, <2>1, CollectedNothing DEF TilesSoFar, SoFar
  <1>6. ASSUME NEW k \in 1 .. m, NEW a, TilesSoFar(c, j, 0, a, k - 1)
        PROVE  TilesSoFar(c, j, 0, Avx2TileStep(c, j, a, ts[k]), k)
    <2> DEFINE t   == TilePx * (k - 1)
               hit == Avx2Hit(c, j, t)
               n   == Lowest(c.n - t, TilePx) \div GroupPx
    <2>1. t \in Nat /\ t <= c.n /\ Lowest(TilePx * (k - 1), c.n) = t
          /\ TileEnd(c.n, t) = Lowest(TilePx * k, c.n)
      BY <1>1, TileFacts
    <2>2. SoFar(c, a, t)
      BY <1>6, <2>1 DEF TilesSoFar
    <2>3. ts[k] = t
      BY <1>3
    <2> HIDE DEF t
    <2>4. Hits(c, t, n, hit) /\ Len(hit) \in Nat /\ DOMAIN hit = 1 .. Len(hit)
      BY <1>1, <2>1, Avx2HitsAre
    <2>5. t + GroupPx * n = Lowest(TilePx * k, c.n)
      BY <2>1 DEF TileEnd
    <2>6. Avx2TileStep(c, j, a, ts[k]) = Avx2Hits!Fold(c, 0, a, hit)
      BY <2>3 DEF Avx2TileStep
    <2> HIDE DEF hit, n
    <2>7. SoFar(c, Avx2Hits!Fold(c, 0, a, hit), t + GroupPx * n)
      BY <2>2, <2>4, Avx2Tile DEF IsLowCall
    <2> QED
      BY <2>5, <2>6, <2>7 DEF TilesSoFar
  <1> HIDE DEF m
  <1>ind. Avx2Tiles!Counted
    BY NumbersAreCounted, Zenon DEF Avx2Tiles!Counted
  <1>7. TilesSoFar(c, j, 0, r, m)
    BY <1>3, <1>4, <1>5, <1>6, <1>ind, Avx2Tiles!FoldKeeps
  <1> HIDE DEF r
  <1> QED
    BY <1>2, <1>4, <1>7 DEF TilesSoFar

-----------------------------------------------------------------------------
(* The fused collect of VSX, in blocks of whole groups. *)

VsxEach(c, j, a, e) ==
    IF c.px[e] = 0 THEN a ELSE IF j.sparse THEN StoreEach(a, c, e) ELSE Push(a, c, Bits(c, e, 1))
EachSoFar(c, j, g, a, k) == SoFar(c, a, g + k)
VsxPixels == INSTANCE Folding WITH Op <- VsxEach, Inv <- EachSoFar
VsxGroupStep(c, j, o, g) == VsxPixels!Fold(c, j, o, [k \in 1 .. GroupPx |-> g + k - 1])
VsxGroupsSoFar(c, j, d, a, k) == SoFar(c, a, GroupPx * k)
VsxGroups == INSTANCE Folding WITH Op <- VsxGroupStep, Inv <- VsxGroupsSoFar

\* A pixel stored whether it is selected or not; the count moves past a selected one only.
LEMMA EachStored ==
    ASSUME NEW c, IsCall(c), NEW a, NEW e \in Nat, e + 1 <= c.n, SoFar(c, a, e)
    PROVE  SoFar(c, StoreEach(a, c, e), e + 1)
  <1> DEFINE is == Bits(c, e, 1)
             T  == Keep(c, e, e + 1)
             S  == Keep(c, 0, e)
             v  == <<c.px[e]>>
             i  == <<c.i0 + e>>
             r  == [vals |-> Store(a.vals, a.n, v), adr |-> Store(a.adr, a.n, i), n |-> a.n + Len(is)]
  <1>1. c.n \in Nat /\ c.i0 \in Nat /\ c.px[e] \in Int
    BY DEF IsCall
  <1>2. Ordered(is, T) /\ Len(is) <= 1
    BY BitsOrdered
  <1>3. T \subseteq e .. e + 1 - 1 /\ T \subseteq {e}
    BY DEF Keep
  <1>4. Collected(c, S, a, e)
    BY DEF SoFar
  <1>5. a \in [vals : Seq(Int), adr : Seq(Int), n : Nat]
    BY <1>4 DEF Collected
  <1>6. v \in Seq(Int) /\ Len(v) = 1 /\ v[1] = c.px[e] /\ i \in Seq(Int) /\ Len(i) = 1 /\ i[1] = c.i0 + e
    BY <1>1
  <1> HIDE DEF v, i, is, T, S
  <1>7. Len(is) \in Nat /\ \A k \in 1 .. Len(is) : is[k] \in T
    BY <1>2 DEF Ordered
  <1>8. ASSUME NEW k \in 1 .. Len(is) PROVE k = 1 /\ is[k] = e
    <2>1. is[k] \in T
      BY <1>7
    <2>2. is[k] = e
      BY <1>3, <2>1
    <2> QED
      BY <1>2, <1>7, <2>2
  <1>9. \A k \in 1 .. Len(is) : v[k] = c.px[is[k]] /\ i[k] = c.i0 + is[k]
    BY <1>6, <1>8
  <1>10. Collected(c, S \cup T, r, e + 1)
    <2>1. 1 \in Nat /\ Len(is) <= Len(v) /\ Len(v) <= 1 /\ Len(is) <= Len(i) /\ Len(i) <= 1
      BY <1>2, <1>6
    <2>2. T \subseteq e .. e + 1 - 1
      BY <1>3
    <2> DEFINE w == 1
    <2>3. w \in Nat /\ Len(is) <= Len(v) /\ Len(v) <= w /\ Len(is) <= Len(i) /\ Len(i) <= w
          /\ T \subseteq e .. e + w - 1
      BY <2>1, <2>2
    <2> HIDE DEF w, r
    <2>4. Collected(c, S \cup T, [vals |-> Store(a.vals, a.n, v), adr |-> Store(a.adr, a.n, i),
                                  n |-> a.n + Len(is)], e + w)
      <3>1. c.i0 \in Nat /\ v \in Seq(Int) /\ i \in Seq(Int) /\ Ordered(is, T)
        BY <1>1, <1>2, <1>6
      <3> QED
        BY <1>4, <1>9, <2>3, <3>1, PairStored
    <2> QED
      BY <2>4 DEF r, w
  <1>11. StoreEach(a, c, e) = r
    <2> DEFINE x == Store(a.vals, a.n, v)
               y == Store(a.adr, a.n, i)
               f == [[a EXCEPT !.vals = x] EXCEPT !.adr = y]
    <2>1. StoreEach(a, c, e) = IF is # <<>> THEN [f EXCEPT !.n = @ + 1] ELSE f
      BY DEF StoreEach, is, v, i
    <2>2. r = [vals |-> x, adr |-> y, n |-> a.n + Len(is)]
      OBVIOUS
    <2>3. a.n \in Int
      BY <1>5
    <2> HIDE DEF x, y, r
    <2>4. f = [vals |-> x, adr |-> y, n |-> a.n]
      <3> DEFINE av == a.vals
                 ad == a.adr
                 an == a.n
                 b  == [a EXCEPT !.vals = x]
      <3>1. a = [vals |-> av, adr |-> ad, n |-> an]
        BY <1>5
      <3> HIDE DEF av, ad, an
      <3>2. b = [vals |-> x, adr |-> ad, n |-> an]
        BY <3>1
      <3> HIDE DEF b
      <3>3. [b EXCEPT !.adr = y] = [vals |-> x, adr |-> y, n |-> an]
        BY <3>2
      <3> QED
        BY <3>3 DEF an, b, f
    <2> HIDE DEF f
    <2>5. [f EXCEPT !.n = @ + 1] = [vals |-> x, adr |-> y, n |-> a.n + 1]
      BY <2>4
    <2>6. CASE is = <<>>
      <3>1. Len(is) = 0
        BY <2>6
      <3>2. a.n + Len(is) = a.n
        BY <2>3, <3>1
      <3> QED
        BY <2>1, <2>2, <2>4, <2>6, <3>2
    <2>7. CASE is # <<>>
      <3>1. is \in Seq(Nat)
        BY <1>2 DEF Ordered
      <3>2. Len(is) # 0
        BY <2>7, <3>1
      <3>3. Len(is) = 1
        <4>1. Len(is) \in Nat
          BY <1>7
        <4>2. Len(is) <= 1
          BY <1>2
        <4> DEFINE L == Len(is)
        <4>3. L \in Nat /\ L <= 1 /\ L # 0
          BY <3>2, <4>1, <4>2
        <4> HIDE DEF L
        <4>4. L = 1
          BY <4>3
        <4> QED
          BY <4>4 DEF L
      <3> QED
        BY <2>1, <2>2, <2>5, <2>7, <3>3
    <2> QED
      BY <2>6, <2>7
  <1>12. S \cup T = Keep(c, 0, e + 1)
    BY KeepMore DEF S, T
  <1> HIDE DEF r
  <1> QED
    BY <1>10, <1>11, <1>12 DEF SoFar

\* One pixel of a group.
LEMMA EachPixel ==
    ASSUME NEW c, IsLowCall(c), NEW j, NEW a, NEW e \in Nat, e + 1 <= c.n, SoFar(c, a, e)
    PROVE  SoFar(c, VsxEach(c, j, a, e), e + 1)
  <1> DEFINE w == 1
  <1>1. w \in Nat /\ e + w <= c.n
    OBVIOUS
  <1>2. IsCall(c)
    BY DEF IsLowCall
  <1>3. CASE c.px[e] = 0
    <2>1. Keep(c, e, e + w) = {}
      <3>1. ASSUME NEW x \in Keep(c, e, e + w) PROVE FALSE
        <4>1. e + w \in Nat
          BY <1>1
        <4>2. c.px[x] # 0 /\ x \in e .. (e + w) - 1
          BY <4>1, LowKept
        <4>3. x = e
          BY <4>2
        <4> QED
          BY <1>3, <4>2, <4>3
      <3> QED
        BY <3>1
    <2> HIDE DEF w
    <2>2. SoFar(c, a, e + w)
      BY <1>1, <2>1, GroupSkipped
    <2>3. VsxEach(c, j, a, e) = a
      BY <1>3 DEF VsxEach
    <2> QED
      BY <2>2, <2>3 DEF w
  <1>4. CASE c.px[e] # 0 /\ j.sparse
    BY <1>2, <1>4, EachStored DEF VsxEach
  <1>5. CASE c.px[e] # 0 /\ ~ j.sparse
    <2>1. VsxEach(c, j, a, e) = Push(a, c, Bits(c, e, w))
      BY <1>5 DEF VsxEach
    <2> HIDE DEF w
    <2>2. SoFar(c, Push(a, c, Bits(c, e, w)), e + w)
      BY <1>1, <1>2, BitsPushed
    <2> QED
      BY <2>1, <2>2 DEF w
  <1> QED
    BY <1>3, <1>4, <1>5

\* A group.
LEMMA VsxGroup ==
    ASSUME NEW c, IsLowCall(c), NEW j, NEW a, NEW g \in Nat, g + GroupPx <= c.n, SoFar(c, a, g)
    PROVE  SoFar(c, VsxGroupStep(c, j, a, g), g + GroupPx)
  <1> DEFINE es == [k \in 1 .. GroupPx |-> g + k - 1]
             n  == GroupPx
  <1>1. n \in Nat /\ DOMAIN es = 1 .. n /\ \A k \in 1 .. n : es[k] = g + k - 1
    BY DEF GroupPx
  <1>2. EachSoFar(c, j, g, a, 0)
    BY DEF EachSoFar
  <1> HIDE DEF es
  <1>3. ASSUME NEW k \in 1 .. n, NEW b, EachSoFar(c, j, g, b, k - 1)
        PROVE  EachSoFar(c, j, g, VsxEach(c, j, b, es[k]), k)
    <2> DEFINE e == g + k - 1
    <2>1. c.n \in Nat
      BY DEF IsLowCall, IsCall
    <2>2. e \in Nat /\ e = g + (k - 1) /\ e + 1 = g + k /\ es[k] = e /\ e + 1 <= c.n
      BY <1>1, <2>1 DEF GroupPx
    <2>3. SoFar(c, b, e)
      BY <1>3, <2>2 DEF EachSoFar
    <2> HIDE DEF e
    <2>4. SoFar(c, VsxEach(c, j, b, e), e + 1)
      BY <2>2, <2>3, EachPixel
    <2> QED
      BY <2>2, <2>4 DEF EachSoFar
  <1> HIDE DEF n
  <1>ind. VsxPixels!Counted
    BY NumbersAreCounted, Zenon DEF VsxPixels!Counted
  <1>4. EachSoFar(c, j, g, VsxPixels!Fold(c, j, a, es), n)
    BY <1>1, <1>2, <1>3, <1>ind, VsxPixels!FoldKeeps
  <1> QED
    BY <1>4 DEF EachSoFar, VsxGroupStep, es, n

\* The VSX collect is a fold of folds.
LEMMA VsxIsFold ==
    ASSUME NEW buf, NEW j
    PROVE  LET m == (j.ne + GroupPx - 1) \div GroupPx
           IN  lowplanes_collect_vsx(buf, j) = VsxGroups!Fold(Fused(buf, j, m * GroupPx), j, Empty,
                                                              [q \in 1 .. m |-> GroupPx * (q - 1)])
  BY DEF lowplanes_collect_vsx, VsxGroupStep, VsxEach, VsxGroups!Fold, VsxPixels!Fold, FoldLeft,
         MapThenFoldSet, Max, VsxGroups!Greatest, VsxPixels!Greatest

\* lowplanes_collect_vsx lists the selected pixels of a block of whole groups.
LEMMA lowplanes_collect_vsx_lists ==
    ASSUME NEW buf, NEW j, NEW c, c = Fused(buf, j, j.ne), IsLowCall(c), c.n % GroupPx = 0
    PROVE  SoFar(c, lowplanes_collect_vsx(buf, j), c.n)
  <1> DEFINE m  == (j.ne + GroupPx - 1) \div GroupPx
             gs == [q \in 1 .. m |-> GroupPx * (q - 1)]
             r  == VsxGroups!Fold(c, j, Empty, gs)
  <1>1. c.n \in Nat /\ c.n = j.ne
    BY DEF IsLowCall, IsCall, Fused
  <1>2. m \in Nat /\ m * GroupPx = j.ne /\ GroupPx * m = j.ne
    BY <1>1 DEF GroupPx
  <1>3. lowplanes_collect_vsx(buf, j) = r
    <2> DEFINE d == Fused(buf, j, m * GroupPx)
    <2>1. lowplanes_collect_vsx(buf, j) = VsxGroups!Fold(d, j, Empty, gs)
      BY VsxIsFold
    <2>2. c = d
      BY <1>2
    <2> HIDE DEF d, gs
    <2> QED
      BY <2>1, <2>2
  <1>4. DOMAIN gs = 1 .. m /\ \A k \in 1 .. m : gs[k] = GroupPx * (k - 1)
    OBVIOUS
  <1> HIDE DEF gs, m
  <1>5. VsxGroupsSoFar(c, j, 0, Empty, 0)
    <2>1. Keep(c, 0, 0) = {} /\ GroupPx * 0 = 0
      BY DEF Keep, GroupPx
    <2> QED
      BY <2>1, CollectedNothing DEF VsxGroupsSoFar, SoFar
  <1>6. ASSUME NEW k \in 1 .. m, NEW a, VsxGroupsSoFar(c, j, 0, a, k - 1)
        PROVE  VsxGroupsSoFar(c, j, 0, VsxGroupStep(c, j, a, gs[k]), k)
    <2> DEFINE g == GroupPx * (k - 1)
    <2>1. g \in Nat /\ g + GroupPx = GroupPx * k /\ g + GroupPx <= c.n
      BY <1>1, <1>2 DEF GroupPx
    <2>2. SoFar(c, a, g)
      BY <1>6 DEF VsxGroupsSoFar
    <2>3. gs[k] = g
      BY <1>4
    <2> HIDE DEF g
    <2>4. SoFar(c, VsxGroupStep(c, j, a, g), g + GroupPx)
      BY <2>1, <2>2, VsxGroup
    <2> QED
      BY <2>1, <2>3, <2>4 DEF VsxGroupsSoFar
  <1>ind. VsxGroups!Counted
    BY NumbersAreCounted, Zenon DEF VsxGroups!Counted
  <1>7. VsxGroupsSoFar(c, j, 0, r, m)
    BY <1>2, <1>4, <1>5, <1>6, <1>ind, VsxGroups!FoldKeeps
  <1> HIDE DEF r
  <1> QED
    BY <1>1, <1>2, <1>3, <1>7 DEF VsxGroupsSoFar

-----------------------------------------------------------------------------
(* Planes to list. *)

\* Two calls with the same pixels list the same.
LEMMA SameCall ==
    ASSUME NEW c, NEW d, c.n \in Nat, c.i0 = d.i0, c.mask = d.mask, c.cut = d.cut,
           \A e \in 0 .. c.n - 1 : c.px[e] = d.px[e], NEW o, SoFar(c, o, c.n)
    PROVE  SoFar(d, o, c.n)
  <1> DEFINE n == c.n
             S == Keep(c, 0, n)
  <1>1. Keep(d, 0, n) = S
    BY DEF Keep, mask_ok
  <1>2. Collected(c, S, o, n)
    BY DEF SoFar
  <1>3. n \in Nat /\ S \subseteq 0 .. n - 1
    BY <1>2 DEF Collected
  <1>4. \A x \in S : c.px[x] = d.px[x]
    BY <1>3
  <1> HIDE DEF S, n
  <1>5. Collected(d, S, o, n)
    <2>1. /\ o \in [vals : Seq(Int), adr : Seq(Int), n : Nat]
          /\ o.n <= Len(o.vals) /\ Len(o.vals) <= n
          /\ o.n <= Len(o.adr) /\ Len(o.adr) <= n
          /\ S \subseteq 0 .. n - 1
          /\ \A k \in 1 .. o.n : o.adr[k] - c.i0 \in S /\ o.vals[k] = c.px[o.adr[k] - c.i0]
          /\ \A x \in S : \E k \in 1 .. o.n : o.adr[k] = c.i0 + x
          /\ \A k, l \in 1 .. o.n : k < l => o.adr[k] < o.adr[l]
      BY <1>2 DEF Collected
    <2>2. ASSUME NEW k \in 1 .. o.n PROVE o.adr[k] - d.i0 \in S /\ o.vals[k] = d.px[o.adr[k] - d.i0]
      <3>1. o.adr[k] - c.i0 \in S /\ o.vals[k] = c.px[o.adr[k] - c.i0]
        BY <2>1
      <3> QED
        BY <1>4, <3>1
    <2>3. \A x \in S : \E k \in 1 .. o.n : o.adr[k] = d.i0 + x
      BY <2>1
    <2> QED
      BY <2>1, <2>2, <2>3, Zenon DEF Collected
  <1> QED
    BY <1>1, <1>5 DEF SoFar, n

\* What planes to list leaves of the buffer stands for the same block.
LEMMA LowplanesRaw ==
    ASSUME NEW ne \in Nat \ {0}, NEW px, NEW buf, NEW nz, StandsFor(buf, px, ne, nz), NEW u,
           NEW first, NEW masked, NEW cut, NEW tight
    PROVE  LET r == lowplanes_list(u, buf, [ne |-> ne, nz_end |-> nz, i0 |-> first, mask |-> masked,
                                            cut |-> cut, sparse |-> tight])
           IN  StandsFor(r.raw, px, ne, nz)
  <1> DEFINE j    == [ne |-> ne, nz_end |-> nz, i0 |-> first, mask |-> masked, cut |-> cut, sparse |-> tight]
             r    == lowplanes_list(u, buf, j)
             look == Look(u, buf, ne, nz)
  <1>1. StandsFor(look.raw, px, ne, nz)
    BY LookStands
  <1>2. r.raw = buf \/ r.raw = look.raw
    BY DEF lowplanes_list, Look
  <1> HIDE DEF r, look
  <1>3. StandsFor(r.raw, px, ne, nz)
    BY <1>1, <1>2
  <1> QED
    BY <1>3 DEF r

\* bslz4_lowplanes_list of driver.c: the buffer still stands for the block; a block that is handled is
\* listed.  (VSX: blocks of whole groups.)
THEOREM LowplanesListed ==
    ASSUME NEW ne \in Nat \ {0}, NEW px, NEW buf, NEW nz, StandsFor(buf, px, ne, nz), NEW u,
           NEW first \in Nat, NEW masked, NEW cut \in Nat, NEW tight, u = "vsx" => ne % GroupPx = 0
    PROVE  LET r == lowplanes_list(u, buf, [ne |-> ne, nz_end |-> nz, i0 |-> first, mask |-> masked,
                                            cut |-> cut, sparse |-> tight])
           IN  /\ StandsFor(r.raw, px, ne, nz)
               /\ r.handled => SoFar(CallOf(ne, first, px, masked, cut), r.o, ne)
               /\ r.handled \in BOOLEAN
  <1> DEFINE j    == [ne |-> ne, nz_end |-> nz, i0 |-> first, mask |-> masked, cut |-> cut, sparse |-> tight]
             r    == lowplanes_list(u, buf, j)
             look == Look(u, buf, ne, nz)
             b    == look.raw
             c    == CallOf(ne, first, px, masked, cut)
             f    == Fused(b, j, j.ne)
             s    == Pixels(b, ne, LowBits, LowBits, ne)
             w    == CallOf(ne, first, s, masked, cut)
             o    == CASE cut >= MaxByte -> Empty
                      [] cut < MaxByte /\ u = "vbmi" -> lowplanes_collect_u16(b, j)
                      [] cut < MaxByte /\ u = "avx2" -> lowplanes_collect_avx2_impl(b, j)
                      [] cut < MaxByte /\ u = "vsx"  -> lowplanes_collect_vsx(b, j)
                      [] OTHER -> collect_u8_swar(w)
  <1>1. /\ StandsFor(b, px, ne, nz)
        /\ look.zero => \A e \in 0 .. ne - 1 : Bit(px[e], 2) = 0
        /\ u = "c" => \E m \in LowBits * ne .. AllBits * ne : StandsFor(b, px, ne, m)
    BY LookStands
  <1>2. /\ ~ Takes(u, ne) => r.handled = FALSE /\ r.raw = buf
        /\ Takes(u, ne) /\ ~ look.zero => r.handled = FALSE /\ r.raw = b
        /\ Takes(u, ne) /\ look.zero => r.handled = TRUE /\ r.raw = b /\ r.o = o
    BY DEF lowplanes_list, Look, CallOf
  <1>3. \A e \in 0 .. ne - 1 : px[e] \in 0 .. Word - 1
    BY DEF StandsFor
  <1>4. j.ne = ne /\ j.nz_end = nz /\ j.i0 = first /\ j.mask = masked /\ j.cut = cut /\ j.sparse = tight
    OBVIOUS
  <1>5. c.n = ne /\ c.i0 = first /\ c.px = px /\ c.mask = masked /\ c.cut = cut
        /\ w.n = ne /\ w.i0 = first /\ w.px = s /\ w.mask = masked /\ w.cut = cut
    BY DEF CallOf
  <1>6. f.n = ne /\ f.i0 = first /\ f.mask = masked /\ f.cut = cut
        /\ f.px = Pixels(FillLast(b, ne, nz), ne, PlanesWritten(ne, nz), LowBits, ne)
    BY DEF Fused
  <1> HIDE DEF r, look, c, s, w
  <1>7. ASSUME Takes(u, ne), look.zero PROVE SoFar(c, o, ne)
    <2>1. \A e \in 0 .. ne - 1 : Bit(px[e], 2) = 0
      BY <1>1, <1>7
    <2> HIDE DEF b
    <2>2. ASSUME NEW e \in 0 .. ne - 1 PROVE f.px[e] = px[e]
      <3>1. Bit(px[e], 2) = 0 /\ ne \in Nat /\ ne <= ne
        BY <2>1
      <3>2. StandsFor(b, px, ne, nz)
        BY <1>1
      <3>3. Pixels(FillLast(b, ne, nz), ne, PlanesWritten(ne, nz), LowBits, ne)[e] = px[e]
        BY <3>1, <3>2, FusedPixels
      <3> QED
        BY <1>6, <3>3
    <2> HIDE DEF f, j
    <2>3. IsLowCall(f)
      <3>1. \A e \in 0 .. f.n - 1 : f.px[e] \in Int
        BY <1>3, <1>6, <2>2
      <3> QED
        BY <1>6, <3>1 DEF IsLowCall, IsCall
    <2>4. ASSUME NEW x, SoFar(f, x, f.n) PROVE SoFar(c, x, ne)
      <3>1. f.n \in Nat /\ f.i0 = c.i0 /\ f.mask = c.mask /\ f.cut = c.cut
            /\ \A e \in 0 .. f.n - 1 : f.px[e] = c.px[e]
        BY <1>5, <1>6, <2>2
      <3>2. SoFar(c, x, f.n)
        BY <2>4, <3>1, SameCall
      <3> QED
        BY <1>6, <3>2
    <2>5. CASE cut >= MaxByte
      <3>0. ~ (cut < MaxByte)
        <4>1. MaxByte \in Int
          <5>1. 2^2 = 4
            OBVIOUS
          <5> QED
            BY <5>1 DEF MaxByte, LowBits
        <4> QED
          BY <2>5, <4>1
      <3>1. o = Empty
        BY <2>5, <3>0
      <3>2. Keep(c, 0, ne) = {}
        <4>1. ASSUME NEW e \in 0 .. ne - 1 PROVE ~ Greater(px[e], cut)
          <5>1. px[e] \in 0 .. 3
            <6>1. Bit(px[e], 0) \in {0, 1} /\ Bit(px[e], 1) \in {0, 1} /\ Bit(px[e], 2) = 0
                  /\ px[e] = Bit(px[e], 0) + 2 * Bit(px[e], 1) + 4 * Bit(px[e], 2)
              BY <1>3, <2>1, BitsOfPixel
            <6> QED
              BY <6>1
          <5>2. MaxByte = 3
            <6>1. 2^2 = 4
              OBVIOUS
            <6> QED
              BY <6>1 DEF MaxByte, LowBits
          <5> QED
            BY <2>5, <5>1, <5>2 DEF Greater
        <4> QED
          BY <1>5, <4>1 DEF Keep
      <3>3. SoFar(c, Empty, 0)
        <4>1. Keep(c, 0, 0) = {}
          BY DEF Keep
        <4> QED
          BY <4>1, CollectedNothing DEF SoFar
      <3>4. SoFar(c, Empty, ne)
        <4> DEFINE z == 0
        <4>1. z \in Nat /\ ne \in Nat /\ z <= ne /\ SoFar(c, Empty, z) /\ Keep(c, z, ne) = {}
          BY <3>2, <3>3
        <4> HIDE DEF z
        <4> QED
          BY <4>1, NothingBetween
      <3> QED
        BY <3>1, <3>4
    <2>6. ASSUME cut < MaxByte PROVE SoFar(c, o, ne)
      <3>0. ~ (cut >= MaxByte)
        <4>1. MaxByte \in Int
          <5>1. 2^2 = 4
            OBVIOUS
          <5> QED
            BY <5>1 DEF MaxByte, LowBits
        <4> QED
          BY <2>6, <4>1
      <3>1. CASE u = "vbmi"
        <4>1. o = lowplanes_collect_u16(b, j)
          BY <2>6, <3>0, <3>1
        <4>2. f.n % GroupPx = 0
          BY <1>6, <1>7, <3>1 DEF Takes
        <4>3. SoFar(f, lowplanes_collect_u16(b, j), f.n)
          BY <2>3, <4>2, lowplanes_collect_u16_lists DEF f
        <4> QED
          BY <2>4, <4>1, <4>3
      <3>2. CASE u = "avx2"
        <4>1. o = lowplanes_collect_avx2_impl(b, j)
          BY <2>6, <3>0, <3>2
        <4>2. f.n % GroupPx = 0
          <5>1. ne % OrPx = 0
            BY <1>7, <3>2 DEF Takes
          <5>2. ne % GroupPx = 0
            BY <5>1 DEF OrPx, GroupPx
          <5> QED
            BY <1>6, <5>2
        <4>3. SoFar(f, lowplanes_collect_avx2_impl(b, j), f.n)
          BY <2>3, <4>2, lowplanes_collect_avx2_impl_lists DEF f
        <4> QED
          BY <2>4, <4>1, <4>3
      <3>3. CASE u = "vsx"
        <4>1. o = lowplanes_collect_vsx(b, j)
          BY <2>6, <3>0, <3>3
        <4>2. f.n % GroupPx = 0
          BY <1>6, <3>3
        <4>3. SoFar(f, lowplanes_collect_vsx(b, j), f.n)
          BY <2>3, <4>2, lowplanes_collect_vsx_lists DEF f
        <4> QED
          BY <2>4, <4>1, <4>3
      <3>4. CASE u \notin {"vbmi", "avx2", "vsx"}
        <4>1. u = "c"
          BY <1>7, <3>4 DEF Takes, FusedValues
        <4>2. o = collect_u8_swar(w)
          BY <3>0, <3>4
        <4>3. PICK m \in LowBits * ne .. AllBits * ne : StandsFor(b, px, ne, m)
          BY <1>1, <4>1
        <4>4. \A e \in 0 .. ne - 1 : s[e] = px[e]
          BY <2>1, <4>3, LowPlanesPixels DEF s
        <4>5. IsCall(w)
          <5>1. \A e \in 0 .. ne - 1 : s[e] \in Int
            BY <1>3, <4>4
          <5> QED
            BY <1>5, <5>1 DEF IsCall
        <4>6. SoFar(w, collect_scalar(w), w.n)
          BY <4>5, collect_scalar_lists
        <4>7. collect_scalar(w) = collect_u8_swar(w)
          BY DEF collect_scalar, collect_u8_swar
        <4>8. w.n \in Nat /\ w.i0 = c.i0 /\ w.mask = c.mask /\ w.cut = c.cut
              /\ \A e \in 0 .. w.n - 1 : w.px[e] = c.px[e]
          BY <1>5, <4>4
        <4>9. SoFar(c, collect_u8_swar(w), w.n)
          BY <4>6, <4>7, <4>8, SameCall
        <4> QED
          BY <1>5, <4>2, <4>9
      <3> QED
        BY <3>1, <3>2, <3>3, <3>4
    <2>7. cut >= MaxByte \/ cut < MaxByte
      <3>1. MaxByte \in Int
        <4>1. 2^2 = 4
          OBVIOUS
        <4> QED
          BY <4>1 DEF MaxByte, LowBits
      <3> QED
        BY <3>1
    <2> QED
      BY <2>5, <2>6, <2>7
  <1> HIDE DEF o, b
  <1>8. StandsFor(r.raw, px, ne, nz) /\ (r.handled => SoFar(c, r.o, ne)) /\ r.handled \in BOOLEAN
    BY <1>1, <1>2, <1>7
  <1> QED
    BY <1>8 DEF r, c

-----------------------------------------------------------------------------
(* The buffers of a block. *)

\* Frames are arrays of numbers; those of planes, or of a type with vectors, are below Word.
LEMMA FrameFacts ==
    ASSUME NEW p \in Pipes, NEW f \in Frames(p)
    PROVE  /\ Cardinality(DOMAIN f) \in Nat
           /\ \A j \in 0 .. Cardinality(DOMAIN f) - 1 : f[j] \in Int
           /\ ~ (p.inplace /\ p.type = "any") => \A j \in 0 .. Cardinality(DOMAIN f) - 1 : f[j] \in 0 .. Word - 1
  <1> DEFINE n == Cardinality(DOMAIN f)
  <1>1. /\ IsFiniteSet(DOMAIN f)
        /\ f \in [0 .. n - 1 -> IF p.inplace /\ p.type = "any" THEN Int ELSE 0 .. Word - 1]
    BY KernelsAssumption
  <1>2. n \in Nat
    BY <1>1, FS_CardinalityType
  <1> HIDE DEF n
  <1>3. CASE p.inplace /\ p.type = "any"
    BY <1>1, <1>2, <1>3 DEF n
  <1>4. CASE ~ (p.inplace /\ p.type = "any")
    BY <1>1, <1>2, <1>4 DEF n, Word
  <1> QED
    BY <1>3, <1>4

\* What a pipeline is made of.
LEMMA PipeFacts ==
    ASSUME NEW p \in Pipes
    PROVE  /\ p.ne \in Nat \ {0} /\ p.cut \in Nat /\ p.inplace \in BOOLEAN
           /\ p.type \in {"u16", "u32", "any"} /\ p.tier \in Tiers /\ p.u \in Untransposes
  BY KernelsAssumption

\* What a block shows: the pixels of the frame, the masked ones as 0 where the planes were masked.
Seen == [e \in 0 .. pipe.ne - 1 |-> IF maskplanes /\ i0 + e \in mask THEN 0 ELSE frame[i0 + e]]

\* The inductive invariant of the buffers.  raw stands for the block as far as it was written, or
\* filled; past that it is anything, but the block's planes are 0 there.
BlockInv ==
    /\ pipe \in Pipes /\ i0 \in Nat
    /\ raw \in [0 .. Raw - 1 -> Int]
    /\ stage \in {"start", "block", "decoded", "unlisted", "pixels", "tail", "done"}
    /\ stage = "start" => i0 = 0
    /\ stage # "start" => frame \in Frames(pipe) /\ i0 <= Total
    /\ stage \in {"decoded", "unlisted"} =>
          ~pipe.inplace /\ i0 + pipe.ne <= Total /\ StandsFor(raw, Seen, pipe.ne, nz_end)
    /\ stage = "pixels" =>
          /\ i0 + pipe.ne <= Total
          /\ DOMAIN block = 0 .. pipe.ne - 1 /\ \A e \in 0 .. pipe.ne - 1 : block[e] = Seen[e]
    /\ stage = "tail" =>
          /\ i0 + pipe.ne > Total
          /\ DOMAIN block = 0 .. Total - i0 - 1 /\ \A e \in 0 .. Total - i0 - 1 : block[e] = frame[i0 + e]

\* The frame's pixels behind a block.
LEMMA SeenFacts ==
    ASSUME pipe \in Pipes, frame \in Frames(pipe), i0 \in Nat, i0 + pipe.ne <= Total
    PROVE  /\ Total \in Nat
           /\ \A e \in 0 .. pipe.ne - 1 : frame[i0 + e] \in Int /\ Seen[e] \in Int
           /\ ~ (pipe.inplace /\ pipe.type = "any") =>
                 \A e \in 0 .. pipe.ne - 1 : frame[i0 + e] \in 0 .. Word - 1 /\ Seen[e] \in 0 .. Word - 1
  <1>1. pipe.ne \in Nat \ {0}
    BY PipeFacts
  <1>2. /\ Total \in Nat /\ \A j \in 0 .. Total - 1 : frame[j] \in Int
        /\ ~ (pipe.inplace /\ pipe.type = "any") => \A j \in 0 .. Total - 1 : frame[j] \in 0 .. Word - 1
    BY FrameFacts DEF Total
  <1>3. ASSUME NEW e \in 0 .. pipe.ne - 1
        PROVE  /\ i0 + e \in 0 .. Total - 1
               /\ Seen[e] = IF maskplanes /\ i0 + e \in mask THEN 0 ELSE frame[i0 + e]
    BY <1>1, <1>2 DEF Seen
  <1>4. 0 \in 0 .. Word - 1
    BY DEF Word
  <1> QED
    BY <1>2, <1>3, <1>4

\* Where a decoder stopped, nothing but zeros followed.
LEMMA StopsFacts ==
    ASSUME pipe \in Pipes, NEW px, NEW nz \in Stops(PlanesOf(px, pipe.ne))
    PROVE  /\ nz \in 0 .. AllBits * pipe.ne
           /\ \A i \in DOMAIN PlanesOf(px, pipe.ne) : i >= nz => PlanesOf(px, pipe.ne)[i] = 0
  BY DEF Stops, Raw

\* Decoded, and masked by planes or not, raw stands for what the block shows.
LEMMA DecodeKeeps ==
    ASSUME BlockInv, DecodeBlock
    PROVE  BlockInv'
  <1> DEFINE ne     == pipe.ne
             planes == PlanesOf(Slice(ne), ne)
             bits   == pack_mask(mask, i0, ne)
  <1>1. /\ pipe \in Pipes /\ i0 \in Nat /\ frame \in Frames(pipe) /\ i0 <= Total /\ i0 + ne <= Total
        /\ raw \in [0 .. AllBits * ne - 1 -> Int] /\ ~pipe.inplace /\ ne \in Nat \ {0}
    BY PipeFacts DEF BlockInv, DecodeBlock, Raw
  <1>2. PICK nz \in Stops(planes) :
          /\ nz_end' = nz
          /\ raw' = IF maskplanes /\ and_mask_changes(bits)
                    THEN mask_planes(LeftBy(planes, nz, raw), bits, ne, nz) ELSE LeftBy(planes, nz, raw)
    BY DEF DecodeBlock
  <1>3. UNCHANGED <<pipe, frame, mask, mat, i0>> /\ stage' = "decoded"
    BY DEF DecodeBlock
  <1>4. \A e \in 0 .. ne - 1 : Slice(ne)[e] = frame[i0 + e] /\ Slice(ne)[e] \in 0 .. Word - 1
    BY <1>1, SeenFacts DEF Slice
  <1>5. StandsFor(LeftBy(planes, nz, raw), Slice(ne), ne, nz)
    <2>1. /\ nz \in 0 .. AllBits * ne
          /\ \A i \in DOMAIN PlanesOf(Slice(ne), ne) : i >= nz => PlanesOf(Slice(ne), ne)[i] = 0
      BY <1>1, StopsFacts
    <2> HIDE DEF ne
    <2> QED
      BY <1>1, <1>4, <2>1, DecodedStands
  <1>6. StandsFor(raw', Seen, ne, nz)
    <2>1. CASE maskplanes /\ and_mask_changes(bits)
      <3>1. \A e \in 0 .. ne - 1 : Seen[e] = IF i0 + e \in mask THEN 0 ELSE Slice(ne)[e]
        BY <1>4, <2>1 DEF Seen
      <3> QED
        BY <1>1, <1>2, <1>5, <2>1, <3>1, MaskedStands
    <2>2. CASE ~ (maskplanes /\ and_mask_changes(bits))
      <3>1. \A e \in 0 .. ne - 1 : Seen[e] = Slice(ne)[e]
        <4>1. ASSUME NEW e \in 0 .. ne - 1, maskplanes PROVE i0 + e \notin mask
          <5>1. DOMAIN bits = 0 .. ne - 1 /\ bits[e] = IF i0 + e \in mask THEN 0 ELSE 1
            BY DEF pack_mask
          <5> HIDE DEF bits
          <5>2. \A i \in DOMAIN bits : bits[i] # 0
            BY <2>2, <4>1 DEF and_mask_changes
          <5>3. bits[e] # 0
            BY <5>1, <5>2
          <5> QED
            BY <5>1, <5>3
        <4> QED
          BY <1>4, <4>1 DEF Seen
      <3> QED
        BY <1>2, <1>5, <2>2, <3>1 DEF StandsFor
    <2> QED
      BY <2>1, <2>2
  <1>7. raw' \in [0 .. AllBits * ne - 1 -> Int]
    BY <1>6 DEF StandsFor
  <1>8. Seen' = Seen /\ Total' = Total /\ Raw' = Raw
    BY <1>3 DEF Seen, maskplanes, Total, Raw
  <1> QED
    BY <1>1, <1>2, <1>3, <1>6, <1>7, <1>8 DEF BlockInv, Raw

\* Pixels that are in place already.
LEMMA TakeInPlaceKeeps ==
    ASSUME BlockInv, TakeInPlace
    PROVE  BlockInv'
  <1>1. /\ pipe \in Pipes /\ i0 \in Nat /\ frame \in Frames(pipe) /\ i0 <= Total /\ i0 + pipe.ne <= Total
        /\ raw \in [0 .. Raw - 1 -> Int] /\ pipe.inplace
    BY DEF BlockInv, TakeInPlace
  <1>2. UNCHANGED <<pipe, frame, mask, mat, i0, raw>> /\ stage' = "pixels" /\ block' = Slice(pipe.ne)
    BY DEF TakeInPlace
  <1>3. ~maskplanes
    BY <1>1 DEF maskplanes
  <1>4. DOMAIN block' = 0 .. pipe.ne - 1 /\ \A e \in 0 .. pipe.ne - 1 : block'[e] = Seen[e]
    BY <1>2, <1>3 DEF Slice, Seen
  <1>5. Seen' = Seen /\ Total' = Total /\ Raw' = Raw
    BY <1>2 DEF Seen, maskplanes, Total, Raw
  <1> QED
    BY <1>1, <1>2, <1>4, <1>5 DEF BlockInv

\* Planes to list leaves a buffer that stands for the same block, whether it takes the block or not.
LEMMA ListFusedKeeps ==
    ASSUME BlockInv, NEW tight, ListFused(tight)
    PROVE  BlockInv'
  <1> DEFINE ne == pipe.ne
             j  == [ne |-> ne, nz_end |-> nz_end, i0 |-> i0, mask |-> Work(ne, <<>>, maskplanes).mask,
                    cut |-> IF is_dot THEN 0 ELSE pipe.cut, sparse |-> tight]
             r  == lowplanes_list(pipe.u, raw, j)
  <1>1. /\ pipe \in Pipes /\ i0 \in Nat /\ frame \in Frames(pipe) /\ i0 + ne <= Total
        /\ ne \in Nat \ {0} /\ ~pipe.inplace /\ StandsFor(raw, Seen, ne, nz_end)
    BY PipeFacts DEF BlockInv, ListFused
  <1>2. /\ UNCHANGED <<pipe, frame, mask, mat, nz_end>>
        /\ raw' = r.raw
        /\ i0' = IF r.handled THEN i0 + ne ELSE i0
        /\ stage' = IF r.handled THEN "block" ELSE "unlisted"
    BY DEF ListFused
  <1>3. StandsFor(r.raw, Seen, ne, nz_end)
    BY <1>1, LowplanesRaw
  <1>4. raw' \in [0 .. AllBits * ne - 1 -> Int] /\ Raw' = AllBits * ne
    BY <1>2, <1>3 DEF StandsFor, Raw
  <1> HIDE DEF r
  <1>5. i0' \in Nat /\ frame' \in Frames(pipe') /\ i0' <= Total' /\ Total' = Total
    <2>1. Total \in Nat
      BY <1>1, SeenFacts
    <2> QED
      BY <1>1, <1>2, <2>1 DEF Total
  <1>6. CASE r.handled
    BY <1>1, <1>2, <1>4, <1>5, <1>6 DEF BlockInv
  <1>7. CASE ~r.handled
    <2>1. Seen' = Seen
      BY <1>2, <1>7 DEF Seen, maskplanes
    <2> QED
      BY <1>1, <1>2, <1>3, <1>4, <1>5, <1>7, <2>1 DEF BlockInv
  <1> QED
    BY <1>6, <1>7

\* Planes to block, from whatever buffer stands for it.
LEMMA UntransposeKeeps ==
    ASSUME BlockInv, Untranspose
    PROVE  BlockInv'
  <1> DEFINE ne == pipe.ne
  <1>1. /\ pipe \in Pipes /\ i0 \in Nat /\ frame \in Frames(pipe) /\ i0 <= Total /\ i0 + ne <= Total
        /\ ne \in Nat \ {0} /\ StandsFor(raw, Seen, ne, nz_end) /\ raw \in [0 .. Raw - 1 -> Int]
    BY PipeFacts DEF BlockInv, Untranspose
  <1>2. /\ UNCHANGED <<pipe, frame, mask, mat, i0>> /\ stage' = "pixels"
        /\ block' = untranspose_full(pipe.u, raw, ne, nz_end)
        /\ raw' = Fill(raw, nz_end, Raw)
    BY DEF Untranspose
  <1>3. DOMAIN block' = 0 .. ne - 1 /\ \A e \in 0 .. ne - 1 : block'[e] = Seen[e]
    BY <1>1, <1>2, UntransposedPixels
  <1>4. raw' \in [0 .. Raw - 1 -> Int]
    BY <1>1, <1>2 DEF Fill
  <1>5. Seen' = Seen /\ Total' = Total /\ Raw' = Raw
    BY <1>2 DEF Seen, maskplanes, Total, Raw
  <1> QED
    BY <1>1, <1>2, <1>3, <1>4, <1>5 DEF BlockInv

\* The rest of the frame.
LEMMA TakeTailKeeps ==
    ASSUME BlockInv, TakeTail
    PROVE  BlockInv'
  <1> DEFINE n == Total - i0
  <1>1. /\ pipe \in Pipes /\ i0 \in Nat /\ frame \in Frames(pipe) /\ i0 <= Total /\ i0 + pipe.ne > Total
        /\ raw \in [0 .. Raw - 1 -> Int]
    BY DEF BlockInv, TakeTail
  <1>2. /\ UNCHANGED <<pipe, frame, mask, mat, i0, raw>> /\ stage' = "tail"
        /\ block' = IF pipe.inplace THEN Slice(n) ELSE untranspose_backend(PlanesOf(Slice(n), n), n)
    BY DEF TakeTail
  <1>3. /\ Total \in Nat
        /\ ~pipe.inplace => \A k \in 0 .. Total - 1 : frame[k] \in 0 .. Word - 1
    BY <1>1, FrameFacts DEF Total
  <1>4. n \in Nat /\ DOMAIN Slice(n) = 0 .. n - 1 /\ \A e \in 0 .. n - 1 : Slice(n)[e] = frame[i0 + e]
    BY <1>1, <1>3 DEF Slice
  <1>5. DOMAIN block' = 0 .. n - 1 /\ \A e \in 0 .. n - 1 : block'[e] = frame[i0 + e]
    <2>1. CASE pipe.inplace
      BY <1>2, <1>4, <2>1
    <2>2. CASE ~pipe.inplace
      <3>1. \A e \in 0 .. n - 1 : Slice(n)[e] \in 0 .. Word - 1
        <4>1. ASSUME NEW e \in 0 .. n - 1 PROVE i0 + e \in 0 .. Total - 1
          BY <1>1, <1>3, <1>4
        <4> QED
          BY <1>3, <1>4, <2>2, <4>1
      <3> HIDE DEF n
      <3> QED
        BY <1>2, <1>4, <2>2, <3>1, TailPixels
    <2> QED
      BY <2>1, <2>2
  <1>6. Total' = Total /\ Raw' = Raw
    BY <1>2 DEF Total, Raw
  <1> QED
    BY <1>1, <1>2, <1>5, <1>6 DEF BlockInv

\* Collecting reads the block only.
LEMMA CollectBlockKeeps ==
    ASSUME BlockInv, CollectBlock
    PROVE  BlockInv'
  <1> DEFINE n == IF stage = "tail" THEN Total - i0 ELSE pipe.ne
  <1>1. /\ pipe \in Pipes /\ i0 \in Nat /\ frame \in Frames(pipe) /\ i0 <= Total
        /\ raw \in [0 .. Raw - 1 -> Int] /\ stage \in {"pixels", "tail"}
        /\ stage = "pixels" => i0 + pipe.ne <= Total
    BY DEF BlockInv, CollectBlock
  <1>2. /\ UNCHANGED <<pipe, frame, mask, mat, raw>>
        /\ stage' = IF stage = "tail" THEN "done" ELSE "block"
        /\ i0' = i0 + n
    BY DEF CollectBlock
  <1>3. Total \in Nat /\ pipe.ne \in Nat
    BY <1>1, FrameFacts, PipeFacts DEF Total
  <1>4. i0' \in Nat /\ i0' <= Total
    BY <1>1, <1>2, <1>3
  <1>5. Total' = Total /\ Raw' = Raw
    BY <1>2 DEF Total, Raw
  <1> HIDE DEF n
  <1> QED
    BY <1>1, <1>2, <1>4, <1>5 DEF BlockInv

\* At the start.
LEMMA BlockInvInit ==
    ASSUME Init
    PROVE  BlockInv
  BY DEF Init, BlockInv, Raw

\* Every step keeps BlockInv.
LEMMA BlockInvNext ==
    ASSUME BlockInv, [Next]_vars
    PROVE  BlockInv'
  <1>1. ASSUME NEW f \in Frames(pipe), NEW k \in Masks(pipe), NEW m, Call_run(f, k, m)
        PROVE  BlockInv'
    <2>1. /\ pipe \in Pipes /\ i0 = 0 /\ raw \in [0 .. Raw - 1 -> Int]
      BY <1>1 DEF BlockInv, Call_run
    <2>2. UNCHANGED <<pipe, i0, raw>> /\ frame' = f /\ stage' = "block"
      BY <1>1 DEF Call_run
    <2>3. 0 <= Cardinality(DOMAIN f)
      BY <2>1, FrameFacts
    <2> QED
      BY <2>1, <2>2, <2>3 DEF BlockInv, Raw, Total
  <1>2. ASSUME NEW tight \in BOOLEAN, ListFused(tight) PROVE BlockInv'
    BY <1>2, ListFusedKeeps
  <1>3. CASE UNCHANGED vars
    BY <1>3 DEF vars, BlockInv, Raw, Total, Seen, maskplanes
  <1> QED
    BY <1>1, <1>2, <1>3, DecodeKeeps, TakeInPlaceKeeps, UntransposeKeeps, TakeTailKeeps, CollectBlockKeeps
       DEF Next, Done

\* The buffers hold what they should, for every pipeline, frame and mask (driver.c:294-446).
THEOREM BuffersStandForTheBlock == Spec => []BlockInv
  BY BlockInvInit, BlockInvNext, PTL DEF Spec

\* An untransposed block holds the frame's pixels, whatever the decoder left of the block before it.
\* The only planes a mask reaches are the written ones, and those past them are 0.
THEOREM TheBlockIsThePixels == Spec => []BlockIsThePixels
  <1>1. BlockInv => BlockIsThePixels
    <2> SUFFICES ASSUME BlockInv, stage = "pixels", NEW j \in DOMAIN block
                 PROVE  block[j] = IF maskplanes /\ i0 + j \in mask THEN 0 ELSE frame[i0 + j]
      BY DEF BlockIsThePixels
    <2>1. j \in 0 .. pipe.ne - 1 /\ block[j] = Seen[j]
      BY DEF BlockInv
    <2> QED
      BY <2>1 DEF Seen
  <1> QED
    BY <1>1, BuffersStandForTheBlock, PTL

-----------------------------------------------------------------------------
(* The list of a frame. *)

\* l lists, in order, the pixels of f in from .. upto - 1 that are above the cut and not masked.
Selection(l, from, upto, f, k, cut) ==
    /\ l \in Seq(Nat \X Int) /\ Len(l) <= upto - from
    /\ \A x \in 1 .. Len(l) :
          /\ l[x][1] \in from .. upto - 1 /\ l[x][1] \notin k
          /\ Greater(f[l[x][1]], cut) /\ l[x][2] = f[l[x][1]]
    /\ \A x, y \in 1 .. Len(l) : x < y => l[x][1] < l[y][1]
    /\ \A p \in from .. upto - 1 : p \notin k /\ Greater(f[p], cut) => \E x \in 1 .. Len(l) : l[x][1] = p

\* The list of the next block goes behind that of the ones before.
LEMMA SelectionsJoin ==
    ASSUME NEW a, NEW b, NEW h \in Nat, NEW i \in Nat, NEW j \in Nat, h <= i, i <= j, NEW f, NEW k, NEW cut,
           Selection(a, h, i, f, k, cut), Selection(b, i, j, f, k, cut)
    PROVE  Selection(a \o b, h, j, f, k, cut)
  <1> DEFINE l == a \o b
             A == Len(a)
             B == Len(b)
  <1>1. a \in Seq(Nat \X Int) /\ b \in Seq(Nat \X Int)
    BY DEF Selection
  <1>2. /\ l \in Seq(Nat \X Int) /\ A \in Nat /\ B \in Nat /\ Len(l) = A + B
        /\ \A x \in 1 .. A + B : l[x] = IF x <= A THEN a[x] ELSE b[x - A]
    BY <1>1
  <1>3. A <= i - h /\ B <= j - i
    BY DEF Selection
  <1>4. ASSUME NEW x \in 1 .. A
        PROVE  /\ a[x][1] \in h .. i - 1 /\ a[x][1] \notin k
               /\ Greater(f[a[x][1]], cut) /\ a[x][2] = f[a[x][1]]
               /\ x \in 1 .. A + B /\ l[x] = a[x]
    BY <1>2 DEF Selection
  <1>5. ASSUME NEW x \in 1 .. B
        PROVE  /\ b[x][1] \in i .. j - 1 /\ b[x][1] \notin k
               /\ Greater(f[b[x][1]], cut) /\ b[x][2] = f[b[x][1]]
               /\ A + x \in 1 .. A + B /\ l[A + x] = b[x]
    <2>1. /\ b[x][1] \in i .. j - 1 /\ b[x][1] \notin k
          /\ Greater(f[b[x][1]], cut) /\ b[x][2] = f[b[x][1]]
      BY DEF Selection
    <2> HIDE DEF l, A, B
    <2> DEFINE y == A + x
    <2>2. y \in 1 .. A + B /\ ~ (y <= A) /\ y - A = x
      BY <1>2
    <2> HIDE DEF y
    <2>3. l[y] = b[y - A]
      BY <1>2, <2>2, Zenon
    <2>4. y \in 1 .. A + B /\ l[y] = b[x]
      BY <2>2, <2>3
    <2> QED
      BY <2>1, <2>4 DEF y
  <1>6. ASSUME NEW x \in 1 .. A + B, ~ (x <= A) PROVE x - A \in 1 .. B /\ A + (x - A) = x
    BY <1>2, <1>6
  <1>7. \A x, y \in 1 .. A : x < y => a[x][1] < a[y][1]
    BY DEF Selection
  <1>8. \A x, y \in 1 .. B : x < y => b[x][1] < b[y][1]
    BY DEF Selection
  <1>9. \A p \in h .. i - 1 : p \notin k /\ Greater(f[p], cut) => \E x \in 1 .. A : a[x][1] = p
    BY DEF Selection
  <1>10. \A p \in i .. j - 1 : p \notin k /\ Greater(f[p], cut) => \E x \in 1 .. B : b[x][1] = p
    BY DEF Selection
  <1> HIDE DEF l, A, B
  <1>11. ASSUME NEW x \in 1 .. A + B
         PROVE  /\ l[x][1] \in h .. j - 1 /\ l[x][1] \notin k
                /\ Greater(f[l[x][1]], cut) /\ l[x][2] = f[l[x][1]]
    <2>1. CASE x <= A
      <3>1. x \in 1 .. A
        BY <1>2, <2>1
      <3>2. l[x] = a[x] /\ a[x][1] \in h .. i - 1
        BY <1>4, <3>1
      <3>3. l[x][1] \in h .. j - 1
        BY <3>2
      <3> QED
        BY <1>4, <3>1, <3>2, <3>3
    <2>2. CASE ~ (x <= A)
      <3>1. x - A \in 1 .. B /\ A + (x - A) = x
        BY <1>6, <2>2
      <3> DEFINE y == x - A
      <3>2. y \in 1 .. B /\ l[x] = b[y]
        BY <1>5, <3>1
      <3> HIDE DEF y
      <3>3. b[y][1] \in i .. j - 1
        BY <1>5, <3>2
      <3>4. l[x][1] \in h .. j - 1
        BY <3>2, <3>3
      <3> QED
        BY <1>5, <3>2, <3>4
    <2> QED
      BY <2>1, <2>2
  <1>12. ASSUME NEW x \in 1 .. A + B, NEW y \in 1 .. A + B, x < y PROVE l[x][1] < l[y][1]
    <2>1. CASE y <= A
      <3>1. x \in 1 .. A /\ y \in 1 .. A
        BY <1>2, <1>12, <2>1
      <3> QED
        BY <1>4, <1>7, <1>12, <3>1
    <2>2. CASE x <= A /\ ~ (y <= A)
      <3>1. x \in 1 .. A /\ y - A \in 1 .. B /\ A + (y - A) = y
        BY <1>2, <1>6, <2>2
      <3>2. l[x] = a[x] /\ a[x][1] \in h .. i - 1
        BY <1>4, <3>1
      <3>3. l[y] = b[y - A] /\ b[y - A][1] \in i .. j - 1
        BY <1>5, <3>1
      <3> QED
        BY <3>2, <3>3
    <2>3. CASE ~ (x <= A)
      <3>1. x - A \in 1 .. B /\ A + (x - A) = x /\ ~ (y <= A) /\ x - A < y - A
        BY <1>2, <1>6, <1>12, <2>3
      <3>2. y - A \in 1 .. B /\ A + (y - A) = y
        BY <1>6, <3>1
      <3>3. l[x] = b[x - A] /\ l[y] = b[y - A]
        BY <1>5, <3>1, <3>2
      <3> QED
        BY <1>8, <3>1, <3>2, <3>3
    <2> QED
      BY <2>1, <2>2, <2>3
  <1>13. ASSUME NEW p \in h .. j - 1, p \notin k, Greater(f[p], cut) PROVE \E x \in 1 .. A + B : l[x][1] = p
    <2>1. CASE p < i
      <3>1. PICK x \in 1 .. A : a[x][1] = p
        BY <1>9, <1>13, <2>1
      <3> QED
        BY <1>4, <3>1
    <2>2. CASE ~ (p < i)
      <3>1. PICK x \in 1 .. B : b[x][1] = p
        BY <1>10, <1>13, <2>2
      <3> QED
        BY <1>5, <3>1
    <2> QED
      BY <2>1, <2>2
  <1>14. A + B <= j - h
    BY <1>2, <1>3
  <1>15. Selection(l, h, j, f, k, cut)
    BY <1>2, <1>11, <1>12, <1>13, <1>14 DEF Selection
  <1> QED
    BY <1>15 DEF l

\* px[0 .. n - 1] with the mask m shows the pixels of f from i on, masked by k: a masked pixel is masked
\* by m or 0.
Shows(n, i, px, m, f, k) ==
    /\ n \in Nat /\ i \in Nat
    /\ \A e \in 0 .. n - 1 :
          /\ px[e] \in Int
          /\ i + e \in k => i + e \in m \/ px[e] = 0
          /\ i + e \notin k => i + e \notin m /\ px[e] = f[i + e]

\* Of such pixels the same are kept.
LEMMA ShowsKeep ==
    ASSUME NEW n, NEW i, NEW px, NEW m, NEW f, NEW k, Shows(n, i, px, m, f, k), NEW cut \in Nat, NEW e \in 0 .. n - 1
    PROVE  i + e \notin m /\ Greater(px[e], cut) <=> i + e \notin k /\ Greater(f[i + e], cut)
  BY DEF Shows, Greater

\* What a kernel lists is, with absolute addresses, the selection of the block.
LEMMA ListedSelects ==
    ASSUME NEW n, NEW i, NEW px, NEW m, NEW f, NEW k, Shows(n, i, px, m, f, k), NEW cut \in Nat,
           NEW o, SoFar(CallOf(n, i, px, m, cut), o, n)
    PROVE  Selection(Listed(o), i, i + n, f, k, cut)
  <1> DEFINE c == CallOf(n, i, px, m, cut)
             l == Listed(o)
             S == Keep(c, 0, n)
             v(x) == o.adr[x] - i
  <1>1. c.n = n /\ c.i0 = i /\ c.px = px /\ c.mask = m /\ c.cut = cut /\ n \in Nat /\ i \in Nat
    BY DEF CallOf, Shows
  <1>2. ASSUME NEW e PROVE e \in S <=> e \in 0 .. n - 1 /\ i + e \notin k /\ Greater(f[i + e], cut)
    BY <1>1, ShowsKeep DEF Keep, mask_ok
  <1>3. Collected(c, S, o, n)
    BY DEF SoFar
  <1> HIDE DEF c, S
  <1>4. /\ o \in [vals : Seq(Int), adr : Seq(Int), n : Nat]
        /\ o.n <= Len(o.vals) /\ Len(o.vals) <= n /\ o.n <= Len(o.adr)
        /\ \A x \in 1 .. o.n : v(x) \in S /\ o.vals[x] = px[v(x)]
        /\ \A e \in S : \E x \in 1 .. o.n : o.adr[x] = i + e
        /\ \A x, y \in 1 .. o.n : x < y => o.adr[x] < o.adr[y]
    BY <1>1, <1>3 DEF Collected
  <1>5. ASSUME NEW x \in 1 .. o.n
        PROVE  /\ o.adr[x] \in Int /\ o.vals[x] \in Int /\ o.adr[x] \in i .. (i + n) - 1 /\ o.adr[x] \notin k
               /\ Greater(f[o.adr[x]], cut) /\ o.vals[x] = f[o.adr[x]]
    <2>1. x \in 1 .. Len(o.adr) /\ x \in 1 .. Len(o.vals)
      BY <1>4
    <2>2. o.adr[x] \in Int /\ o.vals[x] \in Int
      BY <1>4, <2>1
    <2>3. v(x) \in S /\ o.vals[x] = px[v(x)]
      BY <1>4
    <2>4. v(x) \in 0 .. n - 1 /\ i + v(x) \notin k /\ Greater(f[i + v(x)], cut)
      BY <1>2, <2>3
    <2>5. i + v(x) = o.adr[x]
      BY <1>1, <2>2
    <2>6. px[v(x)] = f[i + v(x)]
      BY <2>4 DEF Shows
    <2>7. o.adr[x] \in i .. (i + n) - 1
      BY <1>1, <2>2, <2>4
    <2> HIDE DEF v
    <2> QED
      BY <2>2, <2>3, <2>4, <2>5, <2>6, <2>7
  <1>6. /\ DOMAIN l = 1 .. o.n /\ o.n \in Nat /\ o.n <= n
        /\ \A x \in 1 .. o.n : l[x] = <<o.adr[x], o.vals[x]>>
    BY <1>1, <1>4 DEF Listed
  <1>7. l \in Seq(Nat \X Int) /\ Len(l) = o.n
    <2>1. l = [x \in 1 .. o.n |-> <<o.adr[x], o.vals[x]>>]
      BY DEF Listed
    <2>2. \A x \in 1 .. o.n : o.adr[x] \in Nat /\ o.vals[x] \in Int
      BY <1>1, <1>5
    <2> HIDE DEF l
    <2> QED
      BY <1>6, <2>1, <2>2
  <1> HIDE DEF l
  <1>8. ASSUME NEW x \in 1 .. o.n PROVE l[x][1] = o.adr[x] /\ l[x][2] = o.vals[x]
    BY <1>6
  <1>9. ASSUME NEW p \in i .. (i + n) - 1, p \notin k, Greater(f[p], cut) PROVE \E x \in 1 .. o.n : o.adr[x] = p
    <2>1. p - i \in 0 .. n - 1 /\ i + (p - i) = p
      BY <1>1
    <2>2. p - i \in S
      BY <1>2, <1>9, <2>1
    <2> QED
      BY <1>4, <2>1, <2>2
  <1>10. n = (i + n) - i
    BY <1>1
  <1>11. /\ l \in Seq(Nat \X Int) /\ Len(l) <= (i + n) - i
         /\ \A x \in 1 .. Len(l) :
              /\ l[x][1] \in i .. (i + n) - 1 /\ l[x][1] \notin k
              /\ Greater(f[l[x][1]], cut) /\ l[x][2] = f[l[x][1]]
    BY <1>5, <1>6, <1>7, <1>8, <1>10, SMTT(30)
  <1>12. \A x, y \in 1 .. Len(l) : x < y => l[x][1] < l[y][1]
    <2>1. ASSUME NEW x \in 1 .. o.n, NEW y \in 1 .. o.n, x < y PROVE l[x][1] < l[y][1]
      <3>1. o.adr[x] < o.adr[y]
        BY <1>4, <2>1
      <3> QED
        BY <1>8, <3>1
    <2> QED
      BY <1>7, <2>1
  <1>13. \A p \in i .. (i + n) - 1 : p \notin k /\ Greater(f[p], cut) => \E x \in 1 .. Len(l) : l[x][1] = p
    <2>1. ASSUME NEW p \in i .. (i + n) - 1, p \notin k, Greater(f[p], cut) PROVE \E x \in 1 .. o.n : l[x][1] = p
      <3>1. PICK x \in 1 .. o.n : o.adr[x] = p
        BY <1>9, <2>1
      <3> QED
        BY <1>8, <3>1
    <2> QED
      BY <1>7, <2>1
  <1>14. Selection(l, i, i + n, f, k, cut)
    BY <1>11, <1>12, <1>13 DEF Selection
  <1> QED
    BY <1>14 DEF l

\* From a list of the pixels that are not 0, what is above the cut.
LEMMA SparseListSelects ==
    ASSUME NEW n, NEW i, NEW px, NEW m, NEW f, NEW k, Shows(n, i, px, m, f, k), NEW c, NEW o,
           c.n = n, c.i0 = i, c.px = px, c.mask = m, Collected(c, NonZero(c), o, n),
           NEW w, w.cut \in Nat, w.type \in {"u16", "u32"} => \A e \in 0 .. n - 1 : px[e] \in 0 .. Word - 1
    PROVE  Selection(SparseList(w, Listed(o)), i, i + n, f, k, w.cut)
  <1> DEFINE l    == Listed(o)
             S    == {e \in ToSet(l) : Greater(e[2], w.cut)}
             kept == Picked(l, S)
             v(x) == o.adr[x] - i
  <1>1. n \in Nat /\ i \in Nat /\ \A e \in 0 .. n - 1 : px[e] \in Int
    BY DEF Shows
  <1>2. ASSUME NEW e PROVE e \in NonZero(c) <=> e \in 0 .. n - 1 /\ i + e \notin m /\ px[e] # 0
    BY DEF NonZero, mask_ok
  <1>3. /\ o \in [vals : Seq(Int), adr : Seq(Int), n : Nat]
        /\ o.n <= Len(o.vals) /\ Len(o.vals) <= n /\ o.n <= Len(o.adr)
        /\ \A x \in 1 .. o.n : v(x) \in NonZero(c) /\ o.vals[x] = px[v(x)]
        /\ \A e \in NonZero(c) : \E x \in 1 .. o.n : o.adr[x] = i + e
        /\ \A x, y \in 1 .. o.n : x < y => o.adr[x] < o.adr[y]
    BY DEF Collected
  <1>4. ASSUME NEW x \in 1 .. o.n
        PROVE  /\ o.adr[x] \in i .. (i + n) - 1 /\ o.vals[x] \in Int
               /\ Greater(o.vals[x], w.cut) =>
                     o.adr[x] \notin k /\ Greater(f[o.adr[x]], w.cut) /\ o.vals[x] = f[o.adr[x]]
    <2>1. x \in 1 .. Len(o.adr) /\ x \in 1 .. Len(o.vals)
      BY <1>3
    <2>2. o.adr[x] \in Int /\ o.vals[x] \in Int
      BY <1>3, <2>1
    <2>3. v(x) \in 0 .. n - 1 /\ i + v(x) \notin m /\ o.vals[x] = px[v(x)]
      BY <1>2, <1>3
    <2>4. i + v(x) = o.adr[x] /\ o.adr[x] \in i .. (i + n) - 1
      BY <1>1, <2>2, <2>3
    <2>5. Greater(px[v(x)], w.cut) => i + v(x) \notin k /\ Greater(f[i + v(x)], w.cut)
      BY <2>3, ShowsKeep
    <2>6. i + v(x) \notin k => px[v(x)] = f[i + v(x)]
      BY <2>3 DEF Shows
    <2> HIDE DEF v
    <2> QED
      BY <2>2, <2>3, <2>4, <2>5, <2>6
  <1>5. ASSUME NEW p \in i .. (i + n) - 1, p \notin k, Greater(f[p], w.cut)
        PROVE  \E x \in 1 .. o.n : o.adr[x] = p /\ Greater(o.vals[x], w.cut)
    <2> DEFINE e == p - i
    <2>1. e \in 0 .. n - 1 /\ i + e = p
      BY <1>1
    <2> HIDE DEF e
    <2>2. i + e \notin m /\ Greater(px[e], w.cut) /\ px[e] \in Int
      BY <1>1, <1>5, <2>1, ShowsKeep
    <2>3. e \in NonZero(c)
      BY <1>2, <2>1, <2>2 DEF Greater
    <2>4. PICK x \in 1 .. o.n : o.adr[x] = i + e
      BY <1>3, <2>3
    <2>5. v(x) = e
      <3>1. e \in Int
        BY <2>1
      <3> QED
        BY <1>1, <2>4, <3>1
    <2>6. o.vals[x] = px[e]
      BY <1>3, <2>5
    <2> QED
      BY <2>1, <2>2, <2>4, <2>6
  <1>6. CASE cut_above_max(w)
    <2>1. ASSUME NEW p \in i .. (i + n) - 1, p \notin k, Greater(f[p], w.cut) PROVE FALSE
      <3>1. PICK x \in 1 .. o.n : o.adr[x] = p /\ Greater(o.vals[x], w.cut)
        BY <1>5, <2>1
      <3>2. v(x) \in 0 .. n - 1 /\ o.vals[x] = px[v(x)]
        BY <1>2, <1>3
      <3>3. o.vals[x] \in 0 .. Word - 1 /\ w.cut > Word - 1
        BY <1>6, <3>2 DEF cut_above_max
      <3> QED
        BY <3>1, <3>3 DEF Greater, Word
    <2>2. SparseList(w, l) = <<>>
      BY <1>6 DEF SparseList
    <2>3. <<>> \in Seq(Nat \X Int) /\ Len(<<>>) = 0 /\ 0 <= (i + n) - i
      BY <1>1
    <2>4. Selection(<<>>, i, i + n, f, k, w.cut)
      BY <2>1, <2>3 DEF Selection
    <2> QED
      BY <2>2, <2>4
  <1>7. CASE ~ cut_above_max(w)
    <2>1. SparseList(w, l) = kept
      BY <1>7 DEF SparseList
    <2>2. DOMAIN l = 1 .. o.n /\ o.n \in Nat /\ o.n <= n /\ \A x \in 1 .. o.n : l[x] = <<o.adr[x], o.vals[x]>>
      BY <1>1, <1>3 DEF Listed
    <2> HIDE DEF l
    <2>3. ASSUME NEW x \in 1 .. o.n
          PROVE  /\ l[x][1] = o.adr[x] /\ l[x][2] = o.vals[x] /\ l[x] \in Nat \X Int
                 /\ l[x] \in S <=> Greater(o.vals[x], w.cut)
      <3>1. l[x] = <<o.adr[x], o.vals[x]>> /\ o.adr[x] \in Nat /\ o.vals[x] \in Int
        BY <1>1, <1>4, <2>2
      <3>2. l[x] \in ToSet(l)
        BY <2>2 DEF ToSet
      <3> QED
        BY <3>1, <3>2
    <2>4. ToSet(l) \subseteq Nat \X Int
      BY <2>2, <2>3 DEF ToSet
    <2> HIDE DEF S
    <2>5. Chosen(S, l, kept, o.n)
      BY <2>2, PickedIsChosen
    <2> HIDE DEF kept
    <2>6. kept \in Seq(Nat \X Int) /\ Len(kept) <= o.n /\ Len(kept) \in Nat
      BY <2>4, <2>5 DEF Chosen
    <2>7. PICK at : ChosenAt(S, l, kept, o.n, at)
      BY <2>5 DEF Chosen
    <2>8. ASSUME NEW x \in 1 .. Len(kept)
          PROVE  /\ at[x] \in 1 .. o.n /\ kept[x][1] = o.adr[at[x]] /\ kept[x][2] = o.vals[at[x]]
                 /\ Greater(o.vals[at[x]], w.cut)
      <3>1. at[x] \in 1 .. o.n /\ kept[x] = l[at[x]] /\ l[at[x]] \in S
        BY <2>7 DEF ChosenAt
      <3> QED
        BY <2>3, <3>1
    <2>9. ASSUME NEW x \in 1 .. Len(kept)
          PROVE  /\ kept[x][1] \in i .. (i + n) - 1 /\ kept[x][1] \notin k
                 /\ Greater(f[kept[x][1]], w.cut) /\ kept[x][2] = f[kept[x][1]]
      <3> DEFINE y == at[x]
      <3>1. /\ y \in 1 .. o.n /\ kept[x][1] = o.adr[y] /\ kept[x][2] = o.vals[y]
            /\ Greater(o.vals[y], w.cut)
        BY <2>8
      <3> HIDE DEF y
      <3>2. /\ o.adr[y] \in i .. (i + n) - 1 /\ o.adr[y] \notin k
            /\ Greater(f[o.adr[y]], w.cut) /\ o.vals[y] = f[o.adr[y]]
        BY <1>4, <3>1
      <3> QED
        BY <3>1, <3>2
    <2>10. ASSUME NEW x \in 1 .. Len(kept), NEW y \in 1 .. Len(kept), x < y
           PROVE  kept[x][1] < kept[y][1]
      <3>1. at[x] < at[y]
        BY <2>7, <2>10 DEF ChosenAt
      <3>2. o.adr[at[x]] < o.adr[at[y]]
        BY <1>3, <2>8, <3>1
      <3> QED
        BY <2>8, <3>2
    <2>11. ASSUME NEW p \in i .. (i + n) - 1, p \notin k, Greater(f[p], w.cut)
           PROVE  \E x \in 1 .. Len(kept) : kept[x][1] = p
      <3>1. PICK y \in 1 .. o.n : o.adr[y] = p /\ Greater(o.vals[y], w.cut)
        BY <1>5, <2>11
      <3>2. l[y] \in S
        BY <2>3, <3>1
      <3>3. PICK x \in 1 .. Len(kept) : at[x] = y
        BY <2>7, <3>2 DEF ChosenAt
      <3> QED
        BY <2>8, <3>1, <3>3
    <2>12. Len(kept) <= (i + n) - i
      BY <1>1, <2>2, <2>6
    <2>13. \A x \in 1 .. Len(kept) :
              /\ kept[x][1] \in i .. (i + n) - 1 /\ kept[x][1] \notin k
              /\ Greater(f[kept[x][1]], w.cut) /\ kept[x][2] = f[kept[x][1]]
      BY <2>9
    <2>14. \A x, y \in 1 .. Len(kept) : x < y => kept[x][1] < kept[y][1]
      BY <2>10
    <2>15. \A p \in i .. (i + n) - 1 : p \notin k /\ Greater(f[p], w.cut) =>
              \E x \in 1 .. Len(kept) : kept[x][1] = p
      BY <2>11
    <2>16. Selection(kept, i, i + n, f, k, w.cut)
      BY <2>6, <2>12, <2>13, <2>14, <2>15 DEF Selection
    <2> QED
      BY <2>1, <2>16 DEF l
  <1> QED
    BY <1>6, <1>7

\* Sparsify a block: nothing where the cut is above every value of the type, the kernel otherwise.
LEMMA SparseBlockLists ==
    ASSUME NEW w, w.n \in Nat, w.i0 \in Nat, w.cut \in Nat, \A e \in 0 .. w.n - 1 : w.px[e] \in Int,
           w.type \in {"u16", "u32"} => \A e \in 0 .. w.n - 1 : w.px[e] \in 0 .. Word - 1
    PROVE  SoFar(CallOf(w.n, w.i0, w.px, w.mask, w.cut), sparse_block(w), w.n)
  <1> DEFINE c == CallOf(w.n, w.i0, w.px, w.mask, w.cut)
  <1>1. c.n = w.n /\ c.i0 = w.i0 /\ c.px = w.px /\ c.mask = w.mask /\ c.cut = w.cut /\ Call(w) = c
    BY DEF CallOf, Call
  <1> HIDE DEF c
  <1>2. CASE cut_above_max(w)
    <2>1. sparse_block(w) = Empty
      BY <1>2 DEF sparse_block
    <2>2. Keep(c, 0, w.n) = {}
      <3>1. ASSUME NEW e \in 0 .. w.n - 1 PROVE ~ Greater(w.px[e], w.cut)
        <4>1. w.px[e] \in 0 .. Word - 1 /\ w.cut > Word - 1
          BY <1>2 DEF cut_above_max
        <4> QED
          BY <4>1 DEF Greater, Word
      <3> QED
        BY <1>1, <3>1 DEF Keep
    <2> DEFINE z == 0
    <2>3. z \in Nat /\ z <= w.n /\ SoFar(c, Empty, z) /\ Keep(c, z, w.n) = {}
      <3>1. Keep(c, 0, 0) = {}
        BY DEF Keep
      <3>2. SoFar(c, Empty, 0)
        BY <3>1, CollectedNothing DEF SoFar
      <3> QED
        BY <2>2, <3>2
    <2> HIDE DEF z
    <2>4. SoFar(c, Empty, w.n)
      BY <2>3, NothingBetween
    <2>5. SoFar(c, sparse_block(w), w.n)
      BY <2>1, <2>4
    <2> QED
      BY <2>5 DEF c
  <1>3. CASE ~ cut_above_max(w)
    <2>1. IsCall(c)
      BY <1>1 DEF IsCall
    <2>2. IsTyped(c, w.type)
      <3>1. w.type \in {"u16", "u32"} => w.cut \in 0 .. Word - 1
        BY <1>3 DEF cut_above_max, Word
      <3> QED
        BY <1>1, <2>1, <3>1 DEF IsTyped, IsWordCall
    <2>3. sparse_block(w) = collect_gt(c, w.type, w.tier)
      BY <1>1, <1>3 DEF sparse_block
    <2>4. SoFar(c, sparse_block(w), w.n)
      BY <1>1, <2>2, <2>3, CollectGtLists
    <2> QED
      BY <2>4 DEF c
  <1> QED
    BY <1>2, <1>3

\* The inductive invariant of the list: with BlockInv, what was collected so far.
ListInv == Selection(list, 0, i0, frame, mask, pipe.cut) /\ StoresStayInside

\* Which mask a kernel is given: none where the planes were masked.
MaskOf(no_mask) == IF no_mask THEN {} ELSE mask

\* A block shows the pixels of the frame.
LEMMA SeenShows ==
    ASSUME pipe \in Pipes, frame \in Frames(pipe), i0 \in Nat, i0 + pipe.ne <= Total,
           NEW px, \A e \in 0 .. pipe.ne - 1 : px[e] = Seen[e]
    PROVE  Shows(pipe.ne, i0, px, MaskOf(maskplanes), frame, mask)
  <1>1. pipe.ne \in Nat
    BY PipeFacts
  <1>2. \A e \in 0 .. pipe.ne - 1 : Seen[e] \in Int
    BY SeenFacts
  <1>3. \A e \in 0 .. pipe.ne - 1 : Seen[e] = IF maskplanes /\ i0 + e \in mask THEN 0 ELSE frame[i0 + e]
    BY DEF Seen
  <1>4. MaskOf(maskplanes) = IF maskplanes THEN {} ELSE mask
    BY DEF MaskOf
  <1> QED
    BY <1>1, <1>2, <1>3, <1>4 DEF Shows

\* What was listed of a block goes to the output; it fits where it was stored.
LEMMA OutputKeeps ==
    ASSUME BlockInv, stage # "start", ListInv, NEW n \in Nat, i0 + n <= Total,
           NEW px, NEW m, Shows(n, i0, px, m, frame, mask),
           NEW o, SoFar(CallOf(n, i0, px, m, pipe.cut), o, n), Output(o),
           i0' = i0 + n, UNCHANGED <<pipe, frame, mask>>
    PROVE  ListInv'
  <1>1. pipe \in Pipes /\ i0 \in Nat /\ frame \in Frames(pipe)
    BY DEF BlockInv
  <1>2. pipe.cut \in Nat /\ Total \in Nat
    BY <1>1, PipeFacts, FrameFacts DEF Total
  <1>3. Selection(Listed(o), i0, i0 + n, frame, mask, pipe.cut)
    BY <1>2, ListedSelects
  <1>4. Selection(list, 0, i0, frame, mask, pipe.cut)
    BY DEF ListInv
  <1>5. Selection(list \o Listed(o), 0, i0 + n, frame, mask, pipe.cut)
    <2> DEFINE z == 0
               j == i0 + n
    <2>1. z \in Nat /\ z <= i0 /\ j \in Nat /\ i0 <= j /\ Selection(list, z, i0, frame, mask, pipe.cut)
          /\ Selection(Listed(o), i0, j, frame, mask, pipe.cut)
      BY <1>1, <1>3, <1>4
    <2> HIDE DEF z, j
    <2>2. Selection(list \o Listed(o), z, j, frame, mask, pipe.cut)
      BY <1>1, <2>1, SelectionsJoin
    <2> QED
      BY <2>2 DEF z, j
  <1>6. list' = list \o Listed(o) /\ call' = [room |-> Total - Len(list), o |-> o]
    BY DEF Output
  <1>7. Len(list) <= i0 /\ Len(list) \in Nat
    <2>1. list \in Seq(Nat \X Int) /\ Len(list) <= i0 - 0
      BY <1>4 DEF Selection
    <2> QED
      BY <1>1, <2>1
  <1>8. Len(o.vals) \in Nat /\ Len(o.vals) <= n /\ Len(o.adr) \in Nat /\ Len(o.adr) <= n
    BY DEF SoFar, Collected
  <1>9. Len(o.vals) <= Total - Len(list) /\ Len(o.adr) <= Total - Len(list)
    BY <1>1, <1>2, <1>7, <1>8
  <1>10. StoresStayInside'
    BY <1>6, <1>9 DEF StoresStayInside
  <1> QED
    BY <1>5, <1>6, <1>10 DEF ListInv

\* The same from a list of the pixels that are not 0, made in the scratch of a block.
LEMMA SparseDotKeeps ==
    ASSUME BlockInv, stage # "start", ListInv, NEW n \in Nat, i0 + n <= Total, n <= pipe.ne,
           NEW px, NEW m, Shows(n, i0, px, m, frame, mask),
           NEW o, NEW c, c.n = n, c.i0 = i0, c.px = px, c.mask = m, Collected(c, NonZero(c), o, n),
           NEW w, w.cut = pipe.cut, w.type = pipe.type, SparseDot(w, o),
           pipe.type \in {"u16", "u32"} => \A e \in 0 .. n - 1 : px[e] \in 0 .. Word - 1,
           i0' = i0 + n, UNCHANGED <<pipe, frame, mask>>
    PROVE  ListInv'
  <1> DEFINE s == SparseList(w, Listed(o))
  <1>1. pipe \in Pipes /\ i0 \in Nat
    BY DEF BlockInv
  <1>2. pipe.cut \in Nat /\ pipe.ne \in Nat
    BY <1>1, PipeFacts
  <1>3. Selection(s, i0, i0 + n, frame, mask, pipe.cut)
    BY <1>2, SparseListSelects
  <1>4. Selection(list, 0, i0, frame, mask, pipe.cut)
    BY DEF ListInv
  <1> HIDE DEF s
  <1>5. Selection(list \o s, 0, i0 + n, frame, mask, pipe.cut)
    <2> DEFINE z == 0
               j == i0 + n
    <2>1. z \in Nat /\ z <= i0 /\ j \in Nat /\ i0 <= j /\ Selection(list, z, i0, frame, mask, pipe.cut)
          /\ Selection(s, i0, j, frame, mask, pipe.cut)
      BY <1>1, <1>3, <1>4
    <2> HIDE DEF z, j
    <2>2. Selection(list \o s, z, j, frame, mask, pipe.cut)
      BY <1>1, <2>1, SelectionsJoin
    <2> QED
      BY <2>2 DEF z, j
  <1>6. list' = list \o s /\ call' = [room |-> pipe.ne, o |-> o]
    BY DEF SparseDot, sparse_dot, s
  <1>7. Len(o.vals) \in Nat /\ Len(o.vals) <= n /\ Len(o.adr) \in Nat /\ Len(o.adr) <= n
    BY DEF Collected
  <1>8. Len(o.vals) <= pipe.ne /\ Len(o.adr) <= pipe.ne
    BY <1>2, <1>7
  <1>9. StoresStayInside'
    BY <1>6, <1>8 DEF StoresStayInside
  <1> QED
    BY <1>5, <1>6, <1>9 DEF ListInv

\* Blocks of VSX are of whole groups; where they are not, its last group is listed whole.
WholeGroups == \A p \in Pipes : p.u = "vsx" => p.ne % GroupPx = 0

\* Planes straight to list.
LEMMA ListFusedLists ==
    ASSUME WholeGroups, BlockInv, ListInv, NEW tight, ListFused(tight)
    PROVE  ListInv'
  <1> DEFINE ne == pipe.ne
             w  == Work(ne, <<>>, maskplanes)
             m  == MaskOf(maskplanes)
             cut == IF is_dot THEN 0 ELSE pipe.cut
             j  == [ne |-> ne, nz_end |-> nz_end, i0 |-> i0, mask |-> m, cut |-> cut, sparse |-> tight]
             r  == lowplanes_list(pipe.u, raw, j)
             c  == CallOf(ne, i0, Seen, m, cut)
  <1>1. /\ pipe \in Pipes /\ i0 \in Nat /\ frame \in Frames(pipe) /\ i0 + ne <= Total /\ stage # "start"
        /\ ne \in Nat \ {0} /\ pipe.cut \in Nat /\ ~pipe.inplace /\ StandsFor(raw, Seen, ne, nz_end)
    BY PipeFacts DEF BlockInv, ListFused
  <1>2. w.mask = m /\ w.cut = pipe.cut /\ w.type = pipe.type
    BY DEF Work, MaskOf
  <1>3. /\ UNCHANGED <<pipe, frame, mask, mat, nz_end>>
        /\ \/ r.handled /\ ~is_dot /\ Output(r.o)
           \/ r.handled /\ is_dot /\ SparseDot(w, r.o)
           \/ ~r.handled /\ UNCHANGED <<list, powder, call>>
        /\ i0' = IF r.handled THEN i0 + ne ELSE i0
    BY <1>2 DEF ListFused
  <1>4. pipe.u = "vsx" => ne % GroupPx = 0
    BY <1>1 DEF WholeGroups
  <1>5. cut \in Nat
    BY <1>1
  <1>6. r.handled => SoFar(c, r.o, ne)
    <2> HIDE DEF cut, m, ne
    <2> QED
      BY <1>1, <1>4, <1>5, LowplanesListed
  <1>7. Shows(ne, i0, Seen, m, frame, mask)
    BY <1>1, SeenShows
  <1>8. \A e \in 0 .. ne - 1 : Seen[e] \in 0 .. Word - 1
    BY <1>1, SeenFacts
  <1> HIDE DEF r, w, m
  <1>9. CASE r.handled /\ ~is_dot /\ Output(r.o)
    <2>1. SoFar(CallOf(ne, i0, Seen, m, pipe.cut), r.o, ne)
      BY <1>6, <1>9
    <2> QED
      BY <1>1, <1>3, <1>7, <1>9, <2>1, OutputKeeps
  <1>10. CASE r.handled /\ is_dot /\ SparseDot(w, r.o)
    <2>1. c.n = ne /\ c.i0 = i0 /\ c.px = Seen /\ c.mask = m /\ c.cut = 0
      BY <1>10 DEF CallOf
    <2>2. SoFar(c, r.o, ne)
      BY <1>6, <1>10
    <2> HIDE DEF c
    <2>3. Keep(c, 0, ne) = NonZero(c)
      <3>1. ASSUME NEW e \in 0 .. ne - 1 PROVE Greater(Seen[e], 0) <=> Seen[e] # 0
        BY <1>8 DEF Greater, Word, NaN
      <3> QED
        BY <2>1, <3>1 DEF Keep, NonZero
    <2>4. Collected(c, NonZero(c), r.o, ne)
      BY <2>2, <2>3 DEF SoFar
    <2>5. ne \in Nat /\ ne <= pipe.ne /\ i0' = i0 + ne
      BY <1>1, <1>3, <1>10
    <2> HIDE DEF ne
    <2> QED
      BY <1>1, <1>2, <1>3, <1>7, <1>8, <1>10, <2>1, <2>4, <2>5, SparseDotKeeps
  <1>11. CASE ~r.handled /\ UNCHANGED <<list, powder, call>>
    BY <1>3, <1>11 DEF ListInv, StoresStayInside
  <1> QED
    BY <1>3, <1>9, <1>10, <1>11

\* Pixels to list.
LEMMA CollectBlockLists ==
    ASSUME BlockInv, ListInv, CollectBlock
    PROVE  ListInv'
  <1> DEFINE n == IF stage = "tail" THEN Total - i0 ELSE pipe.ne
             m == MaskOf(stage = "pixels" /\ maskplanes)
             w == Work(n, block, stage = "pixels" /\ maskplanes)
             r == dense_route(w, fold_mask(mat, mask), powder)
             c == CallOf(n, i0, block, m, pipe.cut)
  <1>1. /\ pipe \in Pipes /\ i0 \in Nat /\ frame \in Frames(pipe) /\ stage \in {"pixels", "tail"} /\ i0 <= Total
    BY DEF BlockInv, CollectBlock
  <1>2. /\ Total \in Nat /\ pipe.ne \in Nat /\ pipe.cut \in Nat
        /\ pipe.type \in {"u16", "u32"} => \A p \in 0 .. Total - 1 : frame[p] \in 0 .. Word - 1
        /\ \A p \in 0 .. Total - 1 : frame[p] \in Int
    BY <1>1, PipeFacts, FrameFacts DEF Total
  <1>3. /\ Shows(n, i0, block, m, frame, mask) /\ i0 + n <= Total /\ n \in Nat /\ n <= pipe.ne
        /\ pipe.type \in {"u16", "u32"} => \A e \in 0 .. n - 1 : block[e] \in 0 .. Word - 1
    <2>1. CASE stage = "pixels"
      <3>1. i0 + pipe.ne <= Total /\ \A e \in 0 .. pipe.ne - 1 : block[e] = Seen[e]
        BY <2>1 DEF BlockInv
      <3>2. n = pipe.ne /\ m = MaskOf(maskplanes)
        BY <2>1 DEF MaskOf
      <3>3. pipe.type \in {"u16", "u32"} => \A e \in 0 .. pipe.ne - 1 : block[e] \in 0 .. Word - 1
        BY <1>1, <3>1, SeenFacts
      <3>4. Shows(pipe.ne, i0, block, MaskOf(maskplanes), frame, mask)
        BY <1>1, <3>1, SeenShows
      <3> HIDE DEF n, m
      <3> QED
        BY <1>2, <3>1, <3>2, <3>3, <3>4
    <2>2. CASE stage = "tail"
      <3>1. i0 + pipe.ne > Total /\ \A e \in 0 .. Total - i0 - 1 : block[e] = frame[i0 + e]
        BY <2>2 DEF BlockInv
      <3>2. n = Total - i0 /\ m = mask
        BY <2>2 DEF MaskOf
      <3> HIDE DEF n, m
      <3>3. n \in Nat /\ i0 + n <= Total /\ n <= pipe.ne
        BY <1>1, <1>2, <3>1, <3>2
      <3>4. ASSUME NEW e \in 0 .. n - 1 PROVE block[e] = frame[i0 + e] /\ i0 + e \in 0 .. Total - 1
        BY <1>1, <1>2, <3>1, <3>2, <3>3
      <3> QED
        BY <1>1, <1>2, <3>2, <3>3, <3>4 DEF Shows
    <2> QED
      BY <1>1, <2>1, <2>2
  <1>4. /\ w.n = n /\ w.i0 = i0 /\ w.px = block /\ w.mask = m /\ w.cut = pipe.cut
        /\ w.type = pipe.type /\ w.tier = pipe.tier
    BY DEF Work, MaskOf
  <1>5. /\ UNCHANGED <<pipe, frame, mask, mat>> /\ i0' = i0 + n
        /\ \/ ~is_dot /\ Output(sparse_block(w))
           \/ is_dot /\ ~sparse /\ Output(r.out)
           \/ is_dot /\ sparse /\ SparseDot(w, collect_nz(Call(w), w.type, w.tier))
    BY DEF CollectBlock
  <1>6. r.out = sparse_block(w)
    BY DEF dense_route
  <1> HIDE DEF r, w, n, m
  <1>7. Call(w) = c
    BY <1>4 DEF Call, CallOf
  <1>8. \A e \in 0 .. n - 1 : block[e] \in Int
    BY <1>3 DEF Shows
  <1>9. SoFar(c, sparse_block(w), n)
    BY <1>1, <1>2, <1>3, <1>4, <1>8, SparseBlockLists
  <1>10. CASE Output(sparse_block(w))
    BY <1>1, <1>3, <1>5, <1>9, <1>10, OutputKeeps
  <1>11. CASE SparseDot(w, collect_nz(Call(w), w.type, w.tier))
    <2> DEFINE o == collect_nz(c, w.type, w.tier)
               d == CallOf(n, i0, block, m, 0)
    <2>1. d.n = n /\ d.i0 = i0 /\ d.px = block /\ d.cut = 0
      BY DEF CallOf
    <2>2. IsTyped(d, w.type)
      <3> HIDE DEF d
      <3> QED
        BY <1>1, <1>3, <1>4, <1>8, <2>1 DEF IsTyped, IsCall, IsWordCall, Word
    <2>3. Collected(c, NonZero(c), o, n)
      BY <2>2, CollectNzLists
    <2>4. c.n = n /\ c.i0 = i0 /\ c.px = block /\ c.mask = m
      BY DEF CallOf
    <2>5. SparseDot(w, o)
      BY <1>7, <1>11
    <2> HIDE DEF c, o, d
    <2> QED
      BY <1>1, <1>3, <1>4, <1>5, <2>3, <2>4, <2>5, SparseDotKeeps
  <1> QED
    BY <1>5, <1>6, <1>10, <1>11

\* At the start.
LEMMA ListInvInit ==
    ASSUME Init
    PROVE  ListInv
  <1>1. list = <<>> /\ i0 = 0 /\ call = [room |-> 0, o |-> Empty]
    BY DEF Init
  <1>2. StoresStayInside
    BY <1>1 DEF StoresStayInside, Empty
  <1>3. Selection(list, 0, i0, frame, mask, pipe.cut)
    BY <1>1 DEF Selection
  <1> QED
    BY <1>2, <1>3 DEF ListInv

\* Every step keeps ListInv, if the blocks of VSX are of whole groups.
LEMMA ListInvNext ==
    ASSUME WholeGroups, BlockInv, ListInv, [Next]_vars
    PROVE  ListInv'
  <1>1. ASSUME NEW f, NEW k, NEW m, Call_run(f, k, m) PROVE ListInv'
    <2>1. i0 = 0 /\ UNCHANGED <<pipe, i0, list, call>>
      BY <1>1 DEF BlockInv, Call_run
    <2>2. list \in Seq(Nat \X Int) /\ Len(list) <= 0 - 0
      BY <2>1 DEF ListInv, Selection
    <2>3. Selection(list, 0, 0, frame', mask', pipe.cut)
      BY <2>2 DEF Selection
    <2> QED
      BY <2>1, <2>3 DEF ListInv, StoresStayInside
  <1>2. ASSUME NEW tight \in BOOLEAN, ListFused(tight) PROVE ListInv'
    BY <1>2, ListFusedLists
  <1>3. CASE UNCHANGED <<pipe, frame, mask, i0, list, call>>
    BY <1>3 DEF ListInv, StoresStayInside
  <1>4. DecodeBlock \/ TakeInPlace \/ Untranspose \/ TakeTail \/ Done \/ UNCHANGED vars
           => UNCHANGED <<pipe, frame, mask, i0, list, call>>
    BY DEF DecodeBlock, TakeInPlace, Untranspose, TakeTail, Done, vars
  <1> QED
    BY <1>1, <1>2, <1>3, <1>4, CollectBlockLists DEF Next

\* What was collected is the selection of the pixels so far, for every pipeline, frame and mask.
THEOREM ListsSoFarAreRight == WholeGroups => (Spec => []ListInv)
  <1> SUFFICES ASSUME WholeGroups PROVE Spec => []ListInv
    OBVIOUS
  <1>1. BlockInv /\ ListInv /\ [Next]_vars => ListInv'
    BY ListInvNext
  <1> QED
    BY <1>1, ListInvInit, BuffersStandForTheBlock, PTL DEF Spec

\* The list of a frame is its pixels above the cut and not masked, in order, whatever the steps.
THEOREM TheListIsTheSelection == WholeGroups => (Spec => []ListIsTheSelection)
  <1> SUFFICES ASSUME WholeGroups PROVE Spec => []ListIsTheSelection
    OBVIOUS
  <1>1. ASSUME ListInv PROVE ListIsTheSelection
    <2>1. Selection(list, 0, i0, frame, mask, pipe.cut)
      BY <1>1 DEF ListInv
    <2>2. DOMAIN list = 1 .. Len(list)
      BY <2>1 DEF Selection
    <2>3. /\ \A x \in 1 .. Len(list) :
                /\ list[x][1] \in 0 .. i0 - 1 /\ list[x][1] \notin mask
                /\ Greater(frame[list[x][1]], pipe.cut) /\ list[x][2] = frame[list[x][1]]
          /\ \A x, y \in 1 .. Len(list) : x < y => list[x][1] < list[y][1]
          /\ \A p \in 0 .. i0 - 1 :
                p \notin mask /\ Greater(frame[p], pipe.cut) => \E x \in 1 .. Len(list) : list[x][1] = p
      BY <2>1, Zenon DEF Selection
    <2> QED
      BY <2>2, <2>3, Zenon DEF ListIsTheSelection
  <1> QED
    BY <1>1, ListsSoFarAreRight, PTL

\* No kernel stores past its buffer: the output of the frame from where it stands, or the scratch of a block.
THEOREM NoStorePastTheBuffer == WholeGroups => (Spec => []StoresStayInside)
  <1> SUFFICES ASSUME WholeGroups PROVE Spec => []StoresStayInside
    OBVIOUS
  <1>1. ListInv => StoresStayInside
    BY DEF ListInv
  <1> QED
    BY <1>1, ListsSoFarAreRight, PTL

-----------------------------------------------------------------------------
(* Arithmetic. *)

\* A set of natural numbers has a least one.
LEMMA Least ==
    ASSUME NEW S, S \subseteq Nat, S # {}
    PROVE  \E n \in S : \A m \in S : n <= m
  <1>1. \E x \in S : \A y \in S : ~ (<<y, x>> \in OpToRel(<, Nat))
    BY NatLessThanWellFounded, WFMin, Zenon
  <1>2. PICK x \in S : \A y \in S : ~ (<<y, x>> \in OpToRel(<, Nat))
    BY <1>1
  <1>3. ASSUME NEW y \in S PROVE x <= y
    <2>1. <<y, x>> \in Nat \X Nat
      OBVIOUS
    <2> QED
      BY <1>2, <2>1 DEF OpToRel
  <1> QED
    BY <1>3

\* What the copy of a period looks at.
LEMMA Modulo ==
    ASSUME NEW x \in Nat, NEW m \in Nat \ {0}
    PROVE  x % m \in 0 .. m - 1 /\ (x < m => x % m = x)
  OBVIOUS

\* Rounding up to whole chunks.
LEMMA UpBounds ==
    ASSUME NEW n \in Nat, NEW s \in Nat \ {0}
    PROVE  Up(n, s) \in Nat /\ n <= Up(n, s) /\ Up(n, s) < n + s
  <1> DEFINE q == (n + s - 1) \div s
             r == (n + s - 1) % s
  <1>1. q \in Nat /\ r \in 0 .. s - 1 /\ n + s - 1 = q * s + r
    BY SMT
  <1>2. q * s \in Nat
    BY <1>1, SMT
  <1> HIDE DEF q, r
  <1>3. n <= q * s /\ q * s < n + s
    BY <1>1, <1>2, SMT
  <1> QED
    BY <1>2, <1>3 DEF Up, q

\* It passes no multiple of the chunk.
LEMMA UpToMultiple ==
    ASSUME NEW n \in Nat, NEW s \in Nat \ {0}, NEW t \in Nat, t % s = 0, n <= t
    PROVE  Up(n, s) <= t
  <1> DEFINE q == (n + s - 1) \div s
             k == t \div s
  <1>1. q \in Nat /\ k \in Nat /\ t = k * s /\ q * s <= n + s - 1
    BY SMT
  <1> HIDE DEF q, k
  <1>2. q * s < k * s + s
    BY <1>1, SMT
  <1>3. q <= k
    BY <1>1, <1>2, SMT
  <1>4. q * s <= k * s
    BY <1>1, <1>3, SMT
  <1> QED
    BY <1>1, <1>4 DEF Up, q

\* The end of the data exists.
LEMMA EndExists ==
    ASSUME NEW d, NEW from \in Nat, NEW to \in Nat, from <= to
    PROVE  IsEndOfData(d, from, to, EndOfData(d, from, to)) /\ EndOfData(d, from, to) \in from .. to
  <1> DEFINE S == {e \in from .. to : \A i \in e .. to - 1 : d[i] = 0}
  <1>1. S \subseteq Nat /\ to \in S
    OBVIOUS
  <1>2. PICK e \in S : \A m \in S : e <= m
    BY <1>1, Least
  <1>3. e = from \/ d[e - 1] # 0
    <2> SUFFICES ASSUME e # from, d[e - 1] = 0 PROVE FALSE
      OBVIOUS
    <2>1. e - 1 \in S
      <3>1. e - 1 \in from .. to
        BY <1>2
      <3>2. ASSUME NEW i \in e - 1 .. to - 1 PROVE d[i] = 0
        <4>1. i = e - 1 \/ i \in e .. to - 1
          BY <1>2
        <4> QED
          BY <1>2, <4>1
      <3> QED
        BY <3>1, <3>2
    <2> QED
      BY <1>2, <2>1
  <1>4. e \in from .. to /\ IsEndOfData(d, from, to, e)
    BY <1>2, <1>3 DEF IsEndOfData
  <1> HIDE DEF S
  <1>5. IsEndOfData(d, from, to, EndOfData(d, from, to))
    BY <1>4 DEF EndOfData
  <1> QED
    BY <1>5 DEF IsEndOfData

-----------------------------------------------------------------------------
(* The stores end inside the slack, and are long enough. *)

\* The limit of the stores is in the memory, at the end of the block or after it.
LEMMA LimitBounds ==
    ASSUME DecodeTypeOK
    PROVE  Limit \in Nat /\ Cap \in Nat /\ Cap <= Limit /\ Limit <= MemoryEnd /\ MemoryEnd \in Nat
  BY Lz4Assumption DEF DecodeTypeOK, Limit

\* A store of zeros is long enough, and ends before the limit.
LEMMA ZeroStoreBounds ==
    ASSUME DecodeTypeOK, NEW from \in Nat, NEW n \in Nat, from + n <= Cap
    PROVE  ZeroesStored(from, n) \in Nat /\ n <= ZeroesStored(from, n) /\ from + ZeroesStored(from, n) <= Limit
  <1>1. Up(n, ZeroChunk) \in Nat /\ n <= Up(n, ZeroChunk)
    BY UpBounds, Lz4Assumption
  <1> QED
    BY <1>1, LimitBounds DEF ZeroesStored

\* So does a copy of a match.
LEMMA CopyStoreBounds ==
    ASSUME DecodeTypeOK, NEW n \in Nat, op + n <= Cap
    PROVE  CopyStored(n) \in Nat /\ n <= CopyStored(n) /\ op + CopyStored(n) <= Limit
  <1>1. Up(n, MatchChunk) \in Nat /\ n <= Up(n, MatchChunk) /\ Up(n, MatchChunk) < n + MatchChunk
    BY UpBounds, Lz4Assumption
  <1>2. n <= ShortMatch => Up(n, MatchChunk) <= ShortMatch
    BY UpToMultiple, Lz4Assumption
  <1>3. op \in Nat /\ MatchChunk \in Nat /\ ShortMatch \in Nat /\ sse2 \in BOOLEAN
    BY Lz4Assumption DEF DecodeTypeOK
  <1>4. CASE sse2 /\ ((n <= ShortMatch /\ Limit - op >= ShortMatch) \/ Limit - op >= n + MatchChunk)
    <2>1. CopyStored(n) = Up(n, MatchChunk)
      BY <1>4 DEF CopyStored
    <2> QED
      BY <1>1, <1>2, <1>3, <1>4, <2>1, LimitBounds
  <1>5. CASE ~sse2 /\ n <= ShortMatch /\ Limit - op >= ShortMatch
    <2>1. CopyStored(n) = ShortMatch
      BY <1>5 DEF CopyStored
    <2> QED
      BY <1>3, <1>5, <2>1, LimitBounds
  <1>6. CASE /\ ~(sse2 /\ ((n <= ShortMatch /\ Limit - op >= ShortMatch) \/ Limit - op >= n + MatchChunk))
             /\ ~(~sse2 /\ n <= ShortMatch /\ Limit - op >= ShortMatch)
    <2>1. CopyStored(n) = n
      BY <1>6 DEF CopyStored
    <2> QED
      BY <1>3, <2>1, LimitBounds
  <1> QED
    BY <1>4, <1>5, <1>6

\* So do the stores of literals.
LEMMA LiteralStoreBounds ==
    ASSUME DecodeTypeOK, NEW lit \in Nat, LiteralsFit(lit)
    PROVE  LitStored(lit) \in Nat /\ lit <= LitStored(lit) /\ op + LitStored(lit) <= Limit /\ op + lit <= Cap
  BY LimitBounds, Lz4Assumption DEF DecodeTypeOK, LiteralsFit, LitStored

\* Memory with the zeros before op filled in is the plain output there.
LEMMA Filled ==
    ASSUME DecodeTypeOK, ZeroDecoderAgrees, StaysInSlack
    PROVE  /\ zero_fill(dst, written, op) \in [Memory -> Byte \cup {Guard}]
           /\ \A i \in 0 .. op - 1 : zero_fill(dst, written, op)[i] = plain[i]
           /\ \A i \in Memory : i >= Limit => zero_fill(dst, written, op)[i] = Guard
  <1>1. op \in 0 .. Cap /\ written \in 0 .. op
    BY DEF DecodeTypeOK
  <1>2. CASE written >= op
    BY <1>1, <1>2, LimitBounds DEF zero_fill, DecodeTypeOK, ZeroDecoderAgrees, StaysInSlack
  <1>3. CASE written < op
    <2> DEFINE z == ZeroesStored(written, op - written)
    <2>1. z \in Nat /\ op - written <= z /\ written + z <= Limit
      BY <1>1, <1>3, LimitBounds, ZeroStoreBounds
    <2> HIDE DEF z
    <2>2. zero_fill(dst, written, op) = [i \in Memory |-> IF i >= written /\ i < written + z THEN 0 ELSE dst[i]]
      BY <1>1, <1>3, LimitBounds DEF zero_fill, z
    <2>3. dst \in [Memory -> Byte \cup {Guard}]
      BY DEF DecodeTypeOK
    <2>4. zero_fill(dst, written, op) \in [Memory -> Byte \cup {Guard}]
      BY <2>2, <2>3 DEF Byte
    <2>5. ASSUME NEW i \in 0 .. op - 1 PROVE zero_fill(dst, written, op)[i] = plain[i]
      <3>1. i \in Memory
        BY <1>1, LimitBounds DEF Memory
      <3> QED
        BY <1>1, <2>1, <2>2, <3>1 DEF ZeroDecoderAgrees
    <2>6. ASSUME NEW i \in Memory, i >= Limit PROVE zero_fill(dst, written, op)[i] = Guard
      BY <1>1, <2>1, <2>2, <2>6, LimitBounds DEF StaysInSlack, Memory
    <2> QED
      BY <2>4, <2>5, <2>6
  <1> QED
    BY <1>1, <1>2, <1>3, LimitBounds

-----------------------------------------------------------------------------
(* The steps. *)

\* The invariant: the three properties need each other.
DecodeInv == DecodeTypeOK /\ ZeroDecoderAgrees /\ StaysInSlack

\* At the start.
LEMMA DecodeStarts == DecodeInit => DecodeInv
  <1> SUFFICES ASSUME DecodeInit PROVE DecodeInv
    OBVIOUS
  <1>1. DecodeTypeOK
    BY Lz4Assumption DEF DecodeInit, DecodeTypeOK, Byte, Guard, Memory, Positions
  <1>2. ZeroDecoderAgrees
    BY DEF DecodeInit, ZeroDecoderAgrees
  <1>3. StaysInSlack
    BY <1>1, LimitBounds DEF DecodeInit, StaysInSlack, Memory
  <1> QED
    BY <1>1, <1>2, <1>3 DEF DecodeInv

\* Literals that are all zero are not written.
LEMMA ZeroLiterals ==
    ASSUME DecodeInv, NEW lits \in Literals, NEW stray \in Dirt, ReadLiterals(lits, stray),
           \A k \in 1 .. Len(lits) : lits[k] = 0
    PROVE  DecodeInv'
  <1> DEFINE lit == Len(lits)
  <1>1. lit \in Nat /\ lits \in [1 .. lit -> Byte]
    BY Lz4Assumption
  <1>2. op \in 0 .. Cap /\ op + lit <= Cap /\ op' = op + lit /\ left' = left - 1 - lit /\ left' \in Nat
    BY <1>1, LimitBounds DEF DecodeInv, DecodeTypeOK, ReadLiterals, LiteralsFit
  <1>3. UNCHANGED <<dst, written, zero_from, sse2, slack>>
    BY DEF ReadLiterals
  <1>4. plain' = [i \in Positions |-> IF i >= op /\ i < op + lit THEN lits[i - op + 1] ELSE plain[i]]
    BY DEF ReadLiterals, PlainLiterals
  <1>5. plain' \in [Positions -> Byte]
    BY <1>1, <1>2, <1>4, LimitBounds, SMTT(30) DEF DecodeInv, DecodeTypeOK, Positions
  <1>6. DecodeTypeOK'
    BY <1>1, <1>2, <1>3, <1>5, LimitBounds DEF DecodeInv, DecodeTypeOK, ReadLiterals
  <1>7. \A i \in 0 .. op - 1 : plain'[i] = plain[i]
    BY <1>1, <1>2, <1>4, LimitBounds DEF DecodeInv, Positions
  <1>8. \A i \in op .. op' - 1 : plain'[i] = 0
    BY <1>1, <1>2, <1>4, LimitBounds DEF DecodeInv, Positions
  <1>9. ZeroDecoderAgrees'
    BY <1>2, <1>3, <1>7, <1>8, SMTT(30) DEF DecodeInv, DecodeTypeOK, ZeroDecoderAgrees
  <1>10. StaysInSlack'
    BY <1>3 DEF DecodeInv, StaysInSlack, Limit
  <1> QED
    BY <1>6, <1>9, <1>10 DEF DecodeInv

\* After a write that reached op', memory is plain up to there and zero from the end of the data.
LEMMA Written ==
    ASSUME DecodeInv, NEW n \in Nat, op + n <= Cap, op' = op + n, written' = op + n,
           zero_from' = EndOfData(dst', op, op + n),
           \A i \in 0 .. op' - 1 : dst'[i] = plain'[i]
    PROVE  ZeroDecoderAgrees' /\ written' \in 0 .. op' /\ zero_from' \in 0 .. written'
  <1>1. op \in Nat
    BY LimitBounds DEF DecodeInv, DecodeTypeOK
  <1>2. zero_from' \in op .. op + n /\ IsEndOfData(dst', op, op + n, zero_from')
    BY <1>1, EndExists
  <1> QED
    BY <1>1, <1>2 DEF ZeroDecoderAgrees, IsEndOfData

\* A step that stores literals keeps DecodeInv.
LEMMA StoredLiterals ==
    ASSUME DecodeInv, NEW lits \in Literals, NEW stray \in Dirt, ReadLiterals(lits, stray),
           ~(\A k \in 1 .. Len(lits) : lits[k] = 0)
    PROVE  DecodeInv'
  <1> DEFINE lit == Len(lits)
             st  == LitStored(lit)
             filled == zero_fill(dst, written, op)
  <1>1. lit \in Nat /\ lits \in [1 .. lit -> Byte] /\ stray \in Byte
    BY Lz4Assumption
  <1>2. op \in 0 .. Cap /\ op + lit <= Cap /\ op' = op + lit /\ left' = left - 1 - lit /\ left' \in Nat
    BY <1>1, LimitBounds DEF DecodeInv, DecodeTypeOK, ReadLiterals, LiteralsFit
  <1>3. UNCHANGED <<sse2, slack>> /\ written' = op + lit /\ zero_from' = EndOfData(dst', op, op + lit)
    BY DEF ReadLiterals
  <1>4. plain' = [i \in Positions |-> IF i >= op /\ i < op + lit THEN lits[i - op + 1] ELSE plain[i]]
    BY DEF ReadLiterals, PlainLiterals
  <1>5. dst' = [i \in Memory |-> IF i >= op /\ i < op + lit THEN lits[i - op + 1]
                                ELSE IF i >= op /\ i < op + st THEN stray ELSE filled[i]]
    BY DEF ReadLiterals
  <1>6. /\ filled \in [Memory -> Byte \cup {Guard}]
        /\ \A i \in 0 .. op - 1 : filled[i] = plain[i]
        /\ \A i \in Memory : i >= Limit => filled[i] = Guard
    BY Filled DEF DecodeInv
  <1>7. st \in Nat /\ lit <= st /\ op + st <= Limit
    BY <1>1, LiteralStoreBounds DEF DecodeInv, ReadLiterals
  <1> HIDE DEF st, filled
  <1>8. plain' \in [Positions -> Byte]
    BY <1>1, <1>2, <1>4, LimitBounds, SMTT(30) DEF DecodeInv, DecodeTypeOK, Positions
  <1>9. dst' \in [Memory -> Byte \cup {Guard}]
    BY <1>1, <1>2, <1>5, <1>6, LimitBounds DEF DecodeInv, Memory
  <1>10. ASSUME NEW i \in 0 .. op' - 1 PROVE dst'[i] = plain'[i]
    <2>1. i \in Memory /\ i \in Positions
      BY <1>1, <1>2, LimitBounds DEF DecodeInv, Memory, Positions
    <2>2. CASE i < op
      BY <1>1, <1>2, <1>4, <1>5, <1>6, <2>1, <2>2
    <2>3. CASE i >= op
      BY <1>1, <1>2, <1>4, <1>5, <2>1, <2>3
    <2> QED
      BY <1>2, <2>2, <2>3
  <1>11. ZeroDecoderAgrees' /\ written' \in 0 .. op' /\ zero_from' \in 0 .. written'
    BY <1>1, <1>2, <1>3, <1>10, Written
  <1>12. DecodeTypeOK'
    BY <1>1, <1>2, <1>3, <1>8, <1>9, <1>11, LimitBounds DEF DecodeInv, DecodeTypeOK, ReadLiterals
  <1>13. \A i \in Memory : i >= Limit => dst'[i] = Guard
    BY <1>1, <1>2, <1>5, <1>6, <1>7, LimitBounds DEF DecodeInv, Memory
  <1>14. StaysInSlack'
    BY <1>3, <1>13 DEF StaysInSlack, Limit
  <1> QED
    BY <1>11, <1>12, <1>14 DEF DecodeInv

\* The plain copy of a match.
LEMMA PlainCopied ==
    ASSUME DecodeInv, NEW off \in Nat, NEW n \in Nat, MatchFits(off, n), plain' = PlainMatch(op - off, n)
    PROVE  /\ plain' \in [Positions -> Byte]
           /\ off \in 1 .. op /\ op \in 0 .. Cap /\ op + n <= Cap /\ left - 2 \in Nat
           /\ \A i \in 0 .. op - 1 : plain'[i] = plain[i]
           /\ \A i \in op .. op + n - 1 :
                 /\ (i - op) % off \in 0 .. off - 1
                 /\ plain'[i] = plain[op - off + ((i - op) % off)]
  <1>1. off \in 1 .. op /\ op \in 0 .. Cap /\ op + n <= Cap /\ left - 2 \in Nat
    BY LimitBounds, Lz4Assumption DEF DecodeInv, DecodeTypeOK, MatchFits
  <1>2. op - (op - off) = off
    BY <1>1, LimitBounds DEF DecodeInv
  <1>3. plain' = [i \in Positions |-> IF i >= op /\ i < op + n THEN plain[op - off + ((i - op) % off)] ELSE plain[i]]
    BY <1>2 DEF PlainMatch
  <1>4. plain \in [Positions -> Byte]
    BY DEF DecodeInv, DecodeTypeOK
  <1>5. ASSUME NEW i \in op .. op + n - 1 PROVE (i - op) % off \in 0 .. off - 1
    <2>1. i - op \in Nat /\ off \in Nat \ {0}
      BY <1>1, LimitBounds DEF DecodeInv
    <2> QED
      BY <2>1, Modulo
  <1>6. \A i \in op .. op + n - 1 : op - off + ((i - op) % off) \in Positions
    BY <1>1, <1>5, LimitBounds DEF DecodeInv, Positions
  <1>7. plain' \in [Positions -> Byte]
    <2>1. ASSUME NEW i \in Positions
          PROVE  (IF i >= op /\ i < op + n THEN plain[op - off + ((i - op) % off)] ELSE plain[i]) \in Byte
      <3>1. CASE i >= op /\ i < op + n
        <4>1. i \in op .. op + n - 1
          BY <1>1, <3>1, LimitBounds DEF DecodeInv, Positions
        <4> QED
          BY <1>4, <1>6, <3>1, <4>1
      <3>2. CASE ~(i >= op /\ i < op + n)
        BY <1>4, <3>2
      <3> QED
        BY <3>1, <3>2
    <2> QED
      BY <1>3, <2>1
  <1>8. \A i \in 0 .. op - 1 : plain'[i] = plain[i]
    BY <1>1, <1>3, LimitBounds DEF DecodeInv, Positions
  <1>9. \A i \in op .. op + n - 1 : plain'[i] = plain[op - off + ((i - op) % off)]
    BY <1>1, <1>3, LimitBounds, SMTT(30) DEF DecodeInv, Positions
  <1> QED
    BY <1>1, <1>5, <1>7, <1>8, <1>9

\* So does a match of zeros that is passed over.
LEMMA SkippedMatch ==
    ASSUME DecodeInv, NEW off \in Offsets, NEW n \in Lengths, SkipMatch(off, n)
    PROVE  DecodeInv'
  <1>1. off \in Nat /\ n \in Nat
    BY Lz4Assumption
  <1>2. /\ op' = op + n /\ left' = left - 2 /\ pc' = "literals" /\ UNCHANGED <<sse2, slack, dst, written, zero_from>>
        /\ MatchFits(off, n) /\ plain' = PlainMatch(op - off, n) /\ op - off >= zero_from
    BY DEF SkipMatch, ReadsZerosOnly
  <1>3. /\ plain' \in [Positions -> Byte]
        /\ off \in 1 .. op /\ op \in 0 .. Cap /\ op + n <= Cap /\ left - 2 \in Nat
        /\ \A i \in 0 .. op - 1 : plain'[i] = plain[i]
        /\ \A i \in op .. op + n - 1 :
              /\ (i - op) % off \in 0 .. off - 1
              /\ plain'[i] = plain[op - off + ((i - op) % off)]
    BY <1>1, <1>2, PlainCopied
  <1>4. written \in 0 .. op /\ zero_from \in 0 .. written
    BY DEF DecodeInv, DecodeTypeOK
  <1>5. \A i \in op .. op + n - 1 : plain'[i] = 0
    <2> SUFFICES ASSUME NEW i \in op .. op + n - 1 PROVE plain'[i] = 0
      OBVIOUS
    <2>1. op - off + ((i - op) % off) \in zero_from .. op - 1
      BY <1>1, <1>2, <1>3, <1>4
    <2> QED
      BY <1>3, <2>1 DEF DecodeInv, ZeroDecoderAgrees
  <1>6. ZeroDecoderAgrees'
    BY <1>1, <1>2, <1>3, <1>4, <1>5 DEF DecodeInv, ZeroDecoderAgrees
  <1>7. DecodeTypeOK'
    BY <1>1, <1>2, <1>3, <1>4, LimitBounds DEF DecodeInv, DecodeTypeOK
  <1>8. StaysInSlack'
    BY <1>2 DEF DecodeInv, StaysInSlack, Limit
  <1> QED
    BY <1>6, <1>7, <1>8 DEF DecodeInv

\* What either copy leaves in memory, d being memory before with the zeros filled in.
LEMMA Copied ==
    ASSUME DecodeInv, NEW off \in Nat, NEW n \in Nat, off \in 1 .. op, op + n <= Cap,
           NEW d \in [Memory -> Byte \cup {Guard}], \A i \in Memory : i >= Limit => d[i] = Guard,
           NEW e, e = IF off >= n THEN copy_chunks(d, op - off, n) ELSE copy_overlap(d, op - off, n)
    PROVE  /\ e \in [Memory -> Byte \cup {Guard}]
           /\ \A i \in Memory : i >= Limit => e[i] = Guard
           /\ \A i \in 0 .. op - 1 : e[i] = d[i]
           /\ \A i \in op .. op + n - 1 : e[i] = d[op - off + ((i - op) % off)]
  <1>1. op \in Nat /\ Limit \in Nat /\ Cap \in Nat /\ Cap <= Limit /\ Limit <= MemoryEnd /\ MemoryEnd \in Nat
    BY LimitBounds DEF DecodeInv, DecodeTypeOK
  <1>2. CASE off >= n
    <2> DEFINE c == CopyStored(n)
    <2>1. c \in Nat /\ n <= c /\ op + c <= Limit
      BY CopyStoreBounds DEF DecodeInv
    <2>2. e = [i \in Memory |-> IF i >= op /\ i < op + c THEN d[op - off + (i - op)] ELSE d[i]]
      BY <1>2 DEF copy_chunks
    <2> HIDE DEF c
    <2>3. \A i \in Memory : i >= op => op - off + (i - op) \in Memory
      BY <1>1 DEF Memory
    <2>4. e \in [Memory -> Byte \cup {Guard}]
      BY <1>1, <2>1, <2>2, <2>3
    <2>5. \A i \in Memory : i >= Limit => e[i] = Guard
      BY <1>1, <2>1, <2>2 DEF Memory
    <2>6. \A i \in 0 .. op - 1 : e[i] = d[i]
      BY <1>1, <2>1, <2>2 DEF Memory
    <2>7. ASSUME NEW i \in op .. op + n - 1 PROVE e[i] = d[op - off + ((i - op) % off)]
      <3>1. i - op \in Nat /\ off \in Nat \ {0} /\ i - op < off
        BY <1>1, <1>2
      <3>2. (i - op) % off = i - op
        BY <3>1, Modulo
      <3>3. e[i] = d[op - off + (i - op)]
        BY <1>1, <2>1, <2>2 DEF Memory
      <3> QED
        BY <3>2, <3>3
    <2> QED
      BY <2>4, <2>5, <2>6, <2>7
  <1>3. CASE ~(off >= n)
    <2>1. op - (op - off) = off
      BY <1>1
    <2>2. e = [i \in Memory |-> IF i >= op /\ i < op + n THEN d[op - off + ((i - op) % off)] ELSE d[i]]
      BY <1>3, <2>1 DEF copy_overlap
    <2>3. \A i \in op .. op + n - 1 : (i - op) % off \in 0 .. off - 1
      BY <1>1, Modulo
    <2>4. \A i \in op .. op + n - 1 : op - off + ((i - op) % off) \in Memory
      BY <1>1, <2>3 DEF Memory
    <2>5. e \in [Memory -> Byte \cup {Guard}]
      <3>1. ASSUME NEW i \in Memory
            PROVE (IF i >= op /\ i < op + n THEN d[op - off + ((i - op) % off)] ELSE d[i]) \in Byte \cup {Guard}
        <4>1. CASE i >= op /\ i < op + n
          <5>1. i \in op .. op + n - 1
            BY <1>1, <4>1 DEF Memory
          <5> QED
            BY <2>4, <4>1, <5>1
        <4>2. CASE ~(i >= op /\ i < op + n)
          BY <4>2
        <4> QED
          BY <4>1, <4>2
      <3> QED
        BY <2>2, <3>1
    <2>6. \A i \in Memory : i >= Limit => e[i] = Guard
      BY <1>1, <2>2 DEF Memory
    <2>7. \A i \in 0 .. op - 1 : e[i] = d[i]
      BY <1>1, <2>2 DEF Memory
    <2>8. \A i \in op .. op + n - 1 : e[i] = d[op - off + ((i - op) % off)]
      BY <1>1, <2>2 DEF Memory
    <2> QED
      BY <2>5, <2>6, <2>7, <2>8
  <1> QED
    BY <1>2, <1>3

\* So does a match that is copied.
LEMMA CopiedMatch ==
    ASSUME DecodeInv, NEW off \in Offsets, NEW n \in Lengths, CopyMatch(off, n)
    PROVE  DecodeInv'
  <1> DEFINE filled == zero_fill(dst, written, op)
  <1>1. off \in Nat /\ n \in Nat
    BY Lz4Assumption
  <1>2. /\ op' = op + n /\ left' = left - 2 /\ pc' = "literals" /\ UNCHANGED <<sse2, slack>>
        /\ MatchFits(off, n) /\ plain' = PlainMatch(op - off, n)
        /\ written' = op + n /\ zero_from' = EndOfData(dst', op, op + n)
        /\ dst' = IF off >= n THEN copy_chunks(filled, op - off, n) ELSE copy_overlap(filled, op - off, n)
    BY DEF CopyMatch
  <1>3. /\ plain' \in [Positions -> Byte]
        /\ off \in 1 .. op /\ op \in 0 .. Cap /\ op + n <= Cap /\ left - 2 \in Nat
        /\ \A i \in 0 .. op - 1 : plain'[i] = plain[i]
        /\ \A i \in op .. op + n - 1 :
              /\ (i - op) % off \in 0 .. off - 1
              /\ plain'[i] = plain[op - off + ((i - op) % off)]
    BY <1>1, <1>2, PlainCopied
  <1>4. /\ filled \in [Memory -> Byte \cup {Guard}]
        /\ \A i \in 0 .. op - 1 : filled[i] = plain[i]
        /\ \A i \in Memory : i >= Limit => filled[i] = Guard
    BY Filled DEF DecodeInv
  <1> HIDE DEF filled
  <1>5. /\ dst' \in [Memory -> Byte \cup {Guard}]
        /\ \A i \in Memory : i >= Limit => dst'[i] = Guard
        /\ \A i \in 0 .. op - 1 : dst'[i] = filled[i]
        /\ \A i \in op .. op + n - 1 : dst'[i] = filled[op - off + ((i - op) % off)]
    BY <1>1, <1>2, <1>3, <1>4, Copied
  <1>6. ASSUME NEW i \in 0 .. op' - 1 PROVE dst'[i] = plain'[i]
    <2>1. CASE i < op
      BY <1>1, <1>2, <1>3, <1>4, <1>5, <2>1
    <2>2. CASE i >= op
      <3>1. i \in op .. op + n - 1 /\ op - off + ((i - op) % off) \in 0 .. op - 1
        BY <1>1, <1>2, <1>3, <2>2
      <3> QED
        BY <1>3, <1>4, <1>5, <3>1
    <2> QED
      BY <1>2, <1>3, <2>1, <2>2
  <1>7. ZeroDecoderAgrees' /\ written' \in 0 .. op' /\ zero_from' \in 0 .. written'
    BY <1>1, <1>2, <1>3, <1>6, Written
  <1>8. DecodeTypeOK'
    BY <1>1, <1>2, <1>3, <1>5, <1>7, LimitBounds DEF DecodeInv, DecodeTypeOK
  <1>9. StaysInSlack'
    BY <1>2, <1>5 DEF StaysInSlack, Limit
  <1> QED
    BY <1>7, <1>8, <1>9 DEF DecodeInv

\* So does every step.
LEMMA DecodeStep == DecodeInv /\ [DecodeNext]_DecodeVars => DecodeInv'
  <1> SUFFICES ASSUME DecodeInv, [DecodeNext]_DecodeVars PROVE DecodeInv'
    OBVIOUS
  <1>1. ASSUME NEW lits \in Literals, NEW stray \in Dirt, ReadLiterals(lits, stray) PROVE DecodeInv'
    BY <1>1, ZeroLiterals, StoredLiterals
  <1>2. ASSUME NEW off \in Offsets, NEW n \in Lengths, SkipMatch(off, n) PROVE DecodeInv'
    BY <1>2, SkippedMatch
  <1>3. ASSUME NEW off \in Offsets, NEW n \in Lengths, CopyMatch(off, n) PROVE DecodeInv'
    BY <1>3, CopiedMatch
  <1>4. CASE Refuse
    BY <1>4 DEF Refuse, DecodeInv, DecodeTypeOK, ZeroDecoderAgrees, StaysInSlack, Limit
  <1>5. CASE UNCHANGED DecodeVars
    BY <1>5 DEF DecodeVars, DecodeInv, DecodeTypeOK, ZeroDecoderAgrees, StaysInSlack, Limit
  <1> QED
    BY <1>1, <1>2, <1>3, <1>4, <1>5 DEF DecodeNext

\* DecodeInv holds throughout.
LEMMA Invariant == DecodeSpec => []DecodeInv
  BY DecodeStarts, DecodeStep, PTL DEF DecodeSpec

-----------------------------------------------------------------------------
\* The decoder has the types of its state (lz4zero.h, bslz4_lz4_decode_zero).
THEOREM DecodeTypeCorrect == DecodeSpec => []DecodeTypeOK
  <1>1. DecodeInv => DecodeTypeOK
    BY DEF DecodeInv
  <1> QED
    BY <1>1, Invariant, PTL

\* Whatever literals and matches come, what has been decoded is what a decoder that writes every byte
\* has: memory up to written, zeros from there on.
THEOREM DecodesThePlainOutput == DecodeSpec => []ZeroDecoderAgrees
  <1>1. DecodeInv => ZeroDecoderAgrees
    BY DEF DecodeInv
  <1> QED
    BY <1>1, Invariant, PTL

\* No store of zeros, literals or a match goes past the slack after the block.
THEOREM NoStorePastTheSlack == DecodeSpec => []StaysInSlack
  <1>1. DecodeInv => StaysInSlack
    BY DEF DecodeInv
  <1> QED
    BY <1>1, Invariant, PTL
=============================================================================
