---------------------------- MODULE WrapperProofs ----------------------------
(***************************************************************************)
(* Theorems about the generated wrapper, for any number of threads, any    *)
(* calls and any buffers: each pin is released once, what a call points    *)
(* into stays where it is, the C function alone runs without the GIL, it   *)
(* shares nothing that it writes, and its arguments are flat memory.       *)
(***************************************************************************)
EXTENDS Wrapper, FiniteSetTheorems, TLAPS

-----------------------------------------------------------------------------
(* The inductive invariant *)

Places == {"out", "pin", "publish", "buffer", "overlap", "examine", "save", "C", "restore",
           "unpin", "back", "done"}

\* what runs is one of the cases
CaseInv == \E c \in Cases : build = c.build /\ plan = c.plan

TypeInv ==
    /\ CaseInv /\ TypeOK
    /\ th \in [Callers -> [pc : Places, i : Nat, save : BOOLEAN, err : BOOLEAN, ret : BOOLEAN]]
    /\ DOMAIN held = Callers /\ DOMAIN seen = Callers
    /\ \A t \in Callers : DOMAIN held[t] = Params(t) /\ DOMAIN seen[t] = Params(t)
    /\ exports \in [Objects -> Int] /\ refs \in [Objects -> Int] /\ gen \in [Objects -> Int]

\* A parameter is pinned, with the right to write if the C function writes through it, or it is not.
Made(t, p) == /\ held[t][p].kind \in {"PEP3118", "NDARRAY"} /\ held[t][p].obj = Arg(t, p).obj
              /\ p \in FnOf(t).writes => Arg(t, p).writable
Gone(t, p) == held[t][p].kind \in {"unset", "NONE"} /\ held[t][p].obj = NoObject

\* The pins that are made are those before the place of the call on its way in, and at most those up to
\* its place on its way out.
Place(t, pc, i) ==
    /\ pc \in {"out", "back", "done"} => \A p \in Params(t) : Gone(t, p)
    /\ pc = "out" => i = 1
    /\ pc \in {"pin", "buffer"} =>
          /\ i \in DOMAIN Order(t)
          /\ \A j \in DOMAIN Order(t) : IF j < i THEN Made(t, Order(t)[j]) ELSE Gone(t, Order(t)[j])
    /\ pc = "publish" =>
          /\ i \in DOMAIN Order(t)
          /\ \A j \in DOMAIN Order(t) : IF j <= i THEN Made(t, Order(t)[j]) ELSE Gone(t, Order(t)[j])
    /\ pc \in {"overlap", "examine", "save", "C", "restore"} => \A p \in Params(t) : Made(t, p)
    /\ pc = "overlap" => Order(t) # <<>>
    /\ pc = "restore" => i = Len(Order(t))
    /\ pc = "unpin" =>
          /\ i \in DOMAIN Order(t)
          /\ \A j \in DOMAIN Order(t) : Gone(t, Order(t)[j]) \/ (j <= i /\ Made(t, Order(t)[j]))
PlaceInv(t) == Place(t, th[t].pc, th[t].i)

\* The pins of one kind on one object, and what is counted for them.
PinsOn(kind, x) == {q \in Pins(kind) : q[3] = x}
CountInv == \A x \in Objects :
    /\ IsFiniteSet(PinsOn("PEP3118", x)) /\ exports[x] = Cardinality(PinsOn("PEP3118", x))
    /\ IsFiniteSet(PinsOn("NDARRAY", x)) /\ refs[x] = Cardinality(PinsOn("NDARRAY", x))

\* where a pin points is where its object is
StaysInv(t) == \A p \in Params(t) : held[t][p].obj # NoObject => seen[t][p] = gen[held[t][p].obj]

\* The GIL is given up by those that saved it, between the save and the restore.
GilInv(t) == build.gil /\ InCall(t) /\ (th[t].pc \in {"C", "restore"} => ~th[t].save) => holder = t

\* From the first check on, what the C function writes is its own; from the second, it has the sizes it takes.
CallInv(t) ==
    /\ th[t].pc \in {"examine", "save", "C", "restore"} =>
          Order(t) = <<>> \/ NoOverlap(CallOf(t).a, FnOf(t).restrict)
    /\ th[t].pc \in {"save", "C"} => Accepted(CallOf(t).fn, CallOf(t).a, CallOf(t).v)

Each(t) == PlaceInv(t) /\ StaysInv(t) /\ GilInv(t) /\ CallInv(t)
IInv == TypeInv /\ CountInv /\ LayoutIsWhole /\ \A t \in Callers : Each(t)
-----------------------------------------------------------------------------
(* Products and sums *)

\* Induction on numbers, for sets of them.
LEMMA NumbersAreCounted ==
  \A S : 0 \in S /\ (\A k \in Nat : k \in S => k + 1 \in S) => Nat \subseteq S
<1>. SUFFICES ASSUME NEW S, 0 \in S, \A k \in Nat : k \in S => k + 1 \in S, Nat \ S # {} PROVE FALSE
  OBVIOUS
<1>1. PICK x \in Nat \ S : \A y \in Nat \ S : ~ (<<y, x>> \in OpToRel(<, Nat))
  BY NatLessThanWellFounded, WFMin, Zenon
<1>2. x # 0 /\ x - 1 \in Nat /\ (x - 1) + 1 = x
  OBVIOUS
<1>3. x - 1 \in S
  <2>1. <<x - 1, x>> \in OpToRel(<, Nat)
    BY <1>2 DEF OpToRel
  <2>. QED
    BY <1>1, <1>2, <2>1
<1>. QED
  BY <1>1, <1>2, <1>3

TimesStep(c, d, a, n) == a * n
\* a is the product of the first k of some numbers
TimesSoFar(c, d, numbers, a, k) ==
    /\ a \in Nat /\ (a = 0 <=> \E i \in 1 .. k : numbers[i] = 0)
    /\ \A i \in 1 .. k : a # 0 => numbers[i] <= a
Times == INSTANCE Folding WITH Op <- TimesStep, Inv <- TimesSoFar

PlusStep(c, d, a, n) == a + n
PlusSoFar(c, d, numbers, a, k) == a \in Int
Plus == INSTANCE Folding WITH Op <- PlusStep, Inv <- PlusSoFar

Numbers(s, n) == DOMAIN s = 1 .. n /\ \A k \in 1 .. n : s[k] \in Nat

\* Products and sums are folds.
LEMMA ProductFolds == ASSUME NEW s PROVE Product(s) = Times!Fold(0, 0, 1, s)
  BY DEF Product, Times!Fold, FoldLeft, MapThenFoldSet, Max, Times!Greatest, TimesStep

LEMMA OffsetFolds ==
  ASSUME NEW x, NEW i
  PROVE  Offset(x, i) = Plus!Fold(0, 0, 0, [d \in DOMAIN i |-> i[d] * x.strides[d]])
  BY DEF Offset, Plus!Fold, FoldLeft, MapThenFoldSet, Max, Plus!Greatest, PlusStep

\* A product of numbers is a number, is zero when one of them is, and is no less than them when none is.
LEMMA ProductIs ==
  ASSUME NEW n \in Nat, NEW s, Numbers(s, n)
  PROVE  TimesSoFar(0, 0, s, Product(s), n)
<1>1. TimesSoFar(0, 0, s, 1, 0)
  BY DEF TimesSoFar
<1>2. ASSUME NEW k \in 1 .. n, NEW a, TimesSoFar(0, 0, s, a, k - 1)
      PROVE  TimesSoFar(0, 0, s, TimesStep(0, 0, a, s[k]), k)
  <2>. DEFINE m == s[k]
  <2>1. a \in Nat /\ m \in Nat
    BY <1>2 DEF TimesSoFar, Numbers
  <2>2. a * m \in Nat /\ (a * m = 0 <=> a = 0 \/ m = 0)
    BY <2>1
  <2>3. a * m # 0 => a <= a * m /\ m <= a * m
    <3>. SUFFICES ASSUME a # 0, m # 0 PROVE a <= a * m /\ m <= a * m
      BY <2>2
    <3>. HIDE DEF m
    <3>1. \A p, q \in Nat : q >= 1 => p <= p * q
      OBVIOUS
    <3>2. a * m = m * a
      BY <2>1
    <3>. QED
      BY <2>1, <3>1, <3>2
  <2>4. \A i \in 1 .. k : i = k \/ i \in 1 .. k - 1
    OBVIOUS
  <2>5. a * m = 0 <=> \E i \in 1 .. k : s[i] = 0
    BY <1>2, <2>2, <2>4 DEF TimesSoFar
  <2>6. ASSUME NEW i \in 1 .. k, a * m # 0 PROVE s[i] <= a * m
    <3>1. CASE i = k
      BY <2>3, <2>6, <3>1
    <3>2. CASE i \in 1 .. k - 1
      <4>1. s[i] <= a /\ a <= a * m
        BY <1>2, <2>2, <2>3, <2>6, <3>2 DEF TimesSoFar
      <4>2. s[i] \in Nat
        BY DEF Numbers
      <4>. DEFINE am == a * m
      <4>3. am \in Nat
        BY <2>2
      <4>. HIDE DEF am
      <4>4. s[i] <= am
        BY <2>1, <4>1, <4>2, <4>3 DEF am
      <4>. QED
        BY <4>4 DEF am
    <3>. QED
      BY <2>4, <3>1, <3>2
  <2>. HIDE DEF m
  <2>. QED
    BY <2>2, <2>5, <2>6 DEF TimesSoFar, TimesStep, m
<1>3. Times!Counted
  BY NumbersAreCounted, Zenon DEF Times!Counted
<1>4. TimesSoFar(0, 0, s, Times!Fold(0, 0, 1, s), n)
  BY <1>1, <1>2, <1>3, Times!FoldKeeps DEF Numbers
<1>. QED
  BY <1>4, ProductFolds

LEMMA ProductNone == ASSUME NEW s, DOMAIN s = 1 .. 0 PROVE Product(s) = 1
<1>1. Times!Counted
  BY NumbersAreCounted, Zenon DEF Times!Counted
<1>. QED
  BY <1>1, ProductFolds, Times!FoldNone

\* The last factor.
LEMMA ProductLast ==
  ASSUME NEW n \in Nat, NEW s, DOMAIN s = 1 .. n + 1, NEW t, DOMAIN t = 1 .. n, \A k \in 1 .. n : t[k] = s[k]
  PROVE  Product(s) = Product(t) * s[n + 1]
<1>1. Times!Counted
  BY NumbersAreCounted, Zenon DEF Times!Counted
<1>2. Times!Fold(0, 0, 1, s) = TimesStep(0, 0, Times!Fold(0, 0, 1, t), s[n + 1])
  BY <1>1, Times!FoldLast
<1>. QED
  BY <1>2, ProductFolds DEF TimesStep

\* The first one.
LEMMA ProductFirst ==
  ASSUME NEW n \in Nat, NEW s, Numbers(s, n + 1), NEW t, Numbers(t, n), \A k \in 1 .. n : t[k] = s[k + 1]
  PROVE  Product(s) = s[1] * Product(t)
<1>. DEFINE T == {m \in Nat : \A f, g : Numbers(f, m + 1) /\ Numbers(g, m) /\ (\A k \in 1 .. m : g[k] = f[k + 1])
                                        => Product(f) = f[1] * Product(g)}
<1>1. 0 \in T
  <2>. SUFFICES ASSUME NEW f, NEW g, Numbers(f, 0 + 1), Numbers(g, 0) PROVE Product(f) = f[1] * Product(g)
    OBVIOUS
  <2>1. DOMAIN f = 1 .. 0 + 1 /\ DOMAIN g = 1 .. 0 /\ f[1] \in Nat
    BY DEF Numbers
  <2>2. Product(g) = 1
    BY <2>1, ProductNone
  <2>3. Product(f) = Product(g) * f[0 + 1]
    <3>1. 0 \in Nat /\ \A k \in 1 .. 0 : g[k] = f[k]
      OBVIOUS
    <3>. QED
      BY <2>1, <3>1, ProductLast
  <2>. DEFINE m == f[1]
  <2>4. m \in Nat
    BY <2>1
  <2>. HIDE DEF m
  <2>5. 1 * m = m * 1 /\ 0 + 1 = 1
    BY <2>4
  <2>. QED
    BY <2>2, <2>3, <2>5 DEF m
<1>2. ASSUME NEW m \in Nat, m \in T PROVE m + 1 \in T
  <2>. SUFFICES ASSUME NEW f, NEW g, Numbers(f, (m + 1) + 1), Numbers(g, m + 1),
                       \A k \in 1 .. m + 1 : g[k] = f[k + 1]
                PROVE  Product(f) = f[1] * Product(g)
    OBVIOUS
  <2>. DEFINE f1 == [k \in 1 .. m + 1 |-> f[k]]
              g1 == [k \in 1 .. m |-> g[k]]
  <2>1. /\ DOMAIN f = 1 .. (m + 1) + 1 /\ \A k \in 1 .. (m + 1) + 1 : f[k] \in Nat
        /\ DOMAIN g = 1 .. m + 1 /\ \A k \in 1 .. m + 1 : g[k] \in Nat
    BY DEF Numbers
  <2>2. Numbers(f1, m + 1) /\ Numbers(g1, m) /\ \A k \in 1 .. m : g1[k] = f1[k + 1]
    BY <2>1 DEF Numbers
  <2>3. Product(f1) = f1[1] * Product(g1)
    BY <1>2, <2>2
  <2>4. m + 1 \in Nat /\ m + 1 \in 1 .. m + 1 /\ 1 \in 1 .. m + 1
    OBVIOUS
  <2>5. Product(f) = Product(f1) * f[(m + 1) + 1]
    BY <2>1, <2>2, <2>4, ProductLast DEF Numbers
  <2>6. Product(g) = Product(g1) * g[m + 1]
    BY <2>1, <2>2, ProductLast DEF Numbers
  <2>7. f1[1] = f[1] /\ f[1] \in Nat /\ g[m + 1] \in Nat /\ g[m + 1] = f[(m + 1) + 1]
    BY <2>1, <2>4
  <2>8. Product(g1) \in Nat
    BY <2>2, ProductIs DEF TimesSoFar
  <2>. DEFINE p == Product(g1)  a == f[1]  b == g[m + 1]
  <2>9. a \in Nat /\ b \in Nat /\ p \in Nat /\ Product(f) = (a * p) * b /\ Product(g) = p * b
    BY <2>3, <2>5, <2>6, <2>7, <2>8
  <2>. HIDE DEF p, a, b
  <2>10. (a * p) * b = a * (p * b)
    BY <2>9
  <2>. QED
    BY <2>9, <2>10 DEF a
<1>3. n \in T
  <2>. HIDE DEF T
  <2>. QED
    BY <1>1, <1>2, NumbersAreCounted
<1>. QED
  BY <1>3

\* The product of the first axes, and of the last, goes from an axis to the next.
LEMMA Fronts ==
  ASSUME NEW s, s \in Seq(Nat)
  PROVE  /\ Product(SubSeq(s, 1, 0)) = 1 /\ Product(SubSeq(s, 1, Len(s))) = Product(s)
         /\ \A k \in 0 .. Len(s) : Product(SubSeq(s, 1, k)) \in Nat
         /\ \A k \in 0 .. Len(s) - 1 : Product(SubSeq(s, 1, k + 1)) = Product(SubSeq(s, 1, k)) * s[k + 1]
<1>. DEFINE n == Len(s)
<1>1. n \in Nat /\ DOMAIN s = 1 .. n /\ \A i \in 1 .. n : s[i] \in Nat
  OBVIOUS
<1>2. ASSUME NEW k \in 0 .. n
      PROVE  DOMAIN SubSeq(s, 1, k) = 1 .. k /\ \A i \in 1 .. k : SubSeq(s, 1, k)[i] = s[i]
  OBVIOUS
<1>3. Product(SubSeq(s, 1, 0)) = 1
  <2>1. 0 \in 0 .. n
    BY <1>1
  <2>2. DOMAIN SubSeq(s, 1, 0) = 1 .. 0
    BY <1>2, <2>1
  <2>. QED
    BY <2>2, ProductNone
<1>4. SubSeq(s, 1, n) = s
  BY <1>1
<1>5. ASSUME NEW k \in 0 .. n PROVE Product(SubSeq(s, 1, k)) \in Nat
  <2>1. k \in Nat /\ Numbers(SubSeq(s, 1, k), k)
    BY <1>1, <1>2 DEF Numbers
  <2>. QED
    BY <2>1, ProductIs DEF TimesSoFar
<1>6. ASSUME NEW k \in 0 .. n - 1 PROVE Product(SubSeq(s, 1, k + 1)) = Product(SubSeq(s, 1, k)) * s[k + 1]
  <2>. DEFINE f == SubSeq(s, 1, k + 1)  g == SubSeq(s, 1, k)
  <2>1. k \in Nat /\ k + 1 \in 0 .. n /\ k \in 0 .. n
    BY <1>1
  <2>2. DOMAIN f = 1 .. k + 1 /\ \A i \in 1 .. k + 1 : f[i] = s[i]
    BY <1>2, <2>1
  <2>3. DOMAIN g = 1 .. k /\ \A i \in 1 .. k : g[i] = s[i]
    BY <1>2, <2>1
  <2>. HIDE DEF f, g
  <2>4. \A i \in 1 .. k : i \in 1 .. k + 1 /\ k + 1 \in 1 .. k + 1
    BY <2>1
  <2>5. Product(f) = Product(g) * f[k + 1]
    BY <2>1, <2>2, <2>3, <2>4, ProductLast
  <2>6. f[k + 1] = s[k + 1]
    BY <2>1, <2>2
  <2>. QED
    BY <2>5, <2>6 DEF f, g
<1>. QED
  BY <1>3, <1>4, <1>5, <1>6

LEMMA Backs ==
  ASSUME NEW s, s \in Seq(Nat)
  PROVE  /\ Product(SubSeq(s, Len(s) + 1, Len(s))) = 1 /\ Product(SubSeq(s, 1, Len(s))) = Product(s)
         /\ \A k \in 0 .. Len(s) : Product(SubSeq(s, k + 1, Len(s))) \in Nat
         /\ \A k \in 0 .. Len(s) - 1 :
               Product(SubSeq(s, k + 1, Len(s))) = s[k + 1] * Product(SubSeq(s, (k + 1) + 1, Len(s)))
<1>. DEFINE n == Len(s)
            b(k) == SubSeq(s, k + 1, n)
<1>1. n \in Nat /\ DOMAIN s = 1 .. n /\ \A i \in 1 .. n : s[i] \in Nat
  OBVIOUS
<1>2. ASSUME NEW k \in 0 .. n
      PROVE  DOMAIN b(k) = 1 .. n - k /\ \A i \in 1 .. n - k : b(k)[i] = s[k + i] /\ k + i \in 1 .. n
  OBVIOUS
<1>. HIDE DEF n, b
<1>3. Product(b(n)) = 1
  <2>1. n \in 0 .. n /\ n - n = 0
    BY <1>1
  <2>2. DOMAIN b(n) = 1 .. 0
    BY <1>2, <2>1
  <2>. QED
    BY <2>2, ProductNone
<1>4. SubSeq(s, 1, n) = s
  BY <1>1 DEF n
<1>5. ASSUME NEW k \in 0 .. n PROVE n - k \in Nat /\ Numbers(b(k), n - k)
  <2>1. ASSUME NEW i \in 1 .. n - k PROVE b(k)[i] \in Nat
    <3>1. b(k)[i] = s[k + i] /\ k + i \in 1 .. n
      BY <1>2
    <3>. QED
      BY <1>1, <3>1
  <2>2. n - k \in Nat /\ DOMAIN b(k) = 1 .. n - k
    BY <1>1, <1>2
  <2>. QED
    BY <2>1, <2>2 DEF Numbers
<1>6. ASSUME NEW k \in 0 .. n PROVE Product(b(k)) \in Nat
  BY <1>5, ProductIs DEF TimesSoFar
<1>7. ASSUME NEW k \in 0 .. n - 1 PROVE Product(b(k)) = s[k + 1] * Product(b(k + 1))
  <2>. DEFINE f == b(k)  g == b(k + 1)  m == n - (k + 1)
  <2>1. k \in 0 .. n /\ k + 1 \in 0 .. n /\ m \in Nat /\ n - k = m + 1
    BY <1>1
  <2>2. Numbers(f, m + 1)
    BY <1>5, <2>1
  <2>3. Numbers(g, m)
    BY <1>5, <2>1
  <2>4. ASSUME NEW i \in 1 .. m PROVE g[i] = f[i + 1]
    <3>1. i + 1 \in 1 .. n - k /\ i \in 1 .. n - (k + 1) /\ k + (i + 1) = (k + 1) + i
      BY <1>1, <2>1
    <3>2. g[i] = s[(k + 1) + i]
      BY <1>2, <2>1, <3>1
    <3>3. f[i + 1] = s[k + (i + 1)]
      BY <1>2, <2>1, <3>1
    <3>. QED
      BY <3>1, <3>2, <3>3
  <2>5. f[1] = s[k + 1]
    <3>1. 1 \in 1 .. n - k
      BY <2>1
    <3>. QED
      BY <1>2, <2>1, <3>1
  <2>. HIDE DEF f, g, m
  <2>6. Product(f) = f[1] * Product(g)
    BY <2>1, <2>2, <2>3, <2>4, ProductFirst
  <2>. QED
    BY <2>5, <2>6 DEF f, g
<1>. QED
  BY <1>3, <1>4, <1>6, <1>7 DEF b, n

-----------------------------------------------------------------------------
(* Offsets *)

\* The offset along the first k axes.
Upto(x, i, k) == FoldLeft(+, 0, [d \in 1 .. k |-> i[d] * x.strides[d]])

LEMMA UptoFolds ==
  ASSUME NEW x, NEW i, NEW k
  PROVE  Upto(x, i, k) = Plus!Fold(0, 0, 0, [d \in 1 .. k |-> i[d] * x.strides[d]])
  BY DEF Upto, Plus!Fold, FoldLeft, MapThenFoldSet, Max, Plus!Greatest, PlusStep

LEMMA UptoNone == ASSUME NEW x, NEW i PROVE Upto(x, i, 0) = 0
<1>1. Plus!Counted
  BY NumbersAreCounted, Zenon DEF Plus!Counted
<1>. DEFINE s == [d \in 1 .. 0 |-> i[d] * x.strides[d]]
<1>2. DOMAIN s = 1 .. 0
  OBVIOUS
<1>3. Upto(x, i, 0) = Plus!Fold(0, 0, 0, s)
  BY UptoFolds
<1>. HIDE DEF s
<1>4. Plus!Fold(0, 0, 0, s) = 0
  BY <1>1, <1>2, Plus!FoldNone
<1>. QED
  BY <1>3, <1>4

LEMMA UptoNext ==
  ASSUME NEW x, NEW i, NEW k \in Nat
  PROVE  Upto(x, i, k + 1) = Upto(x, i, k) + i[k + 1] * x.strides[k + 1]
<1>. DEFINE s == [d \in 1 .. k + 1 |-> i[d] * x.strides[d]]
            t == [d \in 1 .. k |-> i[d] * x.strides[d]]
<1>1. Plus!Counted
  BY NumbersAreCounted, Zenon DEF Plus!Counted
<1>2. DOMAIN s = 1 .. k + 1 /\ DOMAIN t = 1 .. k /\ \A d \in 1 .. k : t[d] = s[d]
  OBVIOUS
<1>3. s[k + 1] = i[k + 1] * x.strides[k + 1]
  OBVIOUS
<1>4. Upto(x, i, k + 1) = Plus!Fold(0, 0, 0, s) /\ Upto(x, i, k) = Plus!Fold(0, 0, 0, t)
  BY UptoFolds
<1>. HIDE DEF s, t
<1>5. Plus!Fold(0, 0, 0, s) = PlusStep(0, 0, Plus!Fold(0, 0, 0, t), s[k + 1])
  BY <1>1, <1>2, Plus!FoldLast
<1>. QED
  BY <1>3, <1>4, <1>5 DEF PlusStep

\* It depends on the first k places of the index.
LEMMA UptoSame ==
  ASSUME NEW x, NEW i, NEW j, NEW k \in Nat, \A d \in 1 .. k : i[d] = j[d]
  PROVE  Upto(x, i, k) = Upto(x, j, k)
<1>1. [d \in 1 .. k |-> i[d] * x.strides[d]] = [d \in 1 .. k |-> j[d] * x.strides[d]]
  OBVIOUS
<1>. QED
  BY <1>1 DEF Upto

-----------------------------------------------------------------------------
(* Digits *)

\* A number below p * m is a digit below m and a rest below p.
LEMMA DigitPut ==
  ASSUME NEW p \in Nat, NEW m \in Nat, NEW r \in 0 .. p - 1, NEW d \in 0 .. m - 1
  PROVE  r + d * p \in 0 .. p * m - 1
<1>1. d * p \in Nat /\ p * m \in Nat
  OBVIOUS
<1>2. (d + 1) * p = d * p + p /\ (d + 1) * p <= p * m
  <2>1. \A a, b, c \in Nat : a <= b => a * c <= b * c
    OBVIOUS
  <2>2. d + 1 \in Nat /\ d + 1 <= m
    OBVIOUS
  <2>3. (d + 1) * p <= m * p
    BY <2>1, <2>2
  <2>. QED
    BY <2>3
<1>. DEFINE dp == d * p  pm == p * m
<1>3. dp \in Nat /\ pm \in Nat /\ dp + p <= pm
  BY <1>1, <1>2
<1>. HIDE DEF dp, pm
<1>4. r + dp \in 0 .. pm - 1
  BY <1>3
<1>. QED
  BY <1>4 DEF dp, pm

LEMMA DigitTaken ==
  ASSUME NEW p \in Nat, p # 0, NEW m \in Nat, NEW r \in 0 .. p * m - 1
  PROVE  \E d \in 0 .. m - 1 : \E q \in 0 .. p - 1 : r = q + d * p
<1>. DEFINE T == {a \in Nat : \E d \in Nat : \E q \in 0 .. p - 1 : a = q + d * p}
<1>1. 0 \in T
  <2>1. 0 \in 0 .. p - 1 /\ 0 = 0 + 0 * p /\ 0 \in Nat
    OBVIOUS
  <2>. QED
    BY <2>1
<1>2. ASSUME NEW a \in Nat, a \in T PROVE a + 1 \in T
  <2>1. PICK d \in Nat : \E q \in 0 .. p - 1 : a = q + d * p
    BY <1>2
  <2>2. PICK q \in 0 .. p - 1 : a = q + d * p
    BY <2>1
  <2>3. d * p \in Nat /\ (d + 1) * p = d * p + p
    OBVIOUS
  <2>4. CASE q + 1 = p
    <3>1. a + 1 = 0 + (d + 1) * p
      BY <2>2, <2>3, <2>4
    <3>2. d + 1 \in Nat /\ 0 \in 0 .. p - 1 /\ a + 1 \in Nat
      OBVIOUS
    <3>. QED
      BY <3>1, <3>2
  <2>5. CASE q + 1 # p
    <3>1. a + 1 = (q + 1) + d * p
      BY <2>2, <2>3
    <3>2. q + 1 \in 0 .. p - 1 /\ a + 1 \in Nat
      BY <2>5
    <3>. QED
      BY <3>1, <3>2
  <2>. QED
    BY <2>4, <2>5
<1>3. p * m \in Nat /\ r \in Nat
  OBVIOUS
<1>4. r \in T
  <2>. HIDE DEF T
  <2>. QED
    BY <1>1, <1>2, <1>3, NumbersAreCounted
<1>5. PICK d \in Nat : \E q \in 0 .. p - 1 : r = q + d * p
  BY <1>4
<1>6. PICK q \in 0 .. p - 1 : r = q + d * p
  BY <1>5
<1>7. d < m
  <2>. SUFFICES ASSUME d >= m PROVE FALSE
    OBVIOUS
  <2>1. \A a, b, c \in Nat : a <= b => a * c <= b * c
    OBVIOUS
  <2>2. m * p <= d * p /\ m * p = p * m
    BY <2>1
  <2>. DEFINE dp == d * p  pm == p * m
  <2>3. dp \in Nat /\ pm \in Nat /\ pm <= dp /\ r = q + dp /\ r <= pm - 1
    BY <1>3, <1>6, <2>2
  <2>. HIDE DEF dp, pm
  <2>. QED
    BY <2>3
<1>. QED
  BY <1>6, <1>7

-----------------------------------------------------------------------------
(* Flat memory *)

Axes(x) == Len(x.shape)
IsIndex(x, i) == i \in [1 .. Axes(x) -> Nat] /\ \A d \in 1 .. Axes(x) : i[d] < x.shape[d]

\* An array that has elements.
Filled(x) ==
    /\ x.shape \in Seq(Nat) /\ x.strides \in [1 .. Axes(x) -> Int] /\ x.size \in Nat
    /\ \A d \in 1 .. Axes(x) : x.shape[d] \in Nat \ {0}

\* The offsets along the first k axes are the multiples of w below p of them.
Covers(x, k, p, w) ==
    /\ \A i : IsIndex(x, i) => \E r \in 0 .. p - 1 : Upto(x, i, k) = r * w
    /\ \A r \in 0 .. p - 1 : \E i : IsIndex(x, i) /\ Upto(x, i, k) = r * w

\* Along none there is one offset.
LEMMA NoAxis ==
  ASSUME NEW x, Filled(x), NEW w \in Int
  PROVE  Covers(x, 0, 1, w)
<1>1. 0 * w = 0 /\ 0 \in 0 .. 1 - 1 /\ \A r \in 0 .. 1 - 1 : r = 0
  OBVIOUS
<1>2. IsIndex(x, [d \in 1 .. Axes(x) |-> 0])
  BY DEF Filled, IsIndex
<1>. QED
  BY <1>1, <1>2, UptoNone DEF Covers

\* The axis after k of them.
LEMMA NextAxis ==
  ASSUME NEW x, Filled(x), NEW k \in 0 .. Axes(x) - 1
  PROVE  /\ k \in Nat /\ k + 1 \in 1 .. Axes(x) /\ Axes(x) \in Nat
         /\ x.shape[k + 1] \in Nat /\ x.shape[k + 1] # 0 /\ x.strides[k + 1] \in Int
<1>1. Axes(x) \in Nat
  BY DEF Filled, Axes
<1>2. k \in Nat /\ k + 1 \in 1 .. Axes(x)
  BY <1>1
<1>. QED
  BY <1>1, <1>2 DEF Filled

\* Another place along it.
LEMMA OtherPlace ==
  ASSUME NEW x, Filled(x), NEW k \in 0 .. Axes(x) - 1, NEW i, IsIndex(x, i), NEW d \in 0 .. x.shape[k + 1] - 1
  PROVE  \E j : IsIndex(x, j) /\ j[k + 1] = d /\ Upto(x, j, k) = Upto(x, i, k)
<1>. DEFINE j == [i EXCEPT ![k + 1] = d]
            n == Axes(x)
<1>1. k \in Nat /\ k + 1 \in 1 .. n /\ n \in Nat /\ x.shape[k + 1] \in Nat
  BY NextAxis
<1>2. i \in [1 .. n -> Nat] /\ \A e \in 1 .. n : i[e] < x.shape[e]
  BY DEF IsIndex
<1>3. d \in Nat /\ d < x.shape[k + 1]
  BY <1>1
<1>4. j \in [1 .. n -> Nat] /\ j[k + 1] = d /\ \A e \in 1 .. n : e # k + 1 => j[e] = i[e]
  BY <1>1, <1>2, <1>3
<1>. HIDE DEF j, n
<1>5. \A e \in 1 .. k : j[e] = i[e]
  <2>1. \A e \in 1 .. k : e \in 1 .. n /\ e # k + 1
    BY <1>1
  <2>. QED
    BY <1>4, <2>1
<1>6. \A e \in 1 .. n : j[e] < x.shape[e]
  BY <1>2, <1>3, <1>4
<1>7. IsIndex(x, j)
  BY <1>4, <1>6 DEF IsIndex, n
<1>8. Upto(x, j, k) = Upto(x, i, k)
  BY <1>1, <1>5, UptoSame
<1>. QED
  BY <1>4, <1>7, <1>8

\* Another axis whose steps go past all that is before it.
LEMMA AxisOutside ==
  ASSUME NEW x, Filled(x), NEW k \in 0 .. Axes(x) - 1, NEW p \in Nat, NEW w \in Int, p # 0, Covers(x, k, p, w),
         x.shape[k + 1] = 1 \/ x.strides[k + 1] = p * w
  PROVE  Covers(x, k + 1, p * x.shape[k + 1], w)
<1>. DEFINE m == x.shape[k + 1]  st == x.strides[k + 1]
<1>1. k \in Nat /\ k + 1 \in 1 .. Axes(x) /\ m \in Nat /\ m # 0 /\ st \in Int /\ Axes(x) \in Nat
  BY NextAxis
<1>2. ASSUME NEW d \in 0 .. m - 1, NEW r \in Nat PROVE r * w + d * st = (r + d * p) * w
  <2>1. CASE m = 1
    <3>1. d = 0
      BY <2>1
    <3>2. r * w \in Int /\ 0 * st = 0 /\ 0 * p = 0
      BY <1>1
    <3>. QED
      BY <3>1, <3>2
  <2>2. CASE st = p * w
    <3>1. \A a, b, c \in Nat, e \in Int : a * e + b * (c * e) = (a + b * c) * e
      OBVIOUS
    <3>2. d \in Nat
      BY <1>1
    <3>. QED
      BY <2>2, <3>1, <3>2
  <2>. QED
    BY <2>1, <2>2
<1>3. ASSUME NEW i, IsIndex(x, i) PROVE \E r \in 0 .. p * m - 1 : Upto(x, i, k + 1) = r * w
  <2>1. PICK r \in 0 .. p - 1 : Upto(x, i, k) = r * w
    BY <1>3 DEF Covers
  <2>2. i[k + 1] \in 0 .. m - 1
    BY <1>1, <1>3 DEF IsIndex
  <2>3. Upto(x, i, k + 1) = r * w + i[k + 1] * st
    BY <1>1, <2>1, UptoNext
  <2>4. r + i[k + 1] * p \in 0 .. p * m - 1
    BY <1>1, <2>2, DigitPut
  <2>5. r \in Nat
    OBVIOUS
  <2>6. Upto(x, i, k + 1) = (r + i[k + 1] * p) * w
    BY <1>2, <2>2, <2>3, <2>5
  <2>. HIDE DEF m
  <2>. QED
    BY <2>4, <2>6
<1>4. ASSUME NEW r \in 0 .. p * m - 1 PROVE \E i : IsIndex(x, i) /\ Upto(x, i, k + 1) = r * w
  <2>1. PICK d \in 0 .. m - 1 : \E q \in 0 .. p - 1 : r = q + d * p
    BY <1>1, DigitTaken
  <2>2. PICK q \in 0 .. p - 1 : r = q + d * p
    BY <2>1
  <2>3. PICK i : IsIndex(x, i) /\ Upto(x, i, k) = q * w
    BY DEF Covers
  <2>4. PICK j : IsIndex(x, j) /\ j[k + 1] = d /\ Upto(x, j, k) = Upto(x, i, k)
    BY <2>3, OtherPlace
  <2>5. Upto(x, j, k + 1) = Upto(x, j, k) + j[k + 1] * st
    BY <1>1, UptoNext
  <2>7. Upto(x, j, k + 1) = q * w + d * st
    BY <2>3, <2>4, <2>5
  <2>8. q \in Nat
    OBVIOUS
  <2>9. Upto(x, j, k + 1) = r * w
    BY <1>2, <2>2, <2>7, <2>8
  <2>. QED
    BY <2>4, <2>9
<1>. HIDE DEF m
<1>5. Covers(x, k + 1, p * m, w)
  BY <1>3, <1>4 DEF Covers
<1>. QED
  BY <1>5 DEF m

\* Another axis whose steps divide those before it.
LEMMA AxisInside ==
  ASSUME NEW x, Filled(x), NEW k \in 0 .. Axes(x) - 1, NEW p \in Nat, NEW w \in Int, p # 0,
         Covers(x, k, p, x.shape[k + 1] * w), x.shape[k + 1] = 1 \/ x.strides[k + 1] = w
  PROVE  Covers(x, k + 1, p * x.shape[k + 1], w)
<1>. DEFINE m == x.shape[k + 1]  st == x.strides[k + 1]
<1>1. k \in Nat /\ k + 1 \in 1 .. Axes(x) /\ m \in Nat /\ m # 0 /\ st \in Int /\ Axes(x) \in Nat
  BY NextAxis
<1>2. ASSUME NEW d \in 0 .. m - 1, NEW r \in Nat PROVE r * (m * w) + d * st = (d + r * m) * w
  <2>1. CASE m = 1
    <3>1. d = 0
      BY <2>1
    <3>2. r * w \in Int /\ 0 * st = 0 /\ 1 * w = w /\ r * 1 = r
      BY <1>1
    <3>. QED
      BY <2>1, <3>1, <3>2
  <2>2. CASE st = w
    <3>1. \A a, b, c \in Nat, e \in Int : a * (c * e) + b * e = (b + a * c) * e
      OBVIOUS
    <3>2. d \in Nat
      BY <1>1
    <3>. QED
      BY <1>1, <2>2, <3>1, <3>2
  <2>. QED
    BY <2>1, <2>2
<1>3. ASSUME NEW i, IsIndex(x, i) PROVE \E r \in 0 .. p * m - 1 : Upto(x, i, k + 1) = r * w
  <2>1. PICK r \in 0 .. p - 1 : Upto(x, i, k) = r * (m * w)
    BY <1>3 DEF Covers
  <2>2. i[k + 1] \in 0 .. m - 1
    BY <1>1, <1>3 DEF IsIndex
  <2>3. Upto(x, i, k + 1) = r * (m * w) + i[k + 1] * st
    BY <1>1, <2>1, UptoNext
  <2>4. i[k + 1] + r * m \in 0 .. m * p - 1
    BY <1>1, <2>2, DigitPut
  <2>5. r \in Nat /\ m * p = p * m
    BY <1>1
  <2>6. Upto(x, i, k + 1) = (i[k + 1] + r * m) * w
    BY <1>2, <2>2, <2>3, <2>5
  <2>. HIDE DEF m
  <2>. QED
    BY <2>4, <2>5, <2>6
<1>4. ASSUME NEW r \in 0 .. p * m - 1 PROVE \E i : IsIndex(x, i) /\ Upto(x, i, k + 1) = r * w
  <2>0. p * m = m * p /\ r \in 0 .. m * p - 1
    BY <1>1
  <2>1. PICK q \in 0 .. p - 1 : \E d \in 0 .. m - 1 : r = d + q * m
    BY <1>1, <2>0, DigitTaken
  <2>2. PICK d \in 0 .. m - 1 : r = d + q * m
    BY <2>1
  <2>3. PICK i : IsIndex(x, i) /\ Upto(x, i, k) = q * (m * w)
    BY DEF Covers
  <2>4. PICK j : IsIndex(x, j) /\ j[k + 1] = d /\ Upto(x, j, k) = Upto(x, i, k)
    BY <2>3, OtherPlace
  <2>5. Upto(x, j, k + 1) = Upto(x, j, k) + j[k + 1] * st
    BY <1>1, UptoNext
  <2>7. Upto(x, j, k + 1) = q * (m * w) + d * st
    BY <2>3, <2>4, <2>5
  <2>8. q \in Nat
    OBVIOUS
  <2>9. Upto(x, j, k + 1) = r * w
    BY <1>2, <2>2, <2>7, <2>8
  <2>. QED
    BY <2>4, <2>9
<1>. HIDE DEF m
<1>5. Covers(x, k + 1, p * m, w)
  BY <1>3, <1>4 DEF Covers
<1>. QED
  BY <1>5 DEF m

\* All axes, the last of them the fastest.
LEMMA RowsCover ==
  ASSUME NEW x, Filled(x), COrder(x)
  PROVE  Covers(x, Axes(x), Count(x), x.size)
<1>. DEFINE s == x.shape
            n == Len(s)
            P(k) == Product(SubSeq(s, 1, k))
            Q(k) == Product(SubSeq(s, k + 1, n))
            T == {k \in Nat : k <= n => P(k) # 0 /\ Covers(x, k, P(k), x.size * Q(k))}
<1>1. n \in Nat /\ x.size \in Nat /\ s \in Seq(Nat) /\ DOMAIN s = 1 .. n /\ n = Axes(x)
      /\ \A d \in 1 .. n : s[d] \in Nat \ {0}
  BY DEF Filled, Axes
<1>2. /\ P(0) = 1 /\ P(n) = Product(s)
      /\ \A k \in 0 .. n : P(k) \in Nat
      /\ \A k \in 0 .. n - 1 : P(k + 1) = P(k) * s[k + 1]
  BY <1>1, Fronts
<1>3. /\ Q(n) = 1 /\ \A k \in 0 .. n : Q(k) \in Nat
      /\ \A k \in 0 .. n - 1 : Q(k) = s[k + 1] * Q(k + 1)
  BY <1>1, Backs
<1>4. \A d \in 1 .. n : s[d] = 1 \/ x.strides[d] = x.size * Q(d)
  BY <1>1 DEF COrder
<1>. HIDE DEF P, Q, n
<1>5. 0 \in T
  <2>1. 0 \in 0 .. n
    BY <1>1
  <2>2. x.size * Q(0) \in Int
    BY <1>1, <1>3, <2>1
  <2>3. Covers(x, 0, 1, x.size * Q(0))
    BY <2>2, NoAxis
  <2>. QED
    BY <1>2, <2>3
<1>6. ASSUME NEW k \in Nat, k \in T PROVE k + 1 \in T
  <2>. SUFFICES ASSUME k + 1 <= n PROVE P(k + 1) # 0 /\ Covers(x, k + 1, P(k + 1), x.size * Q(k + 1))
    OBVIOUS
  <2>1. k \in 0 .. n - 1 /\ k \in 0 .. n /\ k + 1 \in 0 .. n /\ k + 1 \in 1 .. n
    BY <1>1
  <2>2. P(k) # 0 /\ Covers(x, k, P(k), x.size * Q(k))
    BY <1>1, <1>6, <2>1
  <2>. DEFINE m == s[k + 1]  w == x.size * Q(k + 1)
  <2>3. m \in Nat /\ m # 0 /\ Q(k + 1) \in Nat /\ P(k) \in Nat /\ x.size \in Nat
    BY <1>1, <1>2, <1>3, <2>1
  <2>4. w \in Int /\ x.size * (m * Q(k + 1)) = m * w
    <3>1. \A a, b, c \in Nat : a * c \in Int /\ a * (b * c) = b * (a * c)
      OBVIOUS
    <3>. HIDE DEF m
    <3>. QED
      BY <2>3, <3>1
  <2>5. Covers(x, k, P(k), m * w)
    BY <1>3, <2>1, <2>2, <2>4
  <2>6. m = 1 \/ x.strides[k + 1] = w
    BY <1>4, <2>1
  <2>7. k \in 0 .. Axes(x) - 1
    BY <1>1, <2>1
  <2>. HIDE DEF w
  <2>8. Covers(x, k + 1, P(k) * m, w)
    BY <2>2, <2>3, <2>4, <2>5, <2>6, <2>7, AxisInside
  <2>9. P(k) * m # 0
    BY <2>2, <2>3
  <2>10. P(k + 1) = P(k) * m
    BY <1>2, <2>1
  <2>. HIDE DEF m
  <2>. QED
    BY <2>8, <2>9, <2>10 DEF w
<1>7. n \in T
  <2>. HIDE DEF T
  <2>. QED
    BY <1>1, <1>5, <1>6, NumbersAreCounted
<1>8. x.size * 1 = x.size /\ n <= n
  BY <1>1
<1>9. Covers(x, n, P(n), x.size)
  BY <1>3, <1>7, <1>8
<1>. QED
  BY <1>1, <1>2, <1>9 DEF Count

\* All axes, the first of them the fastest.
LEMMA ColumnsCover ==
  ASSUME NEW x, Filled(x), FOrder(x)
  PROVE  Covers(x, Axes(x), Count(x), x.size)
<1>. DEFINE s == x.shape
            n == Len(s)
            P(k) == Product(SubSeq(s, 1, k))
            T == {k \in Nat : k <= n => P(k) # 0 /\ Covers(x, k, P(k), x.size)}
<1>1. n \in Nat /\ x.size \in Nat /\ s \in Seq(Nat) /\ DOMAIN s = 1 .. n /\ n = Axes(x)
      /\ \A d \in 1 .. n : s[d] \in Nat \ {0}
  BY DEF Filled, Axes
<1>2. /\ P(0) = 1 /\ P(n) = Product(s)
      /\ \A k \in 0 .. n : P(k) \in Nat
      /\ \A k \in 0 .. n - 1 : P(k + 1) = P(k) * s[k + 1]
  BY <1>1, Fronts
<1>4. \A d \in 1 .. n : s[d] = 1 \/ x.strides[d] = x.size * P(d - 1)
  BY <1>1 DEF FOrder
<1>. HIDE DEF P, n
<1>5. 0 \in T
  <2>1. Covers(x, 0, 1, x.size)
    BY <1>1, NoAxis
  <2>. QED
    BY <1>2, <2>1
<1>6. ASSUME NEW k \in Nat, k \in T PROVE k + 1 \in T
  <2>. SUFFICES ASSUME k + 1 <= n PROVE P(k + 1) # 0 /\ Covers(x, k + 1, P(k + 1), x.size)
    OBVIOUS
  <2>1. k \in 0 .. n - 1 /\ k \in 0 .. n /\ k + 1 \in 1 .. n /\ (k + 1) - 1 = k
    BY <1>1
  <2>2. P(k) # 0 /\ Covers(x, k, P(k), x.size)
    BY <1>1, <1>6, <2>1
  <2>. DEFINE m == s[k + 1]
  <2>3. m \in Nat /\ m # 0 /\ P(k) \in Nat /\ x.size \in Int
    <3>1. P(k) \in Nat
      BY <1>2, <2>1
    <3>2. m \in Nat /\ m # 0
      BY <1>1, <2>1
    <3>. QED
      BY <1>1, <3>1, <3>2
  <2>4. m = 1 \/ x.strides[k + 1] = P(k) * x.size
    <3>1. m = 1 \/ x.strides[k + 1] = x.size * P(k)
      BY <1>4, <2>1
    <3>2. x.size * P(k) = P(k) * x.size
      BY <2>3
    <3>. QED
      BY <3>1, <3>2
  <2>5. k \in 0 .. Axes(x) - 1
    BY <1>1, <2>1
  <2>6. Covers(x, k + 1, P(k) * m, x.size)
    BY <2>2, <2>3, <2>4, <2>5, AxisOutside
  <2>7. P(k) * m # 0
    BY <2>2, <2>3
  <2>8. P(k + 1) = P(k) * m
    BY <1>2, <2>1
  <2>. HIDE DEF m
  <2>. QED
    BY <2>6, <2>7, <2>8
<1>7. n \in T
  <2>. HIDE DEF T
  <2>. QED
    BY <1>1, <1>5, <1>6, NumbersAreCounted
<1>8. n <= n
  BY <1>1
<1>9. Covers(x, n, P(n), x.size)
  BY <1>7, <1>8
<1>. QED
  BY <1>1, <1>2, <1>9 DEF Count

\* An array has a number of elements, which none of its axes exceeds if there are any.
LEMMA CountFacts ==
  ASSUME NEW x, WellFormedArray(x)
  PROVE  /\ Count(x) \in Nat /\ DOMAIN x.shape = 1 .. Axes(x)
         /\ Count(x) = 0 <=> \E d \in 1 .. Axes(x) : x.shape[d] = 0
         /\ \A d \in 1 .. Axes(x) : x.shape[d] \in Nat /\ (Count(x) # 0 => x.shape[d] <= Count(x))
<1>1. Axes(x) \in Nat /\ Numbers(x.shape, Axes(x)) /\ DOMAIN x.shape = 1 .. Axes(x)
  BY DEF WellFormedArray, Numbers, Axes
<1>2. TimesSoFar(0, 0, x.shape, Product(x.shape), Axes(x))
  BY <1>1, ProductIs
<1>. QED
  BY <1>1, <1>2 DEF TimesSoFar, Count, Numbers

\* A contiguous array is flat.
LEMMA ContiguousIsFlat ==
  ASSUME NEW x, WellFormedArray(x), Contiguous(x)
  PROVE  Flat(x)
<1>. SUFFICES ASSUME x.size # 0
              PROVE  {Offset(x, i) : i \in Indexes(x)} = {k * x.size : k \in 0 .. Count(x) - 1}
  BY DEF Flat
<1>. DEFINE n == Axes(x)
<1>1. /\ Count(x) \in Nat /\ DOMAIN x.shape = 1 .. n /\ x.size \in Nat
      /\ \A d \in 1 .. n : x.shape[d] \in Nat /\ (Count(x) # 0 => x.shape[d] <= Count(x))
  BY CountFacts DEF WellFormedArray
<1>2. CASE Count(x) = 0
  <2>1. PICK d \in 1 .. n : x.shape[d] = 0
    BY <1>2, CountFacts
  <2>2. ASSUME NEW i \in Indexes(x) PROVE FALSE
    <3>1. i[d] \in 0 .. Count(x) /\ i[d] < x.shape[d]
      BY <1>1 DEF Indexes
    <3>. QED
      BY <1>2, <2>1, <3>1
  <2>3. 0 .. Count(x) - 1 = {}
    BY <1>2
  <2>. QED
    BY <2>2, <2>3
<1>3. CASE Count(x) # 0
  <2>1. \A d \in 1 .. n : x.shape[d] # 0
    BY <1>3, CountFacts
  <2>2. Filled(x)
    BY <1>1, <2>1 DEF Filled, WellFormedArray
  <2>3. Bytes(x) # 0
    BY <1>1, <1>3 DEF Bytes
  <2>4. Covers(x, n, Count(x), x.size)
    BY <2>2, <2>3, RowsCover, ColumnsCover DEF Contiguous
  <2>5. ASSUME NEW i PROVE i \in Indexes(x) <=> IsIndex(x, i)
    <3>1. ASSUME i \in Indexes(x) PROVE IsIndex(x, i)
      <4>1. i \in [1 .. n -> 0 .. Count(x)] /\ \A d \in DOMAIN i : i[d] < x.shape[d]
        BY <1>1, <3>1 DEF Indexes
      <4>. QED
        BY <4>1 DEF IsIndex
    <3>2. ASSUME IsIndex(x, i) PROVE i \in Indexes(x)
      <4>1. i \in [1 .. n -> Nat] /\ \A d \in 1 .. n : i[d] < x.shape[d]
        BY <3>2 DEF IsIndex
      <4>2. \A d \in 1 .. n : i[d] \in 0 .. Count(x)
        BY <1>1, <1>3, <4>1
      <4>. QED
        BY <1>1, <4>1, <4>2 DEF Indexes
    <3>. QED
      BY <3>1, <3>2
  <2>6. ASSUME NEW i, IsIndex(x, i) PROVE Offset(x, i) = Upto(x, i, n)
    <3>1. DOMAIN i = 1 .. n
      BY <2>6 DEF IsIndex
    <3>. QED
      BY <3>1 DEF Offset, Upto
  <2>7. ASSUME NEW i \in Indexes(x) PROVE Offset(x, i) \in {k * x.size : k \in 0 .. Count(x) - 1}
    <3>1. IsIndex(x, i)
      BY <2>5
    <3>2. \E r \in 0 .. Count(x) - 1 : Upto(x, i, n) = r * x.size
      BY <2>4, <3>1 DEF Covers
    <3>. QED
      BY <2>6, <3>1, <3>2
  <2>8. ASSUME NEW k \in 0 .. Count(x) - 1 PROVE \E i \in Indexes(x) : k * x.size = Offset(x, i)
    <3>1. PICK i : IsIndex(x, i) /\ Upto(x, i, n) = k * x.size
      BY <2>4 DEF Covers
    <3>. QED
      BY <2>5, <2>6, <3>1
  <2>. QED
    BY <2>7, <2>8
<1>. QED
  BY <1>2, <1>3

-----------------------------------------------------------------------------
(* The functions of the module and the calls *)

\* The parameters of a function are a list without repetitions (_..._fastcall takes each of them once).
LEMMA OrdersAreLists == \A fn \in DOMAIN Methods :
    /\ Len(Methods[fn].order) \in Nat /\ DOMAIN Methods[fn].order = 1 .. Len(Methods[fn].order)
    /\ Len(Methods[fn].order) = 0 <=> Methods[fn].order = <<>>
  BY SMTT(30) DEF Methods, Fn, sparsify, sparsify_and_dot, sparsify_and_dot_padded, sparsify_and_dot_bsbcsr, decompress,
         block_starts, offsets_to_pointers, note_chunk, step_available, reset_counters, set_counters,
         read_counters, build_info, FrameParams, CallParams

\* The functions by their names (_methods).
LEMMA MethodNames ==
    DOMAIN Methods = {"sparsify", "sparsify_and_dot", "sparsify_and_dot_padded", "sparsify_and_dot_bsbcsr",
                      "decompress", "block_starts", "offsets_to_pointers", "note_chunk", "step_available",
                      "reset_counters", "set_counters", "read_counters", "build_info"}
  BY DEF Methods

Distinct(f) == \A i, j \in DOMAIN f.order : f.order[i] = f.order[j] => i = j
Checked(f) == f.writes \subseteq {f.order[i] : i \in DOMAIN f.order} /\ f.writes \subseteq f.restrict

\* No parameter is taken twice (_..._fastcall).
LEMMA OrdersAreDistinct == \A fn \in DOMAIN Methods : Distinct(Methods[fn])
<1>1. Distinct(sparsify)
  BY DEF Distinct, sparsify, Fn, FrameParams, CallParams
<1>2. Distinct(sparsify_and_dot)
  BY DEF Distinct, sparsify_and_dot, Fn, FrameParams, CallParams
<1>3. Distinct(sparsify_and_dot_padded)
  BY DEF Distinct, sparsify_and_dot_padded, Fn, FrameParams, CallParams
<1>4. Distinct(sparsify_and_dot_bsbcsr)
  BY DEF Distinct, sparsify_and_dot_bsbcsr, Fn, FrameParams, CallParams
<1>5. Distinct(decompress)
  BY DEF Distinct, decompress, Fn
<1>6. Distinct(block_starts)
  BY DEF Distinct, block_starts, Fn
<1>7. Distinct(offsets_to_pointers)
  BY DEF Distinct, offsets_to_pointers, Fn
<1>8. Distinct(note_chunk)
  BY DEF Distinct, note_chunk, Fn
<1>9. Distinct(step_available)
  BY DEF Distinct, step_available, Fn
<1>10. Distinct(reset_counters)
  BY DEF Distinct, reset_counters, Fn
<1>11. Distinct(set_counters)
  BY DEF Distinct, set_counters, Fn
<1>12. Distinct(read_counters)
  BY DEF Distinct, read_counters, Fn
<1>13. Distinct(build_info)
  BY DEF Distinct, build_info, Fn
<1>. QED
  BY <1>1, <1>2, <1>3, <1>4, <1>5, <1>6, <1>7, <1>8, <1>9, <1>10, <1>11, <1>12, <1>13, MethodNames DEF Methods

\* What a function writes is among its parameters and among those of its overlap check (_..._fastcall).
LEMMA WritesAreChecked == \A fn \in DOMAIN Methods : Checked(Methods[fn])
<1>1. Checked(sparsify)
  <2>1. sparsify.writes \subseteq sparsify.restrict
    BY DEF sparsify, Fn, FrameWrites
  <2>2. sparsify.writes \subseteq {sparsify.order[i] : i \in DOMAIN sparsify.order}
    BY SMTT(30) DEF sparsify, Fn, FrameWrites, FrameParams, CallParams
  <2>. QED
    BY <2>1, <2>2 DEF Checked
<1>2. Checked(sparsify_and_dot)
  <2>1. sparsify_and_dot.writes \subseteq sparsify_and_dot.restrict
    BY DEF sparsify_and_dot, Fn, FrameWrites
  <2>2. sparsify_and_dot.writes \subseteq {sparsify_and_dot.order[i] : i \in DOMAIN sparsify_and_dot.order}
    BY SMTT(30) DEF sparsify_and_dot, Fn, FrameWrites, FrameParams, CallParams
  <2>. QED
    BY <2>1, <2>2 DEF Checked
<1>3. Checked(sparsify_and_dot_padded)
  <2>1. sparsify_and_dot_padded.writes \subseteq sparsify_and_dot_padded.restrict
    BY DEF sparsify_and_dot_padded, Fn, FrameWrites
  <2>2. sparsify_and_dot_padded.writes
           \subseteq {sparsify_and_dot_padded.order[i] : i \in DOMAIN sparsify_and_dot_padded.order}
    BY SMTT(30) DEF sparsify_and_dot_padded, Fn, FrameWrites, FrameParams, CallParams
  <2>. QED
    BY <2>1, <2>2 DEF Checked
<1>4. Checked(sparsify_and_dot_bsbcsr)
  <2>1. sparsify_and_dot_bsbcsr.writes \subseteq sparsify_and_dot_bsbcsr.restrict
    BY DEF sparsify_and_dot_bsbcsr, Fn, FrameWrites
  <2>2. sparsify_and_dot_bsbcsr.writes
           \subseteq {sparsify_and_dot_bsbcsr.order[i] : i \in DOMAIN sparsify_and_dot_bsbcsr.order}
    BY SMTT(30) DEF sparsify_and_dot_bsbcsr, Fn, FrameWrites, FrameParams, CallParams
  <2>. QED
    BY <2>1, <2>2 DEF Checked
<1>5. Checked(decompress)
  BY DEF Checked, decompress, Fn
<1>6. Checked(block_starts)
  BY DEF Checked, block_starts, Fn
<1>7. Checked(offsets_to_pointers)
  BY DEF Checked, offsets_to_pointers, Fn
<1>8. Checked(note_chunk)
  BY DEF Checked, note_chunk, Fn
<1>9. Checked(step_available)
  BY DEF Checked, step_available, Fn
<1>10. Checked(reset_counters)
  BY DEF Checked, reset_counters, Fn
<1>11. Checked(set_counters)
  BY DEF Checked, set_counters, Fn
<1>12. Checked(read_counters)
  BY DEF Checked, read_counters, Fn
<1>13. Checked(build_info)
  BY DEF Checked, build_info, Fn
<1>. QED
  BY <1>1, <1>2, <1>3, <1>4, <1>5, <1>6, <1>7, <1>8, <1>9, <1>10, <1>11, <1>12, <1>13, MethodNames DEF Methods
\* A call of a case is of a function of the module, with its parameters (_..._fastcall).
LEMMA CallFacts ==
  ASSUME CaseInv, NEW t \in Callers
  PROVE  /\ t \in Threads /\ t # NoThread
         /\ CallOf(t).fn \in DOMAIN Methods /\ WellFormed(CallOf(t))
         /\ DOMAIN CallOf(t).a = Params(t)
         /\ \A p \in Params(t) : Arg(t, p).obj # NoObject /\ Arg(t, p).obj \in Objects
<1>1. PICK c \in Cases : build = c.build /\ plan = c.plan
  BY DEF CaseInv
<1>2. t \in DOMAIN c.plan /\ WellFormed(c.plan[t]) /\ t \in Threads
  BY <1>1, WrapperAssumption DEF Callers
<1>3. CallOf(t) = c.plan[t]
  BY <1>1 DEF CallOf
<1>4. Params(t) = {Methods[CallOf(t).fn].order[i] : i \in DOMAIN Methods[CallOf(t).fn].order}
  BY DEF Params, Order, FnOf
<1>5. WellFormed(CallOf(t)) /\ t \in Threads /\ t # NoThread
  BY <1>2, <1>3, WrapperAssumption
<1>6. CallOf(t).fn \in DOMAIN Methods /\ DOMAIN CallOf(t).a = Params(t)
  BY <1>4, <1>5 DEF WellFormed
<1>7. ASSUME NEW p \in Params(t) PROVE Arg(t, p).obj # NoObject /\ Arg(t, p).obj \in Objects
  <2>1. WellFormedArray(CallOf(t).a[p])
    BY <1>5, <1>6 DEF WellFormed
  <2>2. Arg(t, p).obj # NoObject
    BY <2>1 DEF WellFormedArray, Arg
  <2>3. Arg(t, p).obj \in Objects
    BY <1>2, <1>3, <1>1, <1>6 DEF Objects, Arg
  <2>. QED
    BY <2>2, <2>3
<1>. QED
  BY <1>5, <1>6, <1>7

\* Its arrays are somewhere and have a number of bytes.
LEMMA ArrayFacts ==
  ASSUME CaseInv, NEW t \in Callers, NEW p \in Params(t)
  PROVE  Arg(t, p).at \in Int /\ Bytes(Arg(t, p)) \in Nat
<1>1. WellFormedArray(Arg(t, p))
  BY CallFacts DEF WellFormed, Arg
<1>2. ASSUME NEW m \in Nat, NEW n \in Nat PROVE m * n \in Nat
  OBVIOUS
<1>3. Count(Arg(t, p)) \in Nat /\ Arg(t, p).size \in Nat /\ Arg(t, p).at \in Int
  BY <1>1, CountFacts DEF WellFormedArray
<1>. QED
  BY <1>2, <1>3 DEF Bytes

\* The places of its parameters.
LEMMA OrderFacts ==
  ASSUME CaseInv, NEW t \in Callers
  PROVE  /\ Len(Order(t)) \in Nat /\ DOMAIN Order(t) = 1 .. Len(Order(t))
         /\ Len(Order(t)) = 0 <=> Order(t) = <<>>
         /\ \A i, j \in DOMAIN Order(t) : Order(t)[i] = Order(t)[j] => i = j
         /\ \A i \in DOMAIN Order(t) : Order(t)[i] \in Params(t)
         /\ \A p \in Params(t) : \E i \in DOMAIN Order(t) : p = Order(t)[i]
         /\ FnOf(t).writes \subseteq Params(t) /\ FnOf(t).writes \subseteq FnOf(t).restrict
<1>1. CallOf(t).fn \in DOMAIN Methods
  BY CallFacts
<1>2. Distinct(FnOf(t)) /\ Checked(FnOf(t))
  BY <1>1, OrdersAreDistinct, WritesAreChecked DEF FnOf
<1>3. Order(t) = FnOf(t).order /\ Params(t) = {Order(t)[i] : i \in DOMAIN Order(t)}
  BY DEF Order, Params
<1>4. /\ Len(Order(t)) \in Nat /\ DOMAIN Order(t) = 1 .. Len(Order(t))
      /\ Len(Order(t)) = 0 <=> Order(t) = <<>>
  BY <1>1, OrdersAreLists DEF Order, FnOf
<1>. QED
  BY <1>2, <1>3, <1>4 DEF Distinct, Checked

\* A call is pinned or not in each of its parameters, wherever it is.
LEMMA MadeOrGone ==
  ASSUME CaseInv, NEW t \in Callers, th[t].pc \in Places, PlaceInv(t), NEW p \in Params(t)
  PROVE  Made(t, p) \/ Gone(t, p)
<1>1. PICK i \in DOMAIN Order(t) : p = Order(t)[i]
  BY OrderFacts
<1>2. i \in Nat /\ DOMAIN Order(t) \subseteq Nat
  BY OrderFacts
<1>3. CASE th[t].pc \in {"out", "back", "done", "overlap", "examine", "save", "C", "restore"}
  BY <1>3 DEF PlaceInv, Place
<1>4. CASE th[t].pc \in {"pin", "buffer"}
  BY <1>1, <1>2, <1>4 DEF PlaceInv, Place
<1>5. CASE th[t].pc = "publish"
  BY <1>1, <1>2, <1>5 DEF PlaceInv, Place
<1>6. CASE th[t].pc = "unpin"
  BY <1>1, <1>2, <1>6 DEF PlaceInv, Place
<1>. QED
  BY <1>3, <1>4, <1>5, <1>6 DEF Places

-----------------------------------------------------------------------------
(* The checks and the sizes *)

Sized(a) == \A q \in DOMAIN a : WellFormedArray(a[q])
Fits(a, v, p) == Bytes(a[p]) >= Needs(a, v, p)

\* A length in elements is one in bytes.
LEMMA Elements ==
  ASSUME NEW x, WellFormedArray(x), NEW n \in Int, Count(x) >= n
  PROVE  /\ Bytes(x) \in Int /\ Bytes(x) >= 0
         /\ x.size = 2 => Bytes(x) >= 2 * n
         /\ x.size = 4 => Bytes(x) >= 4 * n
         /\ x.size = 8 => Bytes(x) >= 8 * n
<1>1. Count(x) \in Nat /\ x.size \in Nat
  BY CountFacts DEF WellFormedArray
<1>2. ASSUME NEW c \in Nat, NEW s \in Nat PROVE c * s \in Int /\ c * s >= 0
  OBVIOUS
<1>3. Bytes(x) = Count(x) * x.size
  BY DEF Bytes
<1>. QED
  BY <1>1, <1>2, <1>3

\* The types of which there is one size.
LEMMA OneSize ==
  ASSUME NEW x, WellFormedArray(x)
  PROVE  /\ OfType(x, {"H"}) => x.size = 2
         /\ OfType(x, {"f"}) => x.size = 4
<1>1. OfType(x, {"H"}) => x.letter = "H"
  BY DEF OfType, FormatType
<1>2. OfType(x, {"f"}) => x.letter = "f"
  BY DEF OfType, FormatType
<1>3. FormatItemsize("H") = 2 /\ FormatItemsize("f") = 4
  BY DEF FormatItemsize
<1>4. FormatItemsize(x.letter) # 0 /\ x.letter \notin {"l", "L"} => x.size = FormatItemsize(x.letter)
  BY DEF WellFormedArray
<1>. QED
  BY <1>1, <1>2, <1>3, <1>4

\* the parameters that the four functions on frames have in common
FrameNames == {FrameParams[i] : i \in DOMAIN FrameParams} \union {CallParams[i] : i \in DOMAIN CallParams}

\* What the four functions on frames have in common (_sparsify_impl).
LEMMA FrameFits ==
  ASSUME NEW a, NEW v, Sized(a), FrameNames \subseteq DOMAIN a, FrameChecks(a), PipelineChecks(a),
         NEW p \in FrameNames
  PROVE  Fits(a, v, p)
<1>1. FrameNames = {"compressed_ptrs", "compressed_lengths", "mask", "outpx", "output_adr", "npx_out", "cut",
                    "workspace", "cursors", "top", "top_out", "pipeline"}
  BY DEF FrameNames, FrameParams, CallParams
<1>2. \A q \in FrameNames : WellFormedArray(a[q]) /\ Count(a[q]) \in Nat
  BY CountFacts DEF Sized
<1>3. Bytes(a[p]) >= 0
  BY <1>2, Elements
<1>4. CASE p \notin {"compressed_lengths", "top_out", "pipeline"}
  BY <1>1, <1>3, <1>4 DEF Fits, Needs
<1>5. CASE p = "compressed_lengths"
  <2>1. Bytes(a[p]) >= 4 * Count(a.compressed_ptrs)
    BY <1>1, <1>2, <1>5, Elements DEF FrameChecks
  <2>. QED
    BY <1>5, <2>1 DEF Fits, Needs
<1>6. CASE p = "top_out"
  <2>1. Count(a.top) # 0 => Bytes(a[p]) >= 4 * (2 * Count(a.compressed_ptrs))
    BY <1>1, <1>2, <1>6, Elements DEF FrameChecks
  <2>. QED
    BY <1>1, <1>2, <1>3, <1>6, <2>1 DEF Fits, Needs
<1>7. CASE p = "pipeline"
  <2>1. Bytes(a[p]) >= 2 * 6
    BY <1>1, <1>2, <1>7, Elements, OneSize DEF PipelineChecks
  <2>. QED
    BY <1>7, <2>1 DEF Fits, Needs
<1>. QED
  BY <1>4, <1>5, <1>6, <1>7


\* A call with one of the checks of _..._impl behind it.
Given(fn, a, v) == /\ Sized(a) /\ DOMAIN a = {fn.order[i] : i \in DOMAIN fn.order}
                   /\ DOMAIN v = fn.ints /\ \A i \in DOMAIN v : v[i] \in Int

\* The checks of each function say of each of its arrays what it needs (_sparsify_impl).
LEMMA SparsifyFits ==
  ASSUME NEW a, NEW v, Given(sparsify, a, v), sparsifyChecks(a, v), NEW p \in DOMAIN a
  PROVE  Fits(a, v, p)
<1>1. DOMAIN a = FrameNames
  BY DEF Given, sparsify, Fn, FrameNames, FrameParams, CallParams
<1>. QED
  BY <1>1, FrameFits DEF Given, sparsifyChecks

\* The same of the dot with a matrix of rows (_sparsify_and_dot_impl).
LEMMA DotFits ==
  ASSUME NEW a, NEW v, Given(sparsify_and_dot, a, v), sparsify_and_dotChecks(a, v), NEW p \in DOMAIN a
  PROVE  Fits(a, v, p)
<1>1. DOMAIN a = FrameNames \union {"powder", "data", "indices", "indptr"}
  BY DEF Given, sparsify_and_dot, Fn, FrameNames, FrameParams, CallParams
<1>2. \A q \in DOMAIN a : WellFormedArray(a[q]) /\ Count(a[q]) \in Nat
  BY CountFacts DEF Given, Sized
<1>3. Bytes(a[p]) >= 0
  BY <1>2, Elements
<1>4. CASE p \in FrameNames
  BY <1>1, <1>4, FrameFits DEF Given, sparsify_and_dotChecks
<1>5. CASE p \in {"powder", "data", "indices"}
  BY <1>3, <1>5 DEF Fits, Needs
<1>6. CASE p = "indptr"
  <2>1. Bytes(a[p]) >= 4 * (Count(a.mask) + 1)
    BY <1>1, <1>2, <1>6, Elements, "mask" \in FrameNames
       DEF sparsify_and_dotChecks, Of32, FrameNames, FrameParams
  <2>. QED
    BY <1>6, <2>1 DEF Fits, Needs
<1>. QED
  BY <1>1, <1>4, <1>5, <1>6

\* The rows of a padded layout are its weights by the width.
LEMMA Quotient ==
  ASSUME NEW b \in Nat, NEW w \in Nat, w >= 1
  PROVE  (b * w) \div w = b
  OBVIOUS

\* The same of the dot with padded rows (_sparsify_and_dot_padded_impl).
LEMMA PaddedFits ==
  ASSUME NEW a, NEW v, Given(sparsify_and_dot_padded, a, v), sparsify_and_dot_paddedChecks(a, v),
         NEW p \in DOMAIN a
  PROVE  Fits(a, v, p)
<1>1. DOMAIN a = FrameNames \union {"powder", "base", "weights", "pixels", "rowmap", "row_ptr"}
  BY DEF Given, sparsify_and_dot_padded, Fn, FrameNames, FrameParams, CallParams
<1>2. \A q \in DOMAIN a : WellFormedArray(a[q]) /\ Count(a[q]) \in Nat
  BY CountFacts DEF Given, Sized
<1>3. Bytes(a[p]) >= 0
  BY <1>2, Elements
<1>4. "width" \in DOMAIN v /\ v.width \in Int /\ v.width >= 1
  BY DEF Given, sparsify_and_dot_padded, Fn, sparsify_and_dot_paddedChecks
<1>5. /\ PaddedShapes(a, v) /\ OfType(a.weights, {"f"})
      /\ \A q \in {"base", "pixels", "rowmap", "row_ptr"} : a[q].size = 4
  BY DEF sparsify_and_dot_paddedChecks, Of32
<1>6. Count(a.weights) \div v.width = Count(a.base)
  BY <1>1, <1>2, <1>4, <1>5, Quotient DEF PaddedShapes
<1>7. CASE p \in FrameNames
  BY <1>1, <1>7, FrameFits DEF Given, sparsify_and_dot_paddedChecks
<1>8. CASE p \in {"powder", "row_ptr"}
  BY <1>3, <1>8 DEF Fits, Needs
<1>9. "mask" \in DOMAIN a /\ Count(a.mask) \in Nat /\ Count(a.base) \in Nat
  BY <1>1, <1>2 DEF FrameNames, FrameParams
<1>10. CASE p = "base"
  <2>1. Bytes(a[p]) >= 4 * Count(a.base)
    BY <1>1, <1>2, <1>5, <1>10, Elements
  <2>. QED
    BY <1>4, <1>5, <1>6, <1>9, <1>10, <2>1 DEF Fits, Needs, PaddedShapes
<1>11. CASE p = "weights"
  <2>1. Bytes(a[p]) >= 4 * Count(a.weights)
    BY <1>1, <1>2, <1>5, <1>11, Elements, OneSize
  <2>2. 4 * Count(a.weights) = 4 * v.width * Count(a.base)
    <3>1. ASSUME NEW b \in Int, NEW w \in Int
          PROVE  4 * (b * w) = 4 * w * b
      OBVIOUS
    <3>. QED
      BY <1>4, <1>5, <1>9, <3>1 DEF PaddedShapes
  <2>3. v.listed = 1 \/ Count(a.base) = Count(a.mask)
    BY <1>5 DEF PaddedShapes
  <2>. QED
    BY <1>6, <1>11, <2>1, <2>2, <2>3 DEF Fits, Needs
<1>12. CASE p = "pixels"
  <2>1. Bytes(a[p]) >= 4 * Count(a.pixels)
    BY <1>1, <1>2, <1>5, <1>12, Elements
  <2>. QED
    BY <1>3, <1>5, <1>6, <1>12, <2>1 DEF Fits, Needs, PaddedShapes
<1>13. CASE p = "rowmap"
  <2>1. Bytes(a[p]) >= 4 * Count(a.rowmap)
    BY <1>1, <1>2, <1>5, <1>13, Elements
  <2>. QED
    BY <1>3, <1>5, <1>13, <2>1 DEF Fits, Needs, PaddedShapes
<1>. QED
  BY <1>1, <1>7, <1>8, <1>10, <1>11, <1>12, <1>13

\* The same of the dot by blocks (_sparsify_and_dot_bsbcsr_impl).
LEMMA BsbcsrFits ==
  ASSUME NEW a, NEW v, Given(sparsify_and_dot_bsbcsr, a, v), sparsify_and_dot_bsbcsrChecks(a, v),
         NEW p \in DOMAIN a
  PROVE  Fits(a, v, p)
<1>1. DOMAIN a = FrameNames \union {"powder", "blk_ptr", "bins", "bin_ptr", "idx", "data",
                                    "csc_data", "csc_indices", "csc_indptr"}
  BY DEF Given, sparsify_and_dot_bsbcsr, Fn, FrameNames, FrameParams, CallParams
<1>2. \A q \in DOMAIN a : WellFormedArray(a[q]) /\ Count(a[q]) \in Nat
  BY CountFacts DEF Given, Sized
<1>3. Bytes(a[p]) >= 0
  BY <1>2, Elements
<1>4. BsbcsrShapes(a, v) /\ OfType(a.idx, {"H"})
      /\ \A q \in {"blk_ptr", "bins", "bin_ptr", "csc_indices", "csc_indptr"} : a[q].size = 4
  BY DEF sparsify_and_dot_bsbcsrChecks, Of32
<1>5. CASE p \in FrameNames
  BY <1>1, <1>5, FrameFits DEF Given, sparsify_and_dot_bsbcsrChecks
<1>6. CASE p \in {"powder", "blk_ptr", "bins", "data", "csc_data"}
  BY <1>3, <1>6 DEF Fits, Needs
<1>7. "mask" \in DOMAIN a /\ Count(a.mask) \in Nat
  BY <1>1, <1>2 DEF FrameNames, FrameParams
<1>8. CASE p = "bin_ptr"
  <2>1. Bytes(a[p]) >= 4 * (Count(a.bins) + 1)
    BY <1>1, <1>2, <1>4, <1>8, Elements DEF BsbcsrShapes
  <2>. QED
    BY <1>8, <2>1 DEF Fits, Needs
<1>9. CASE p = "idx"
  <2>1. Bytes(a[p]) >= 2 * Count(a.data)
    BY <1>1, <1>2, <1>4, <1>9, Elements, OneSize DEF BsbcsrShapes
  <2>. QED
    BY <1>9, <2>1 DEF Fits, Needs
<1>10. CASE p = "csc_indices"
  <2>1. Bytes(a[p]) >= 4 * Count(a.csc_data)
    BY <1>1, <1>2, <1>4, <1>10, Elements DEF BsbcsrShapes
  <2>. QED
    BY <1>10, <2>1 DEF Fits, Needs
<1>11. CASE p = "csc_indptr"
  <2>1. Bytes(a[p]) >= 4 * (Count(a.mask) + 1)
    BY <1>1, <1>2, <1>4, <1>7, <1>11, Elements DEF BsbcsrShapes
  <2>. QED
    BY <1>11, <2>1 DEF Fits, Needs
<1>. QED
  BY <1>1, <1>5, <1>6, <1>8, <1>9, <1>10, <1>11

\* The same of the other functions that take arrays (_decompress_impl to _build_info_impl).
LEMMA OthersFit ==
  ASSUME NEW a, NEW v, NEW p \in DOMAIN a,
         \/ Given(decompress, a, v) /\ decompressChecks(a, v)
         \/ Given(block_starts, a, v) /\ block_startsChecks(a, v)
         \/ Given(offsets_to_pointers, a, v) /\ offsets_to_pointersChecks(a, v)
         \/ Given(note_chunk, a, v)
         \/ Given(read_counters, a, v) \/ Given(build_info, a, v)
  PROVE  Fits(a, v, p)
<1>1. \A q \in DOMAIN a : WellFormedArray(a[q]) /\ Count(a[q]) \in Nat
  BY CountFacts DEF Given, Sized
<1>2. Bytes(a[p]) >= 0
  BY <1>1, Elements
<1>3. CASE Given(decompress, a, v) /\ decompressChecks(a, v)
  <2>1. DOMAIN a = {"compressed_ptrs", "compressed_lengths", "out", "workspace"}
    BY <1>3 DEF Given, decompress, Fn
  <2>2. CASE p = "compressed_lengths"
    <3>1. Bytes(a[p]) >= 4 * Count(a.compressed_ptrs)
      BY <1>1, <1>3, <2>1, <2>2, Elements DEF decompressChecks
    <3>. QED
      BY <2>2, <3>1 DEF Fits, Needs
  <2>. QED
    BY <1>2, <2>1, <2>2 DEF Fits, Needs
<1>4. CASE Given(block_starts, a, v) /\ block_startsChecks(a, v)
  <2>1. DOMAIN a = {"compressed_ptrs", "compressed_lengths", "starts", "status", "nblocks"}
    BY <1>4 DEF Given, block_starts, Fn
  <2>2. CASE p \in {"compressed_lengths", "status"}
    <3>1. Bytes(a[p]) >= 4 * Count(a.compressed_ptrs)
      BY <1>1, <1>4, <2>1, <2>2, Elements DEF block_startsChecks
    <3>. QED
      BY <2>2, <3>1 DEF Fits, Needs
  <2>3. CASE p = "nblocks"
    <3>1. Bytes(a[p]) >= 8 * 1
      BY <1>1, <1>4, <2>1, <2>3, Elements DEF block_startsChecks
    <3>. QED
      BY <2>3, <3>1 DEF Fits, Needs
  <2>. QED
    BY <1>2, <2>1, <2>2, <2>3 DEF Fits, Needs
<1>5. CASE Given(offsets_to_pointers, a, v) /\ offsets_to_pointersChecks(a, v)
  <2>1. DOMAIN a = {"base", "offsets", "lengths"} /\ "width" \notin DOMAIN v
    BY <1>5 DEF Given, offsets_to_pointers, Fn
  <2>2. CASE p = "lengths"
    <3>1. Bytes(a[p]) >= 4 * Count(a.offsets)
      BY <1>1, <1>5, <2>1, <2>2, Elements DEF offsets_to_pointersChecks
    <3>. QED
      BY <2>1, <2>2, <3>1 DEF Fits, Needs
  <2>. QED
    BY <1>2, <2>1, <2>2 DEF Fits, Needs
<1>6. CASE Given(note_chunk, a, v)
  <2>1. DOMAIN a = {"chunk", "pointers", "lengths"}
    BY <1>6 DEF Given, note_chunk, Fn
  <2>. QED
    BY <1>2, <2>1 DEF Fits, Needs
<1>7. CASE Given(read_counters, a, v) \/ Given(build_info, a, v)
  <2>1. p = "out"
    BY <1>7 DEF Given, read_counters, build_info, Fn
  <2>. QED
    BY <1>2, <2>1 DEF Fits, Needs
<1>. QED
  BY <1>3, <1>4, <1>5, <1>6, <1>7

\* Of what is accepted, every array has room, and the integers fit an int.
LEMMA AcceptedFits ==
  ASSUME NEW fn \in DOMAIN Methods, NEW a, NEW v, Given(Methods[fn], a, v), Accepted(fn, a, v)
  PROVE  /\ \A p \in DOMAIN a : Fits(a, v, p)
         /\ \A i \in DOMAIN v : IsInt(v[i]) \/ i = "block_elems"
         /\ "top" \in DOMAIN a => a.top.size = 8
<1>. USE DEF Accepted
<1>1. CASE fn = "sparsify"
  <2>1. Given(sparsify, a, v) /\ sparsifyChecks(a, v) /\ sparsifyRanges(a, v)
    BY <1>1 DEF Methods
  <2>2. DOMAIN v = sparsify.ints
    BY <2>1 DEF Given
  <2>3. \A i \in DOMAIN v : IsInt(v[i]) \/ i = "block_elems"
    BY <2>1, <2>2 DEF sparsify, Fn, sparsifyRanges, FrameRanges
  <2>4. a.top.size = 8
    BY <2>1 DEF sparsifyChecks, FrameChecks
  <2>. QED
    BY <2>1, <2>3, <2>4, SparsifyFits
<1>2. CASE fn = "sparsify_and_dot"
  <2>1. Given(sparsify_and_dot, a, v) /\ sparsify_and_dotChecks(a, v) /\ sparsify_and_dotRanges(a, v)
    BY <1>2 DEF Methods
  <2>2. DOMAIN v = sparsify_and_dot.ints
    BY <2>1 DEF Given
  <2>3. \A i \in DOMAIN v : IsInt(v[i]) \/ i = "block_elems"
    BY <2>1, <2>2 DEF sparsify_and_dot, Fn, sparsify_and_dotRanges, FrameRanges
  <2>4. a.top.size = 8
    BY <2>1 DEF sparsify_and_dotChecks, FrameChecks
  <2>. QED
    BY <2>1, <2>3, <2>4, DotFits
<1>3. CASE fn = "sparsify_and_dot_padded"
  <2>1. /\ Given(sparsify_and_dot_padded, a, v)
        /\ sparsify_and_dot_paddedChecks(a, v)
        /\ sparsify_and_dot_paddedRanges(a, v)
    BY <1>3 DEF Methods
  <2>2. DOMAIN v = sparsify_and_dot_padded.ints
    BY <2>1 DEF Given
  <2>3. \A i \in DOMAIN v : IsInt(v[i]) \/ i = "block_elems"
    BY <2>1, <2>2 DEF sparsify_and_dot_padded, Fn, sparsify_and_dot_paddedRanges, FrameRanges
  <2>4. a.top.size = 8
    BY <2>1 DEF sparsify_and_dot_paddedChecks, FrameChecks
  <2>. QED
    BY <2>1, <2>3, <2>4, PaddedFits
<1>4. CASE fn = "sparsify_and_dot_bsbcsr"
  <2>1. /\ Given(sparsify_and_dot_bsbcsr, a, v)
        /\ sparsify_and_dot_bsbcsrChecks(a, v)
        /\ sparsify_and_dot_bsbcsrRanges(a, v)
    BY <1>4 DEF Methods
  <2>2. DOMAIN v = sparsify_and_dot_bsbcsr.ints
    BY <2>1 DEF Given
  <2>3. \A i \in DOMAIN v : IsInt(v[i]) \/ i = "block_elems"
    BY <2>1, <2>2 DEF sparsify_and_dot_bsbcsr, Fn, sparsify_and_dot_bsbcsrRanges, FrameRanges
  <2>4. a.top.size = 8
    BY <2>1 DEF sparsify_and_dot_bsbcsrChecks, FrameChecks
  <2>. QED
    BY <2>1, <2>3, <2>4, BsbcsrFits
<1>5. CASE fn = "decompress"
  <2>1. Given(decompress, a, v) /\ decompressChecks(a, v) /\ decompressRanges(a, v)
    BY <1>5 DEF Methods
  <2>2. DOMAIN v = decompress.ints /\ DOMAIN a = {decompress.order[i] : i \in DOMAIN decompress.order}
    BY <2>1 DEF Given
  <2>3. (\A i \in DOMAIN v : IsInt(v[i])) /\ "top" \notin DOMAIN a
    BY <2>1, <2>2 DEF decompress, Fn, decompressRanges
  <2>. QED
    BY <2>1, <2>3, OthersFit
<1>6. CASE fn = "block_starts"
  <2>1. Given(block_starts, a, v) /\ block_startsChecks(a, v) /\ block_startsRanges(a, v)
    BY <1>6 DEF Methods
  <2>2. DOMAIN v = block_starts.ints /\ DOMAIN a = {block_starts.order[i] : i \in DOMAIN block_starts.order}
    BY <2>1 DEF Given
  <2>3. (\A i \in DOMAIN v : IsInt(v[i])) /\ "top" \notin DOMAIN a
    BY <2>1, <2>2 DEF block_starts, Fn, block_startsRanges
  <2>. QED
    BY <2>1, <2>3, OthersFit
<1>7. CASE fn = "offsets_to_pointers"
  <2>1. Given(offsets_to_pointers, a, v) /\ offsets_to_pointersChecks(a, v)
    BY <1>7 DEF Methods
  <2>2. /\ DOMAIN v = offsets_to_pointers.ints
        /\ DOMAIN a = {offsets_to_pointers.order[i] : i \in DOMAIN offsets_to_pointers.order}
    BY <2>1 DEF Given
  <2>3. (\A i \in DOMAIN v : IsInt(v[i])) /\ "top" \notin DOMAIN a
    BY <2>1, <2>2 DEF offsets_to_pointers, Fn
  <2>. QED
    BY <2>1, <2>3, OthersFit
<1>8. CASE fn = "note_chunk"
  <2>1. Given(note_chunk, a, v) /\ note_chunkRanges(a, v)
    BY <1>8 DEF Methods
  <2>2. DOMAIN v = note_chunk.ints /\ DOMAIN a = {note_chunk.order[i] : i \in DOMAIN note_chunk.order}
    BY <2>1 DEF Given
  <2>3. (\A i \in DOMAIN v : IsInt(v[i])) /\ "top" \notin DOMAIN a
    BY <2>1, <2>2 DEF note_chunk, Fn, note_chunkRanges
  <2>. QED
    BY <2>1, <2>3, OthersFit
<1>9. CASE fn = "read_counters"
  <2>1. Given(read_counters, a, v)
    BY <1>9 DEF Methods
  <2>2. DOMAIN v = read_counters.ints /\ DOMAIN a = {read_counters.order[i] : i \in DOMAIN read_counters.order}
    BY <2>1 DEF Given
  <2>3. (\A i \in DOMAIN v : IsInt(v[i])) /\ "top" \notin DOMAIN a
    BY <2>1, <2>2 DEF read_counters, Fn
  <2>. QED
    BY <2>1, <2>3, OthersFit
<1>10. CASE fn = "build_info"
  <2>1. Given(build_info, a, v)
    BY <1>10 DEF Methods
  <2>2. DOMAIN v = build_info.ints /\ DOMAIN a = {build_info.order[i] : i \in DOMAIN build_info.order}
    BY <2>1 DEF Given
  <2>3. (\A i \in DOMAIN v : IsInt(v[i])) /\ "top" \notin DOMAIN a
    BY <2>1, <2>2 DEF build_info, Fn
  <2>. QED
    BY <2>1, <2>3, OthersFit
<1>11. CASE fn = "step_available"
  <2>1. Given(step_available, a, v) /\ step_availableRanges(a, v)
    BY <1>11 DEF Methods
  <2>2. DOMAIN v = step_available.ints /\ DOMAIN a = {}
    BY <2>1 DEF Given, step_available, Fn
  <2>. QED
    BY <2>1, <2>2 DEF step_available, Fn, step_availableRanges
<1>12. CASE fn = "reset_counters"
  <2>1. Given(reset_counters, a, v)
    BY <1>12 DEF Methods
  <2>2. DOMAIN v = {}
    BY <2>1 DEF Given, reset_counters, Fn
  <2>3. DOMAIN a = {}
    <3>1. reset_counters.order = <<>>
      BY DEF reset_counters, Fn
    <3>2. DOMAIN reset_counters.order = {}
      BY <3>1
    <3>. QED
      BY <2>1, <3>2 DEF Given
  <2>. QED
    BY <2>2, <2>3
<1>13. CASE fn = "set_counters"
  <2>1. Given(set_counters, a, v) /\ set_countersRanges(a, v)
    BY <1>13 DEF Methods
  <2>2. DOMAIN v = set_counters.ints /\ DOMAIN a = {}
    BY <2>1 DEF Given, set_counters, Fn
  <2>. QED
    BY <2>1, <2>2 DEF set_counters, Fn, set_countersRanges
<1>. QED
  BY <1>1, <1>2, <1>3, <1>4, <1>5, <1>6, <1>7, <1>8, <1>9, <1>10, <1>11, <1>12, <1>13 DEF Methods

-----------------------------------------------------------------------------
(* What a step leaves alone *)

\* the programs stay, and but for thread t the threads stay where they are
Others(t) == /\ build' = build /\ plan' = plan
             /\ \A u \in Callers \ {t} : th'[u] = th[u] /\ held'[u] = held[u] /\ seen'[u] = seen[u]

\* The calls stay as they are.
LEMMA PlanKeeps ==
  ASSUME plan' = plan
  PROVE  /\ Callers' = Callers /\ Objects' = Objects
         /\ \A t : /\ CallOf(t)' = CallOf(t) /\ FnOf(t)' = FnOf(t)
                   /\ Order(t)' = Order(t) /\ Params(t)' = Params(t)
         /\ \A t, p : Arg(t, p)' = Arg(t, p)
  BY DEF Callers, Objects, Arg, Params, Order, FnOf, CallOf

\* A thread that does not run keeps its place and its pins (_..._fastcall).
LEMMA PlaceKeeps ==
  ASSUME plan' = plan, NEW u \in Callers, th'[u] = th[u], held'[u] = held[u], PlaceInv(u)
  PROVE  PlaceInv(u)'
<1>1. Order(u)' = Order(u) /\ Params(u)' = Params(u)
  BY DEF Params, Order, FnOf, CallOf
<1>2. ASSUME NEW p
      PROVE  (Made(u, p)' <=> Made(u, p)) /\ (Gone(u, p)' <=> Gone(u, p))
  BY DEF Made, Gone, Arg, FnOf, CallOf
<1>. QED
  BY <1>1, <1>2 DEF PlaceInv, Place

\* A thread that does not run keeps what it knows of its arguments (_..._impl).
LEMMA CallKeeps ==
  ASSUME plan' = plan, NEW u \in Callers, th'[u].pc = th[u].pc, CallInv(u)
  PROVE  CallInv(u)'
  BY DEF CallInv, Order, FnOf, CallOf

\* Pins that stay, on memory that stays, are where their objects are.
LEMMA StaysKeeps ==
  ASSUME plan' = plan, NEW u \in Callers, held'[u] = held[u], seen'[u] = seen[u], gen' = gen, StaysInv(u)
  PROVE  StaysInv(u)'
  BY DEF StaysInv, Params, Order, FnOf, CallOf

\* A pin of a kind on an object is one that some call holds.
LEMMA PinIs ==
  ASSUME NEW kind, NEW x, NEW q
  PROVE  q \in PinsOn(kind, x) <=>
            \E t \in Callers : \E p \in Params(t) :
                q = <<t, p, x>> /\ held[t][p].kind = kind /\ held[t][p].obj = x
<1>1. q \in PinsOn(kind, x) <=> q \in Pins(kind) /\ q[3] = x
  BY DEF PinsOn
<1>2. q \in Pins(kind) <=>
         \E t \in Callers : q \in {<<t, p, held[t][p].obj>> : p \in {r \in Params(t) : held[t][r].kind = kind}}
  BY Zenon DEF Pins
<1>3. \A t \in Callers :
         q \in {<<t, p, held[t][p].obj>> : p \in {r \in Params(t) : held[t][r].kind = kind}} <=>
            \E p \in Params(t) : q = <<t, p, held[t][p].obj>> /\ held[t][p].kind = kind
  OBVIOUS
<1>. QED
  BY <1>1, <1>2, <1>3

\* The same of the next state.
LEMMA PinIsNext ==
  ASSUME NEW kind, NEW x, NEW q
  PROVE  q \in PinsOn(kind, x)' <=>
            \E t \in Callers' : \E p \in Params(t)' :
                q = <<t, p, x>> /\ held'[t][p].kind = kind /\ held'[t][p].obj = x
<1>1. q \in PinsOn(kind, x)' <=> q \in Pins(kind)' /\ q[3] = x
  BY DEF PinsOn
<1>2. q \in Pins(kind)' <=>
         \E t \in Callers' :
            q \in {<<t, p, held'[t][p].obj>> : p \in {r \in Params(t)' : held'[t][r].kind = kind}}
  BY Zenon DEF Pins
<1>3. \A t \in Callers' :
         q \in {<<t, p, held'[t][p].obj>> : p \in {r \in Params(t)' : held'[t][r].kind = kind}} <=>
            \E p \in Params(t)' : q = <<t, p, held'[t][p].obj>> /\ held'[t][p].kind = kind
  OBVIOUS
<1>. QED
  BY <1>1, <1>2, <1>3

\* Nothing is counted where no pin changes.
LEMMA CountKeeps ==
  ASSUME plan' = plan, held' = held, exports' = exports, refs' = refs, CountInv
  PROVE  CountInv'
<1>1. Objects' = Objects
  BY PlanKeeps
<1>2. Callers' = Callers /\ \A t : Params(t)' = Params(t)
  BY DEF Callers, Params, Order, FnOf, CallOf
<1>3. ASSUME NEW kind, NEW x
      PROVE  PinsOn(kind, x)' = PinsOn(kind, x)
  <2>1. ASSUME NEW q
        PROVE  q \in PinsOn(kind, x)' <=> q \in PinsOn(kind, x)
    BY <1>2, PinIs, PinIsNext
  <2>. QED
    BY <2>1
<1>. QED
  BY <1>1, <1>3 DEF CountInv
-----------------------------------------------------------------------------
(* Counting the pins *)

\* the record of one parameter changes
Puts(t, p, k, x) ==
    /\ plan' = plan /\ DOMAIN held = Callers /\ DOMAIN held[t] = Params(t)
    /\ held' = [held EXCEPT ![t] = [@ EXCEPT ![p] = [kind |-> k, obj |-> x]]]

\* A pin that is made is one more of its kind on its object.
LEMMA PinAdds ==
  ASSUME NEW t \in Callers, NEW p \in Params(t), Gone(t, p),
         NEW k \in {"PEP3118", "NDARRAY"}, NEW x, Puts(t, p, k, x),
         NEW kind \in {"PEP3118", "NDARRAY"}, NEW y
  PROVE  /\ <<t, p, x>> \notin PinsOn(kind, x)
         /\ PinsOn(kind, y)' = IF kind = k /\ y = x THEN PinsOn(kind, y) \union {<<t, p, y>>} ELSE PinsOn(kind, y)
<1>1. Callers' = Callers /\ \A u : Params(u)' = Params(u)
  BY PlanKeeps DEF Puts
<1>2. held[t][p].kind # kind
  BY DEF Gone
<1>3. /\ held'[t][p].kind = k /\ held'[t][p].obj = x
      /\ \A u \in Callers : \A q \in Params(u) : ~(u = t /\ q = p) => held'[u][q] = held[u][q]
  BY DEF Puts
<1>4. <<t, p, x>> \notin PinsOn(kind, x)
  BY <1>2, PinIs
<1>5. ASSUME NEW q
      PROVE  q \in PinsOn(kind, y)' <=> q \in PinsOn(kind, y) \/ (kind = k /\ y = x /\ q = <<t, p, y>>)
  <2>1. ASSUME NEW u \in Callers, NEW r \in Params(u), q = <<u, r, y>>
        PROVE  q \in PinsOn(kind, y)' <=> q \in PinsOn(kind, y) \/ (kind = k /\ y = x /\ q = <<t, p, y>>)
    <3>1. q \in PinsOn(kind, y)' <=> held'[u][r].kind = kind /\ held'[u][r].obj = y
      BY <2>1, <1>1, PinIsNext
    <3>2. q \in PinsOn(kind, y) <=> held[u][r].kind = kind /\ held[u][r].obj = y
      BY <2>1, PinIs
    <3>3. CASE u = t /\ r = p
      BY <3>1, <3>2, <3>3, <2>1, <1>2, <1>3
    <3>4. CASE ~(u = t /\ r = p)
      BY <3>1, <3>2, <3>4, <2>1, <1>3
    <3>. QED
      BY <3>3, <3>4
  <2>2. (q \in PinsOn(kind, y)' \/ q \in PinsOn(kind, y))
           => \E u \in Callers : \E r \in Params(u) : q = <<u, r, y>>
    BY <1>1, PinIs, PinIsNext
  <2>. QED
    BY <2>1, <2>2
<1>. QED
  BY <1>4, <1>5

\* A pin that is released is one fewer; releasing what was never made changes none.
LEMMA PinTakes ==
  ASSUME NEW t \in Callers, NEW p \in Params(t), Puts(t, p, "NONE", NoObject),
         NEW kind \in {"PEP3118", "NDARRAY"}, NEW y
  PROVE  /\ <<t, p, y>> \in PinsOn(kind, y) <=> held[t][p].kind = kind /\ held[t][p].obj = y
         /\ PinsOn(kind, y)' = PinsOn(kind, y) \ {<<t, p, y>>}
<1>1. Callers' = Callers /\ \A u : Params(u)' = Params(u)
  BY PlanKeeps DEF Puts
<1>2. /\ held'[t][p].kind # kind
      /\ \A u \in Callers : \A q \in Params(u) : ~(u = t /\ q = p) => held'[u][q] = held[u][q]
  BY DEF Puts
<1>3. <<t, p, y>> \in PinsOn(kind, y) <=> held[t][p].kind = kind /\ held[t][p].obj = y
  <2>1. ASSUME <<t, p, y>> \in PinsOn(kind, y)
        PROVE  held[t][p].kind = kind /\ held[t][p].obj = y
    <3>1. PICK u \in Callers :
             \E r \in Params(u) : <<t, p, y>> = <<u, r, y>> /\ held[u][r].kind = kind /\ held[u][r].obj = y
      BY <2>1, PinIs
    <3>. QED
      BY <3>1
  <2>. QED
    BY <2>1, PinIs
<1>4. ASSUME NEW q
      PROVE  q \in PinsOn(kind, y)' <=> q \in PinsOn(kind, y) /\ q # <<t, p, y>>
  <2>1. ASSUME NEW u \in Callers, NEW r \in Params(u), q = <<u, r, y>>
        PROVE  q \in PinsOn(kind, y)' <=> q \in PinsOn(kind, y) /\ q # <<t, p, y>>
    <3>1. q \in PinsOn(kind, y)' <=> held'[u][r].kind = kind /\ held'[u][r].obj = y
      BY <2>1, <1>1, PinIsNext
    <3>2. q \in PinsOn(kind, y) <=> held[u][r].kind = kind /\ held[u][r].obj = y
      BY <2>1, PinIs
    <3>3. CASE u = t /\ r = p
      BY <3>1, <3>2, <3>3, <2>1, <1>2
    <3>4. CASE ~(u = t /\ r = p)
      BY <3>1, <3>2, <3>4, <2>1, <1>2
    <3>. QED
      BY <3>3, <3>4
  <2>2. (q \in PinsOn(kind, y)' \/ q \in PinsOn(kind, y))
           => \E u \in Callers : \E r \in Params(u) : q = <<u, r, y>>
    BY <1>1, PinIs, PinIsNext
  <2>. QED
    BY <2>1, <2>2
<1>. QED
  BY <1>3, <1>4

\* one more pin of a kind
Counted(k, x) ==
    /\ exports' = IF k = "PEP3118" THEN [exports EXCEPT ![x] = @ + 1] ELSE exports
    /\ refs' = IF k = "NDARRAY" THEN [refs EXCEPT ![x] = @ + 1] ELSE refs

\* The counts follow when a buffer is exported or an array is referred to (c2py_pin).
LEMMA CountAdds ==
  ASSUME NEW t \in Callers, NEW p \in Params(t), Gone(t, p),
         NEW k \in {"PEP3118", "NDARRAY"}, NEW x \in Objects, Puts(t, p, k, x),
         exports \in [Objects -> Int], refs \in [Objects -> Int],
         Counted(k, x), CountInv
  PROVE  CountInv'
<1>1. Objects' = Objects
  BY PlanKeeps DEF Puts
<1>2. ASSUME NEW y \in Objects, NEW kind \in {"PEP3118", "NDARRAY"}, IsFiniteSet(PinsOn(kind, y))
      PROVE  /\ IsFiniteSet(PinsOn(kind, y)')
             /\ Cardinality(PinsOn(kind, y)') =
                   IF kind = k /\ y = x THEN Cardinality(PinsOn(kind, y)) + 1 ELSE Cardinality(PinsOn(kind, y))
  <2>1. /\ <<t, p, x>> \notin PinsOn(kind, x)
        /\ PinsOn(kind, y)' = IF kind = k /\ y = x THEN PinsOn(kind, y) \union {<<t, p, y>>} ELSE PinsOn(kind, y)
    BY PinAdds
  <2>2. CASE kind = k /\ y = x
    <3>1. PinsOn(kind, y)' = PinsOn(kind, y) \union {<<t, p, y>>} /\ <<t, p, y>> \notin PinsOn(kind, y)
      BY <2>1, <2>2
    <3>2. /\ IsFiniteSet(PinsOn(kind, y) \union {<<t, p, y>>})
          /\ Cardinality(PinsOn(kind, y) \union {<<t, p, y>>}) = Cardinality(PinsOn(kind, y)) + 1
      BY <1>2, <3>1, FS_AddElement
    <3>. QED
      BY <2>2, <3>1, <3>2
  <2>3. CASE ~(kind = k /\ y = x)
    BY <1>2, <2>1, <2>3
  <2>. QED
    BY <2>2, <2>3
<1>3. ASSUME NEW y \in Objects
      PROVE  /\ exports'[y] = IF k = "PEP3118" /\ y = x THEN exports[y] + 1 ELSE exports[y]
             /\ refs'[y] = IF k = "NDARRAY" /\ y = x THEN refs[y] + 1 ELSE refs[y]
  BY DEF Counted
<1>4. ASSUME NEW y \in Objects
      PROVE  /\ IsFiniteSet(PinsOn("PEP3118", y)') /\ exports'[y] = Cardinality(PinsOn("PEP3118", y)')
             /\ IsFiniteSet(PinsOn("NDARRAY", y)') /\ refs'[y] = Cardinality(PinsOn("NDARRAY", y)')
  <2>1. /\ IsFiniteSet(PinsOn("PEP3118", y)) /\ exports[y] = Cardinality(PinsOn("PEP3118", y))
        /\ IsFiniteSet(PinsOn("NDARRAY", y)) /\ refs[y] = Cardinality(PinsOn("NDARRAY", y))
    BY DEF CountInv
  <2>. QED
    BY <2>1, <1>2, <1>3
<1>. QED
  BY <1>1, <1>4 DEF CountInv

\* They follow when a pin is released, whichever it is, and when what was never made is (c2py_unpin_buffer).
LEMMA CountTakes ==
  ASSUME CaseInv, NEW t \in Callers, NEW p \in Params(t), Made(t, p) \/ Gone(t, p),
         Puts(t, p, "NONE", NoObject),
         exports \in [Objects -> Int], refs \in [Objects -> Int],
         NEW k, held[t][p].kind # "unset" => k = held[t][p].kind,
         exports' = IF k = "PEP3118" /\ held[t][p].obj # NoObject
                    THEN [exports EXCEPT ![held[t][p].obj] = @ - 1] ELSE exports,
         refs' = IF k \in {"NDARRAY", "DLPACK"} /\ held[t][p].obj # NoObject
                 THEN [refs EXCEPT ![held[t][p].obj] = @ - 1] ELSE refs,
         CountInv
  PROVE  CountInv'
<1>1. Objects' = Objects
  BY PlanKeeps DEF Puts
<1>. DEFINE one(kind, y) == held[t][p].kind = kind /\ held[t][p].obj = y
<1>2. ASSUME NEW y \in Objects, NEW kind \in {"PEP3118", "NDARRAY"}, IsFiniteSet(PinsOn(kind, y))
      PROVE  /\ IsFiniteSet(PinsOn(kind, y)')
             /\ Cardinality(PinsOn(kind, y)') =
                   IF one(kind, y) THEN Cardinality(PinsOn(kind, y)) - 1 ELSE Cardinality(PinsOn(kind, y))
  <2>1. /\ <<t, p, y>> \in PinsOn(kind, y) <=> one(kind, y)
        /\ PinsOn(kind, y)' = PinsOn(kind, y) \ {<<t, p, y>>}
    BY PinTakes
  <2>. DEFINE S == PinsOn(kind, y)  R == PinsOn(kind, y)'  e == <<t, p, y>>
  <2>2. IsFiniteSet(S) /\ R = S \ {e} /\ (e \in S <=> one(kind, y))
    BY <1>2, <2>1
  <2>. HIDE DEF S, R, e, one
  <2>3. IsFiniteSet(R) /\ Cardinality(R) = IF e \in S THEN Cardinality(S) - 1 ELSE Cardinality(S)
    BY <2>2, FS_RemoveElement
  <2>4. Cardinality(R) = IF one(kind, y) THEN Cardinality(S) - 1 ELSE Cardinality(S)
    BY <2>2, <2>3
  <2>. QED
    BY <2>3, <2>4 DEF S, R
<1>3. ASSUME NEW y \in Objects
      PROVE  /\ exports'[y] = IF one("PEP3118", y) THEN exports[y] - 1 ELSE exports[y]
             /\ refs'[y] = IF one("NDARRAY", y) THEN refs[y] - 1 ELSE refs[y]
  <2>1. y # NoObject
    BY CallFacts DEF Objects
  <2>2. CASE Gone(t, p)
    BY <2>1, <2>2 DEF Gone
  <2>3. CASE Made(t, p)
    <3>1. k = held[t][p].kind /\ held[t][p].obj \in Objects /\ held[t][p].obj # NoObject
      BY <2>3, CallFacts DEF Made
    <3>. QED
      BY <2>3, <3>1 DEF Made
  <2>. QED
    BY <2>2, <2>3
<1>. HIDE DEF one
<1>4. ASSUME NEW y \in Objects
      PROVE  /\ IsFiniteSet(PinsOn("PEP3118", y)') /\ exports'[y] = Cardinality(PinsOn("PEP3118", y)')
             /\ IsFiniteSet(PinsOn("NDARRAY", y)') /\ refs'[y] = Cardinality(PinsOn("NDARRAY", y)')
  <2>1. /\ IsFiniteSet(PinsOn("PEP3118", y)) /\ exports[y] = Cardinality(PinsOn("PEP3118", y))
        /\ IsFiniteSet(PinsOn("NDARRAY", y)) /\ refs[y] = Cardinality(PinsOn("NDARRAY", y))
    BY DEF CountInv
  <2>. QED
    BY <2>1, <1>2, <1>3
<1>. QED
  BY <1>1, <1>4 DEF CountInv
-----------------------------------------------------------------------------
(* What a step changes *)

PinRecord == [kind : {"unset", "NONE", "PEP3118", "NDARRAY", "DLPACK"}, obj : Objects \union {NoObject}]
Layouts == [off : BOOLEAN, probed : BOOLEAN, type : BOOLEAN]

\* A step of a thread: its own record, one pin of it, the counts, the layout and the GIL, which it
\* takes from nobody else.
Shape(t) ==
    /\ build' = build /\ plan' = plan /\ enabled' = enabled /\ gen' = gen /\ layout' \in Layouts
    /\ holder' \in Callers \union {NoThread}
    /\ holder' = holder \/ ~build.gil \/ holder \in {t, NoThread}
    /\ \E r \in [pc : Places, i : 0 .. Len(Order(t)) + 1, save : BOOLEAN, err : BOOLEAN, ret : BOOLEAN] :
          th' = [th EXCEPT ![t] = r]
    /\ \/ held' = held
       \/ \E p \in Params(t) : \E pin \in PinRecord : held' = [held EXCEPT ![t] = [@ EXCEPT ![p] = pin]]
    /\ \/ seen' = seen
       \/ \E p \in Params(t) : \E n : seen' = [seen EXCEPT ![t] = [@ EXCEPT ![p] = n]]
    /\ exports' \in [Objects -> Int] /\ refs' \in [Objects -> Int]

\* The pins of the other threads stay, and every pin has its type.
LEMMA HeldStep ==
  ASSUME TypeInv, NEW t \in Callers, Shape(t)
  PROVE  /\ DOMAIN held' = Callers /\ \A u \in Callers \ {t} : held'[u] = held[u]
         /\ \A u \in Callers : DOMAIN held'[u] = Params(u)
         /\ \A u \in Callers : \A p \in Params(u) : held'[u][p] \in PinRecord \/ held'[u][p] = held[u][p]
<1>1. DOMAIN held = Callers /\ \A u \in Callers : DOMAIN held[u] = Params(u)
  BY DEF TypeInv
<1>2. CASE held' = held
  BY <1>1, <1>2
<1>3. ASSUME NEW p \in Params(t), NEW pin \in PinRecord, held' = [held EXCEPT ![t] = [@ EXCEPT ![p] = pin]]
      PROVE  /\ DOMAIN held' = Callers /\ \A u \in Callers \ {t} : held'[u] = held[u]
             /\ \A u \in Callers : DOMAIN held'[u] = Params(u)
             /\ \A u \in Callers : \A q \in Params(u) : held'[u][q] \in PinRecord \/ held'[u][q] = held[u][q]
  <2>1. held'[t] = [held[t] EXCEPT ![p] = pin] /\ \A u \in Callers \ {t} : held'[u] = held[u]
    BY <1>1, <1>3
  <2>2. DOMAIN held' = Callers
    BY <1>1, <1>3
  <2>3. DOMAIN held'[t] = Params(t) /\ \A q \in Params(t) : held'[t][q] = IF q = p THEN pin ELSE held[t][q]
    BY <1>1, <2>1
  <2>. QED
    BY <1>1, <1>3, <2>1, <2>2, <2>3
<1>. QED
  BY <1>2, <1>3 DEF Shape

\* The memory the other threads know stays.
LEMMA SeenStep ==
  ASSUME TypeInv, NEW t \in Callers, Shape(t)
  PROVE  /\ DOMAIN seen' = Callers /\ \A u \in Callers \ {t} : seen'[u] = seen[u]
         /\ \A u \in Callers : DOMAIN seen'[u] = Params(u)
<1>1. DOMAIN seen = Callers /\ \A u \in Callers : DOMAIN seen[u] = Params(u)
  BY DEF TypeInv
<1>2. CASE seen' = seen
  BY <1>1, <1>2
<1>3. ASSUME NEW p \in Params(t), NEW n, seen' = [seen EXCEPT ![t] = [@ EXCEPT ![p] = n]]
      PROVE  /\ DOMAIN seen' = Callers /\ \A u \in Callers \ {t} : seen'[u] = seen[u]
             /\ \A u \in Callers : DOMAIN seen'[u] = Params(u)
  BY <1>1, <1>3
<1>. QED
  BY <1>2, <1>3 DEF Shape

\* The records of the other threads stay.
LEMMA ThStep ==
  ASSUME TypeInv, NEW t \in Callers, Shape(t)
  PROVE  /\ th' \in [Callers -> [pc : Places, i : Nat, save : BOOLEAN, err : BOOLEAN, ret : BOOLEAN]]
         /\ \A u \in Callers \ {t} : th'[u] = th[u]
         /\ th'[t].i \in 0 .. Len(Order(t)) + 1
<1>1. PICK r \in [pc : Places, i : 0 .. Len(Order(t)) + 1, save : BOOLEAN, err : BOOLEAN, ret : BOOLEAN] :
         th' = [th EXCEPT ![t] = r]
  BY DEF Shape
<1>2. r \in [pc : Places, i : Nat, save : BOOLEAN, err : BOOLEAN, ret : BOOLEAN]
  OBVIOUS
<1>3. th \in [Callers -> [pc : Places, i : Nat, save : BOOLEAN, err : BOOLEAN, ret : BOOLEAN]]
  BY DEF TypeInv
<1>. QED
  BY <1>1, <1>2, <1>3

\* Every such step keeps the types.
LEMMA TypeKeeps ==
  ASSUME TypeInv, NEW t \in Callers, Shape(t)
  PROVE  TypeInv' /\ Others(t)
<1>. USE DEF Shape
<1>1. /\ Callers' = Callers /\ Objects' = Objects
      /\ \A u : Order(u)' = Order(u) /\ Params(u)' = Params(u)
  BY PlanKeeps
<1>2. CaseInv'
  BY DEF TypeInv, CaseInv
<1>3. /\ build' \in [gil : BOOLEAN, pypy : BOOLEAN] /\ Callers' \subseteq Threads
      /\ holder' \in Callers' \union {NoThread} /\ enabled' \in BOOLEAN /\ layout' \in Layouts
  BY <1>1 DEF TypeInv, TypeOK
<1>4. ASSUME NEW u \in Callers
      PROVE  th'[u].pc \in Places /\ th'[u].i \in 0 .. Len(Order(u)) + 1
  BY ThStep DEF TypeInv, TypeOK
<1>5. ASSUME NEW u \in Callers, NEW p \in Params(u)
      PROVE  /\ held'[u][p].kind \in {"unset", "NONE", "PEP3118", "NDARRAY", "DLPACK"}
             /\ held'[u][p].obj = NoObject \/ held'[u][p].obj \in DOMAIN gen'
  <2>1. DOMAIN gen' = Objects /\ DOMAIN gen = Objects
    BY DEF TypeInv
  <2>2. CASE held'[u][p] = held[u][p]
    BY <2>1, <2>2 DEF TypeInv, TypeOK
  <2>3. CASE held'[u][p] \in PinRecord
    BY <2>1, <2>3 DEF PinRecord
  <2>. QED
    BY <2>2, <2>3, HeldStep
<1>6. TypeOK'
  BY <1>1, <1>3, <1>4, <1>5 DEF TypeOK, Places, Layouts
<1>7. /\ exports' \in [Objects' -> Int] /\ refs' \in [Objects' -> Int] /\ gen' \in [Objects' -> Int]
  BY <1>1 DEF TypeInv
<1>8. /\ DOMAIN held' = Callers' /\ DOMAIN seen' = Callers'
      /\ \A u \in Callers' : DOMAIN held'[u] = Params(u)' /\ DOMAIN seen'[u] = Params(u)'
  BY <1>1, HeldStep, SeenStep
<1>9. th' \in [Callers' -> [pc : Places, i : Nat, save : BOOLEAN, err : BOOLEAN, ret : BOOLEAN]]
  BY <1>1, ThStep
<1>10. Others(t)
  BY HeldStep, SeenStep, ThStep DEF Others
<1>11. TypeInv'
  BY <1>2, <1>6, <1>7, <1>8, <1>9 DEF TypeInv
<1>. QED
  BY <1>10, <1>11

\* What is true of a thread stays true while another one runs.
LEMMA OthersKeep ==
  ASSUME TypeInv, NEW t \in Callers, Shape(t), NEW u \in Callers \ {t}, Each(u)
  PROVE  Each(u)'
<1>1. /\ build' = build /\ plan' = plan /\ gen' = gen
      /\ th'[u] = th[u] /\ held'[u] = held[u] /\ seen'[u] = seen[u]
  BY TypeKeeps DEF Others, Shape
<1>2. PlaceInv(u)'
  BY <1>1, PlaceKeeps DEF Each
<1>3. StaysInv(u)'
  BY <1>1, StaysKeeps DEF Each
<1>4. CallInv(u)'
  BY <1>1, CallKeeps DEF Each
<1>5. GilInv(u)'
  <2>1. u # t /\ u # NoThread
    BY CallFacts DEF TypeInv
  <2>. QED
    BY <1>1, <2>1 DEF Each, GilInv, InCall, Shape
<1>. QED
  BY <1>2, <1>3, <1>4, <1>5 DEF Each
-----------------------------------------------------------------------------
(* The steps that pin and release nothing *)

Records(t) == [pc : Places, i : 0 .. Len(Order(t)) + 1, save : BOOLEAN, err : BOOLEAN, ret : BOOLEAN]
OwnInv(t) == Shape(t) /\ CountInv' /\ LayoutIsWhole' /\ Each(t)'

\* A thread's record, and the records it may get by the helpers of the actions.
LEMMA Moves ==
  ASSUME TypeInv, NEW t \in Callers, NEW where \in Places
  PROVE  /\ th[t] \in Records(t) /\ [th[t] EXCEPT !.pc = where] \in Records(t)
         /\ Goto(t, where) <=> th' = [th EXCEPT ![t] = [th[t] EXCEPT !.pc = where]]
         /\ [th[t] EXCEPT !.pc = where, !.err = TRUE, !.i = Len(Order(t))] \in Records(t)
         /\ Fail(t, where) <=>
               th' = [th EXCEPT ![t] = [th[t] EXCEPT !.pc = where, !.err = TRUE, !.i = Len(Order(t))]]
<1>1. th[t] \in [pc : Places, i : Nat, save : BOOLEAN, err : BOOLEAN, ret : BOOLEAN] /\ t \in DOMAIN th
  BY DEF TypeInv
<1>2. th[t].i \in 0 .. Len(Order(t)) + 1
  BY DEF TypeInv, TypeOK
<1>3. Len(Order(t)) \in Nat
  BY OrderFacts DEF TypeInv
<1>4. th[t] \in Records(t)
  BY <1>1, <1>2 DEF Records
<1>5. [th[t] EXCEPT !.pc = where] \in Records(t)
  BY <1>4 DEF Records
<1>6. [th[t] EXCEPT !.pc = where, !.err = TRUE, !.i = Len(Order(t))] \in Records(t)
  <2>1. Len(Order(t)) \in 0 .. Len(Order(t)) + 1
    BY <1>3
  <2>. QED
    BY <1>4, <2>1 DEF Records
<1>. QED
  BY <1>4, <1>5, <1>6 DEF Goto, Fail

\* Where the pins stay, so does what is known of them.
LEMMA PinsStay ==
  ASSUME plan' = plan, held' = held, NEW t
  PROVE  Order(t)' = Order(t) /\ (PlaceInv(t)' <=> Place(t, th'[t].pc, th'[t].i))
<1>1. Order(t)' = Order(t) /\ Params(t)' = Params(t)
  BY DEF Params, Order, FnOf, CallOf
<1>2. ASSUME NEW p
      PROVE  (Made(t, p)' <=> Made(t, p)) /\ (Gone(t, p)' <=> Gone(t, p))
  BY DEF Made, Gone, Arg, FnOf, CallOf
<1>3. PlaceInv(t)' <=> Place(t, th[t].pc, th[t].i)'
  BY DEF PlaceInv
<1>4. Place(t, th[t].pc, th[t].i)' <=> Place(t, th'[t].pc, th'[t].i)
  BY <1>1, <1>2 DEF Place
<1>. QED
  BY <1>1, <1>3, <1>4

\* What must be pinned where, for the places that a call comes to with nothing or everything pinned.
LEMMA WithNothing ==
  ASSUME CaseInv, NEW t \in Callers, \A p \in Params(t) : Gone(t, p), NEW i
  PROVE  /\ Place(t, "back", i) /\ Place(t, "done", i)
         /\ Order(t) # <<>> => Place(t, "pin", 1)
         /\ Order(t) = <<>> => Place(t, "examine", i)
<1>1. Place(t, "back", i) /\ Place(t, "done", i)
  BY DEF Place
<1>2. ASSUME Order(t) # <<>>
      PROVE  Place(t, "pin", 1)
  BY <1>2, OrderFacts DEF Place
<1>3. ASSUME Order(t) = <<>>
      PROVE  Place(t, "examine", i)
  BY <1>3 DEF Place, Params
<1>. QED
  BY <1>1, <1>2, <1>3

\* The same with everything pinned.
LEMMA WithEverything ==
  ASSUME NEW t \in Callers, \A p \in Params(t) : Made(t, p), NEW i
  PROVE  /\ Place(t, "examine", i) /\ Place(t, "save", i) /\ Place(t, "C", i)
         /\ Place(t, "restore", Len(Order(t)))
         /\ Order(t) # <<>> => Place(t, "overlap", i)
  BY DEF Place

\* The way out, from wherever a call fails.
LEMMA OnTheWayOut ==
  ASSUME CaseInv, NEW t \in Callers, \A p \in Params(t) : Made(t, p) \/ Gone(t, p)
  PROVE  Order(t) # <<>> => Place(t, "unpin", Len(Order(t)))
<1>1. ASSUME Order(t) # <<>>
      PROVE  Len(Order(t)) \in DOMAIN Order(t) /\ \A j \in DOMAIN Order(t) : j <= Len(Order(t))
  BY <1>1, OrderFacts
<1>2. \A j \in DOMAIN Order(t) : Order(t)[j] \in Params(t)
  BY OrderFacts
<1>. QED
  BY <1>1, <1>2 DEF Place

\* It is the release of the pins, if the function has parameters.
LEMMA WayOutPlace ==
  ASSUME CaseInv, NEW t \in Callers, \A p \in Params(t) : Made(t, p)
  PROVE  Place(t, WayOut(t), Len(Order(t)))
<1>1. CASE Order(t) # <<>>
  BY <1>1, OnTheWayOut DEF WayOut
<1>2. CASE Order(t) = <<>>
  <2>1. Params(t) = {}
    BY <1>2 DEF Params
  <2>. QED
    BY <1>2, <2>1, WithNothing DEF WayOut
<1>. QED
  BY <1>1, <1>2

\* A step that changes no pin has the shape of a step, and keeps the counts.
LEMMA Quiet ==
  ASSUME TypeInv, CountInv, LayoutIsWhole, NEW t \in Callers, StaysInv(t),
         UNCHANGED <<build, plan, enabled, layout, held, seen, exports, refs, gen>>,
         holder' \in {holder, t, NoThread}, holder' = holder \/ ~build.gil \/ holder \in {t, NoThread},
         NEW r \in Records(t), th' = [th EXCEPT ![t] = r]
  PROVE  Shape(t) /\ CountInv' /\ LayoutIsWhole' /\ StaysInv(t)' /\ th'[t] = r
<1>1. Shape(t)
  <2>1. holder' \in Callers \union {NoThread} /\ layout' \in Layouts
    BY DEF TypeInv, TypeOK, Layouts
  <2>2. exports' \in [Objects -> Int] /\ refs' \in [Objects -> Int]
    BY DEF TypeInv
  <2>. QED
    BY <2>1, <2>2 DEF Shape, Records
<1>2. CountInv'
  BY CountKeeps
<1>3. LayoutIsWhole'
  BY DEF LayoutIsWhole
<1>4. StaysInv(t)'
  BY StaysKeeps
<1>5. th'[t] = r
  BY DEF TypeInv
<1>. QED
  BY <1>1, <1>2, <1>3, <1>4, <1>5

\* A call of the wrapper begins (_..._fastcall).
LEMMA EnterKeeps ==
  ASSUME IInv, NEW t \in Callers, Enter(t)
  PROVE  OwnInv(t)
<1>1. TypeInv /\ CountInv /\ LayoutIsWhole /\ Each(t)
  BY DEF IInv
<1>. DEFINE r == IF ~CallOf(t).nargs \/ CallOf(t).junk \intersect FnOf(t).ints # {}
                 THEN [th[t] EXCEPT !.pc = "back", !.err = TRUE, !.i = Len(Order(t))]
                 ELSE [th[t] EXCEPT !.pc = IF Order(t) = <<>> THEN "examine" ELSE "pin"]
<1>2. r \in Records(t) /\ th' = [th EXCEPT ![t] = r]
  BY <1>1, Moves, "back" \in Places, "examine" \in Places, "pin" \in Places DEF Enter, Places
<1>3. Shape(t) /\ CountInv' /\ LayoutIsWhole' /\ StaysInv(t)' /\ th'[t] = r
  <2>. HIDE DEF r
  <2>. QED
    BY <1>1, <1>2, Quiet DEF Enter, Each, counts
<1>4. plan' = plan /\ held' = held /\ build' = build /\ th[t].pc = "out"
  BY DEF Enter
<1>5. PlaceInv(t)'
  <2>1. Place(t, "out", th[t].i)
    BY <1>1, <1>4 DEF Each, PlaceInv
  <2>2. \A p \in Params(t) : Gone(t, p)
    BY <2>1 DEF Place
  <2>3. th[t].i = 1
    BY <2>1 DEF Place
  <2>4. r.pc = "back" \/ (r.pc = "examine" /\ Order(t) = <<>>) \/ (r.pc = "pin" /\ r.i = 1 /\ Order(t) # <<>>)
    BY <1>1, <2>3 DEF TypeInv
  <2>5. Place(t, r.pc, r.i)
    <3>. HIDE DEF r
    <3>. QED
      BY <1>1, <2>2, <2>4, WithNothing DEF TypeInv
  <2>. HIDE DEF r
  <2>. QED
    BY <1>3, <1>4, <2>5, PinsStay
<1>6. CallInv(t)'
  BY <1>3, <1>4, PinsStay DEF CallInv
<1>7. GilInv(t)'
  BY <1>3, <1>4 DEF GilInv, Enter
<1>. QED
  BY <1>3, <1>5, <1>6, <1>7 DEF OwnInv, Each
\* A thread that runs has the GIL, if there is one.
LEMMA GilKeeps ==
  ASSUME NEW t \in Callers, build' = build, holder' = holder, Runs(t)
  PROVE  GilInv(t)'
  BY DEF GilInv, Runs

\* the pins, the counts and the GIL stay
Still == UNCHANGED <<build, plan, holder, enabled, layout, held, seen, exports, refs, gen>>

\* The fast path declines: the buffer protocol is next (c2py_pin).
LEMMA ToBuffer ==
  ASSUME IInv, NEW t \in Callers, Here(t, "pin"), Goto(t, "buffer"), Still
  PROVE  OwnInv(t)
<1>1. TypeInv /\ CountInv /\ LayoutIsWhole /\ Each(t)
  BY DEF IInv
<1>. DEFINE r == [th[t] EXCEPT !.pc = "buffer"]
<1>2. r.pc = "buffer" /\ r.i = th[t].i
  BY <1>1 DEF TypeInv
<1>0. r \in Records(t) /\ th' = [th EXCEPT ![t] = r]
  BY <1>1, Moves, "buffer" \in Places DEF Places
<1>. HIDE DEF r
<1>3. Shape(t) /\ CountInv' /\ LayoutIsWhole' /\ StaysInv(t)' /\ th'[t] = r
  BY <1>1, <1>0, Quiet DEF Still, Each
<1>4. plan' = plan /\ held' = held /\ build' = build /\ holder' = holder /\ th[t].pc = "pin" /\ Runs(t)
  BY DEF Still, Here
<1>5. PlaceInv(t)'
  <2>1. Place(t, "buffer", th[t].i)
    BY <1>1, <1>4 DEF Each, PlaceInv, Place
  <2>. QED
    BY <1>2, <1>3, <1>4, <2>1, PinsStay
<1>6. CallInv(t)'
  BY <1>2, <1>3 DEF CallInv
<1>7. GilInv(t)'
  BY <1>4, GilKeeps
<1>. QED
  BY <1>3, <1>5, <1>6, <1>7 DEF OwnInv, Each

\* It declines what is no array, and while the layout is being published (c2py_pin).
LEMMA PinDeclinedKeeps ==
  ASSUME IInv, NEW t \in Callers, PinDeclined(t)
  PROVE  OwnInv(t)
  BY ToBuffer DEF PinDeclined, Still, counts

\* The arrays are compared (c2py_check_no_overlap).
LEMMA CheckOverlapKeeps ==
  ASSUME IInv, NEW t \in Callers, CheckOverlap(t)
  PROVE  OwnInv(t)
<1>1. TypeInv /\ CountInv /\ LayoutIsWhole /\ Each(t)
  BY DEF IInv
<1>. DEFINE free == NoOverlap(CallOf(t).a, FnOf(t).restrict)
            r == IF free THEN [th[t] EXCEPT !.pc = "examine"]
                 ELSE [th[t] EXCEPT !.pc = "unpin", !.err = TRUE, !.i = Len(Order(t))]
<1>2. r \in Records(t) /\ th' = [th EXCEPT ![t] = r]
  BY <1>1, Moves, "examine" \in Places, "unpin" \in Places DEF CheckOverlap, Places
<1>3. (r.pc = "examine" /\ free) \/ (r.pc = "unpin" /\ r.i = Len(Order(t)))
  BY <1>1 DEF TypeInv
<1>. HIDE DEF r
<1>4. Shape(t) /\ CountInv' /\ LayoutIsWhole' /\ StaysInv(t)' /\ th'[t] = r
  BY <1>1, <1>2, Quiet DEF CheckOverlap, Each, counts
<1>5. plan' = plan /\ held' = held /\ build' = build /\ holder' = holder /\ th[t].pc = "overlap" /\ Runs(t)
  BY DEF CheckOverlap, Here
<1>6. PlaceInv(t)'
  <2>1. Order(t) # <<>> /\ \A p \in Params(t) : Made(t, p)
    BY <1>1, <1>5 DEF Each, PlaceInv, Place
  <2>2. Place(t, r.pc, r.i)
    BY <1>1, <1>3, <2>1, WithEverything, OnTheWayOut DEF TypeInv
  <2>. QED
    BY <1>4, <1>5, <2>2, PinsStay
<1>7. CallInv(t)'
  BY <1>3, <1>4, <1>5, PlanKeeps DEF CallInv
<1>8. GilInv(t)'
  BY <1>5, GilKeeps
<1>. QED
  BY <1>4, <1>6, <1>7, <1>8 DEF OwnInv, Each

\* Sizes and types are checked, and the flag is read (_..._impl).
LEMMA ExamineKeeps ==
  ASSUME IInv, NEW t \in Callers, Examine(t)
  PROVE  OwnInv(t)
<1>1. TypeInv /\ CountInv /\ LayoutIsWhole /\ Each(t)
  BY DEF IInv
<1>. DEFINE fine == Accepted(CallOf(t).fn, CallOf(t).a, CallOf(t).v)
            r == IF fine THEN [th[t] EXCEPT !.pc = "save", !.save = enabled /\ FnOf(t).release]
                 ELSE [th[t] EXCEPT !.pc = WayOut(t), !.err = TRUE, !.i = Len(Order(t))]
<1>2. r \in Records(t) /\ th' = [th EXCEPT ![t] = r]
  <2>1. WayOut(t) \in Places
    BY DEF WayOut, Places
  <2>2. CASE ~fine
    BY <1>1, <2>1, <2>2, Moves DEF Examine
  <2>3. CASE fine
    <3>1. (enabled /\ FnOf(t).release) \in BOOLEAN /\ "save" \in Places
      BY DEF Places
    <3>2. [th[t] EXCEPT !.pc = "save", !.save = enabled /\ FnOf(t).release] \in Records(t)
      BY <1>1, <3>1, Moves DEF Records
    <3>. QED
      BY <2>3, <3>2 DEF Examine
  <2>. QED
    BY <2>2, <2>3
<1>3. (r.pc = "save" /\ fine) \/ (r.pc = WayOut(t) /\ r.i = Len(Order(t)))
  BY <1>1 DEF TypeInv
<1>. HIDE DEF r
<1>4. Shape(t) /\ CountInv' /\ LayoutIsWhole' /\ StaysInv(t)' /\ th'[t] = r
  BY <1>1, <1>2, Quiet DEF Examine, Each, counts
<1>5. plan' = plan /\ held' = held /\ build' = build /\ holder' = holder /\ th[t].pc = "examine" /\ Runs(t)
  BY DEF Examine, Here
<1>6. PlaceInv(t)'
  <2>1. \A p \in Params(t) : Made(t, p)
    BY <1>1, <1>5 DEF Each, PlaceInv, Place
  <2>2. Place(t, r.pc, r.i)
    <3>1. CASE r.pc = "save"
      BY <2>1, <3>1, WithEverything
    <3>2. CASE r.pc = WayOut(t) /\ r.i = Len(Order(t))
      BY <1>1, <2>1, <3>2, WayOutPlace DEF TypeInv
    <3>. QED
      BY <1>3, <3>1, <3>2
  <2>. QED
    BY <1>4, <1>5, <2>2, PinsStay
<1>7. CallInv(t)'
  <2>1. Order(t)' = Order(t) /\ CallOf(t)' = CallOf(t) /\ FnOf(t)' = FnOf(t) /\ th'[t].pc = r.pc
    BY <1>4, <1>5, PlanKeeps
  <2>2. WayOut(t) \notin {"examine", "save", "C", "restore"}
    BY DEF WayOut
  <2>. QED
    BY <1>1, <1>3, <1>5, <2>1, <2>2 DEF CallInv, Each
<1>8. GilInv(t)'
  BY <1>5, GilKeeps
<1>. QED
  BY <1>4, <1>6, <1>7, <1>8 DEF OwnInv, Each
\* The GIL is saved, or not (_..._impl).
LEMMA SaveThreadKeeps ==
  ASSUME IInv, NEW t \in Callers, SaveThread(t)
  PROVE  OwnInv(t)
<1>1. TypeInv /\ CountInv /\ LayoutIsWhole /\ Each(t)
  BY DEF IInv
<1>. DEFINE r == [th[t] EXCEPT !.pc = "C"]
<1>2. r.pc = "C" /\ r.i = th[t].i /\ r.save = th[t].save
  BY <1>1 DEF TypeInv
<1>3. r \in Records(t) /\ th' = [th EXCEPT ![t] = r]
  BY <1>1, Moves, "C" \in Places DEF SaveThread, Places
<1>. HIDE DEF r
<1>4. /\ plan' = plan /\ held' = held /\ build' = build /\ th[t].pc = "save" /\ (build.gil => holder = t)
      /\ holder' = IF th[t].save /\ build.gil THEN NoThread ELSE holder
  BY DEF SaveThread, Here, Runs
<1>5. Shape(t) /\ CountInv' /\ LayoutIsWhole' /\ StaysInv(t)' /\ th'[t] = r
  <2>1. holder' \in Callers \union {NoThread} /\ (holder' = holder \/ ~build.gil \/ holder \in {t, NoThread})
    BY <1>1, <1>4 DEF TypeInv, TypeOK
  <2>. QED
    BY <1>1, <1>3, <2>1, Quiet DEF SaveThread, Each, counts
<1>6. PlaceInv(t)'
  <2>1. \A p \in Params(t) : Made(t, p)
    BY <1>1, <1>4 DEF Each, PlaceInv, Place
  <2>. QED
    BY <1>2, <1>4, <1>5, <2>1, WithEverything, PinsStay
<1>7. CallInv(t)'
  BY <1>1, <1>4, PlanKeeps DEF CallInv, Each
<1>8. GilInv(t)'
  BY <1>2, <1>4, <1>5 DEF GilInv
<1>. QED
  BY <1>5, <1>6, <1>7, <1>8 DEF OwnInv, Each

\* The C function, with or without the GIL (_..._impl).
LEMMA CFunctionKeeps ==
  ASSUME IInv, NEW t \in Callers, CFunction(t)
  PROVE  OwnInv(t)
<1>1. TypeInv /\ CountInv /\ LayoutIsWhole /\ Each(t)
  BY DEF IInv
<1>. DEFINE r == [th[t] EXCEPT !.pc = "restore", !.ret = TRUE, !.i = Len(Order(t))]
<1>2. r.pc = "restore" /\ r.i = Len(Order(t)) /\ r.save = th[t].save
  BY <1>1 DEF TypeInv
<1>3. r \in Records(t) /\ th' = [th EXCEPT ![t] = r]
  <2>1. th[t] \in Records(t)
    BY <1>1, Moves, "C" \in Places DEF Places
  <2>2. Len(Order(t)) \in 0 .. Len(Order(t)) + 1
    BY <1>1, OrderFacts DEF TypeInv
  <2>3. r \in Records(t)
    BY <2>1, <2>2 DEF Records, Places
  <2>. QED
    BY <2>3 DEF CFunction
<1>. HIDE DEF r
<1>4. plan' = plan /\ held' = held /\ build' = build /\ holder' = holder /\ th[t].pc = "C"
  BY DEF CFunction
<1>5. Shape(t) /\ CountInv' /\ LayoutIsWhole' /\ StaysInv(t)' /\ th'[t] = r
  BY <1>1, <1>3, Quiet DEF CFunction, Each, counts
<1>6. PlaceInv(t)'
  <2>1. \A p \in Params(t) : Made(t, p)
    BY <1>1, <1>4 DEF Each, PlaceInv, Place
  <2>. QED
    BY <1>2, <1>4, <1>5, <2>1, WithEverything, PinsStay
<1>7. CallInv(t)'
  BY <1>1, <1>4, PlanKeeps DEF CallInv, Each
<1>8. GilInv(t)'
  BY <1>1, <1>2, <1>4, <1>5 DEF GilInv, InCall, Each
<1>. QED
  BY <1>5, <1>6, <1>7, <1>8 DEF OwnInv, Each

\* The GIL is taken again by who saved it (_..._impl).
LEMMA RestoreThreadKeeps ==
  ASSUME IInv, NEW t \in Callers, RestoreThread(t)
  PROVE  OwnInv(t)
<1>1. TypeInv /\ CountInv /\ LayoutIsWhole /\ Each(t)
  BY DEF IInv
<1>. DEFINE r == [th[t] EXCEPT !.pc = WayOut(t)]
<1>2. r.pc = WayOut(t) /\ r.i = th[t].i /\ WayOut(t) \in {"back", "unpin"}
  BY <1>1 DEF TypeInv, WayOut
<1>3. r \in Records(t) /\ th' = [th EXCEPT ![t] = r]
  BY <1>1, <1>2, Moves, WayOut(t) \in Places DEF RestoreThread, Places
<1>. HIDE DEF r
<1>4. /\ plan' = plan /\ held' = held /\ build' = build /\ th[t].pc = "restore"
      /\ (build.gil => holder' = t /\ holder \in {t, NoThread}) /\ holder' \in {holder, t}
  BY DEF RestoreThread, Runs
<1>5. Shape(t) /\ CountInv' /\ LayoutIsWhole' /\ StaysInv(t)' /\ th'[t] = r
  <2>1. holder' \in {holder, t, NoThread} /\ (holder' = holder \/ ~build.gil \/ holder \in {t, NoThread})
    BY <1>4
  <2>. QED
    BY <1>1, <1>3, <2>1, Quiet DEF RestoreThread, Each, counts
<1>6. PlaceInv(t)'
  <2>1. /\ \A p \in Params(t) : Made(t, p)
        /\ th[t].i = Len(Order(t))
    BY <1>1, <1>4 DEF Each, PlaceInv, Place
  <2>2. Place(t, r.pc, r.i)
    BY <1>1, <1>2, <2>1, WayOutPlace DEF TypeInv
  <2>. QED
    BY <1>4, <1>5, <2>2, PinsStay
<1>7. CallInv(t)'
  BY <1>2, <1>5 DEF CallInv
<1>8. GilInv(t)'
  BY <1>4 DEF GilInv
<1>. QED
  BY <1>5, <1>6, <1>7, <1>8 DEF OwnInv, Each

\* The call is over (_..._fastcall).
LEMMA ReturnKeeps ==
  ASSUME IInv, NEW t \in Callers, Return(t)
  PROVE  OwnInv(t)
<1>1. TypeInv /\ CountInv /\ LayoutIsWhole /\ Each(t)
  BY DEF IInv
<1>. DEFINE r == [th[t] EXCEPT !.pc = "done"]
<1>2. r.pc = "done"
  BY <1>1 DEF TypeInv
<1>3. r \in Records(t) /\ th' = [th EXCEPT ![t] = r]
  BY <1>1, Moves, "done" \in Places DEF Return, Places
<1>. HIDE DEF r
<1>4. /\ plan' = plan /\ held' = held /\ build' = build /\ th[t].pc = "back" /\ (build.gil => holder = t)
      /\ holder' = NoThread
  BY DEF Return, Here, Runs
<1>5. Shape(t) /\ CountInv' /\ LayoutIsWhole' /\ StaysInv(t)' /\ th'[t] = r
  BY <1>1, <1>3, <1>4, Quiet DEF Return, Each, counts
<1>6. PlaceInv(t)'
  <2>1. \A p \in Params(t) : Gone(t, p)
    BY <1>1, <1>4 DEF Each, PlaceInv, Place
  <2>. QED
    BY <1>1, <1>2, <1>4, <1>5, <2>1, WithNothing, PinsStay DEF TypeInv
<1>7. CallInv(t)'
  BY <1>2, <1>5 DEF CallInv
<1>8. GilInv(t)'
  BY <1>2, <1>5 DEF GilInv, InCall
<1>. QED
  BY <1>5, <1>6, <1>7, <1>8 DEF OwnInv, Each
-----------------------------------------------------------------------------
(* The steps that pin and release *)

\* An argument that is refused ends the call: what is pinned is released first (_..._fastcall).
LEMMA PinFailsKeeps ==
  ASSUME IInv, NEW t \in Callers, NEW from \in {"pin", "buffer"}, Here(t, from), PinFails(t), Still
  PROVE  OwnInv(t)
<1>1. TypeInv /\ CountInv /\ LayoutIsWhole /\ Each(t)
  BY DEF IInv
<1>. DEFINE where == IF th[t].i = 1 THEN "back" ELSE "unpin"
            r == [th[t] EXCEPT !.pc = where, !.err = TRUE, !.i = Len(Order(t))]
<1>2. r.pc = where /\ r.i = Len(Order(t))
  BY <1>1 DEF TypeInv
<1>3. r \in Records(t) /\ th' = [th EXCEPT ![t] = r]
  BY <1>1, Moves, where \in Places DEF PinFails, Places
<1>. HIDE DEF r
<1>4. Shape(t) /\ CountInv' /\ LayoutIsWhole' /\ StaysInv(t)' /\ th'[t] = r
  BY <1>1, <1>3, Quiet DEF Still, Each
<1>5. plan' = plan /\ held' = held /\ build' = build /\ holder' = holder /\ th[t].pc = from /\ Runs(t)
  BY DEF Still, Here
<1>6. PlaceInv(t)'
  <2>1. Place(t, th[t].pc, th[t].i) /\ th[t].pc \in {"pin", "buffer"} /\ CaseInv
    BY <1>1, <1>5 DEF Each, PlaceInv, TypeInv
  <2>2. /\ th[t].i \in DOMAIN Order(t)
        /\ \A j \in DOMAIN Order(t) : IF j < th[t].i THEN Made(t, Order(t)[j]) ELSE Gone(t, Order(t)[j])
    BY <2>1 DEF Place
  <2>3. CASE th[t].i = 1
    <3>1. \A j \in DOMAIN Order(t) : ~(j < 1)
      BY <2>1, OrderFacts
    <3>2. \A p \in Params(t) : Gone(t, p)
      BY <2>2, <2>3, <3>1 DEF Params
    <3>. QED
      BY <1>2, <1>4, <1>5, <2>1, <2>3, <3>2, WithNothing, PinsStay
  <2>4. CASE th[t].i # 1
    <3>1. \A p \in Params(t) : Made(t, p) \/ Gone(t, p)
      BY <2>2 DEF Params
    <3>2. Order(t) # <<>>
      BY <2>2
    <3>. QED
      BY <1>2, <1>4, <1>5, <2>1, <2>4, <3>1, <3>2, OnTheWayOut, PinsStay
  <2>. QED
    BY <2>3, <2>4
<1>7. CallInv(t)'
  BY <1>2, <1>4 DEF CallInv
<1>8. GilInv(t)'
  BY <1>5, GilKeeps
<1>. QED
  BY <1>4, <1>6, <1>7, <1>8 DEF OwnInv, Each

\* What a new record of one parameter says of the parameters.
LEMMA PutPins ==
  ASSUME NEW t \in Callers, NEW p \in Params(t), NEW k, NEW x, Puts(t, p, k, x)
  PROVE  /\ \A q \in Params(t) : q # p => (Made(t, q)' <=> Made(t, q)) /\ (Gone(t, q)' <=> Gone(t, q))
         /\ k \in {"PEP3118", "NDARRAY"} /\ x = Arg(t, p).obj /\ (p \in FnOf(t).writes => Arg(t, p).writable)
               => Made(t, p)'
         /\ k = "NONE" /\ x = NoObject => Gone(t, p)'
<1>1. \A q : Arg(t, q)' = Arg(t, q) /\ FnOf(t)' = FnOf(t)
  BY PlanKeeps DEF Puts
<1>2. \A q \in Params(t) : held'[t][q] = IF q = p THEN [kind |-> k, obj |-> x] ELSE held[t][q]
  BY DEF Puts
<1>. QED
  BY <1>1, <1>2 DEF Made, Gone

\* A pin is made: the counts follow, and the call goes on, to the publication or to the next parameter.
LEMMA PinnedKeeps ==
  ASSUME IInv, NEW t \in Callers, NEW from \in {"pin", "buffer"}, Here(t, from), MayPin(t),
         NEW k \in {"PEP3118", "NDARRAY"}, Pinned(t, k),
         Counted(k, ThisArg(t).obj),
         UNCHANGED <<build, plan, holder, enabled, layout, gen>>,
         NEW r, th' = [th EXCEPT ![t] = r], r = [th[t] EXCEPT !.pc = "publish"] \/ r = Next1(t)
  PROVE  OwnInv(t)
<1>. DEFINE i == th[t].i  p == This(t)  x == ThisArg(t).obj
<1>1. TypeInv /\ CountInv /\ LayoutIsWhole /\ Each(t) /\ CaseInv
  BY DEF IInv, TypeInv
<1>2. /\ i \in DOMAIN Order(t)
      /\ \A j \in DOMAIN Order(t) : IF j < i THEN Made(t, Order(t)[j]) ELSE Gone(t, Order(t)[j])
  BY <1>1 DEF Each, PlaceInv, Place, Here
<1>3. i \in 1 .. Len(Order(t)) /\ Len(Order(t)) \in Nat /\ DOMAIN Order(t) = 1 .. Len(Order(t))
  BY <1>1, <1>2, OrderFacts
<1>4. p = Order(t)[i] /\ p \in Params(t) /\ Gone(t, p) /\ x = Arg(t, p).obj /\ x \in Objects
  BY <1>1, <1>2, <1>3, OrderFacts, CallFacts DEF This, ThisArg
<1>5. p \in FnOf(t).writes => Arg(t, p).writable
  BY DEF MayPin, ThisArg
<1>6. Puts(t, p, k, x)
  BY <1>1 DEF Puts, Pinned, TypeInv
<1>7. seen' = [seen EXCEPT ![t] = [@ EXCEPT ![p] = gen[x]]]
  BY DEF Pinned
<1>8. (r.pc = "publish" /\ r.i = i) \/ (r.pc = "pin" /\ r.i = i + 1 /\ i < Len(Order(t)))
         \/ (r.pc = "overlap" /\ r.i = i /\ ~(i < Len(Order(t))))
  BY <1>1 DEF TypeInv, Next1
<1>9. r \in Records(t)
  <2>2. r \in [pc : Places, i : Nat, save : BOOLEAN, err : BOOLEAN, ret : BOOLEAN]
    <3>1. th[t] \in [pc : Places, i : Nat, save : BOOLEAN, err : BOOLEAN, ret : BOOLEAN]
      BY <1>1 DEF TypeInv
    <3>2. CASE r = [th[t] EXCEPT !.pc = "publish"]
      BY <3>1, <3>2 DEF Places
    <3>3. CASE r = Next1(t)
      <4>1. th[t].i + 1 \in Nat /\ "pin" \in Places /\ "overlap" \in Places
        BY <1>3 DEF Places
      <4>. HIDE DEF i
      <4>. QED
        BY <3>1, <3>3, <4>1 DEF Next1
    <3>. QED
      BY <3>2, <3>3
  <2>3. r.i \in 0 .. Len(Order(t)) + 1
    BY <1>3, <1>8
  <2>. QED
    BY <2>2, <2>3 DEF Records
<1>10. Runs(t) /\ build' = build /\ plan' = plan /\ holder' = holder /\ gen' = gen
  BY DEF Here
<1>. HIDE DEF i, p, x
<1>11. Shape(t)
  <2>1. held' = [held EXCEPT ![t] = [@ EXCEPT ![p] = [kind |-> k, obj |-> x]]]
    BY <1>6 DEF Puts
  <2>2. [kind |-> k, obj |-> x] \in PinRecord
    BY <1>4 DEF PinRecord
  <2>3. exports' \in [Objects -> Int] /\ refs' \in [Objects -> Int]
    BY <1>1, <1>4 DEF TypeInv, Counted, x
  <2>4. holder' \in Callers \union {NoThread} /\ layout' \in Layouts
    BY <1>1 DEF TypeInv, TypeOK, Layouts
  <2>. QED
    BY <1>4, <1>7, <1>9, <2>1, <2>2, <2>3, <2>4 DEF Shape, Records
<1>12. CountInv'
  <2>1. exports \in [Objects -> Int] /\ refs \in [Objects -> Int]
    BY <1>1 DEF TypeInv
  <2>2. Counted(k, x)
    BY DEF x
  <2>. QED
    BY <1>1, <1>4, <1>6, <2>1, <2>2, CountAdds
<1>13. th'[t] = r
  BY <1>1 DEF TypeInv
<1>14. Order(t)' = Order(t) /\ Params(t)' = Params(t)
  BY <1>10, PlanKeeps
<1>15. PlaceInv(t)'
  <2>1. ASSUME NEW j \in DOMAIN Order(t), NEW q, q = Order(t)[j]
        PROVE  IF j <= i THEN Made(t, q)' ELSE Gone(t, q)'
    <3>1. q \in Params(t) /\ (j # i <=> q # p)
      BY <1>1, <1>2, <1>4, <2>1, OrderFacts
    <3>2. CASE j = i
      BY <1>3, <1>4, <1>5, <1>6, <3>1, <3>2, PutPins
    <3>3. CASE j # i
      <4>1. (Made(t, q)' <=> Made(t, q)) /\ (Gone(t, q)' <=> Gone(t, q))
        BY <1>4, <1>6, <3>1, <3>3, PutPins
      <4>. QED
        BY <1>2, <1>3, <2>1, <3>3, <4>1
    <3>. QED
      BY <3>2, <3>3
  <2>2. CASE r.pc = "publish" /\ r.i = i
    BY <1>2, <1>13, <1>14, <2>1, <2>2 DEF PlaceInv, Place
  <2>3. CASE r.pc = "pin" /\ r.i = i + 1 /\ i < Len(Order(t))
    <3>1. \A j \in DOMAIN Order(t) : j <= i <=> j < i + 1
      BY <1>3
    <3>2. i + 1 \in DOMAIN Order(t)
      BY <1>3, <2>3
    <3>. QED
      BY <1>13, <1>14, <2>1, <2>3, <3>1, <3>2 DEF PlaceInv, Place
  <2>4. CASE r.pc = "overlap" /\ ~(i < Len(Order(t)))
    <3>1. \A j \in DOMAIN Order(t) : j <= i
      BY <1>3, <2>4
    <3>2. \A q \in Params(t) : Made(t, q)'
      BY <2>1, <3>1 DEF Params
    <3>3. Order(t) # <<>>
      BY <1>2
    <3>. QED
      BY <1>13, <1>14, <2>4, <3>2, <3>3 DEF PlaceInv, Place
  <2>. QED
    BY <1>8, <2>2, <2>3, <2>4
<1>16. StaysInv(t)'
  <2>1. ASSUME NEW q \in Params(t), held'[t][q].obj # NoObject
        PROVE  seen'[t][q] = gen'[held'[t][q].obj]
    <3>1. /\ held'[t][q] = IF q = p THEN [kind |-> k, obj |-> x] ELSE held[t][q]
          /\ seen'[t][q] = IF q = p THEN gen[x] ELSE seen[t][q]
      BY <1>1, <1>6, <1>7 DEF TypeInv, Puts
    <3>2. CASE q = p
      BY <1>10, <3>1, <3>2
    <3>3. CASE q # p
      BY <1>1, <1>10, <2>1, <3>1, <3>3 DEF Each, StaysInv
    <3>. QED
      BY <3>2, <3>3
  <2>. QED
    BY <1>14, <2>1 DEF StaysInv
<1>17. CallInv(t)'
  BY <1>8, <1>13 DEF CallInv
<1>18. GilInv(t)'
  BY <1>10, GilKeeps
<1>19. LayoutIsWhole'
  BY <1>1 DEF LayoutIsWhole
<1>. QED
  BY <1>11, <1>12, <1>15, <1>16, <1>17, <1>18, <1>19 DEF OwnInv, Each
\* The fast path, with the layout known (c2py_pin_ndarray).
LEMMA PinFillKeeps ==
  ASSUME IInv, NEW t \in Callers, PinFill(t)
  PROVE  OwnInv(t)
<1>1. Here(t, "pin") /\ UNCHANGED <<build, plan, holder, enabled, layout, exports, gen>>
  BY DEF PinFill, NdarrayTried
<1>2. CASE PinFails(t) /\ UNCHANGED <<held, seen, refs>>
  BY <1>1, <1>2, PinFailsKeeps, "pin" \in {"pin", "buffer"} DEF Still
<1>3. CASE Goto(t, "buffer") /\ UNCHANGED <<held, seen, refs>>
  BY <1>1, <1>3, ToBuffer DEF Still
<1>4. CASE /\ MayPin(t) /\ Pinned(t, "NDARRAY") /\ refs' = [refs EXCEPT ![ThisArg(t).obj] = @ + 1]
           /\ th' = [th EXCEPT ![t] = Next1(t)]
  <2>1. Counted("NDARRAY", ThisArg(t).obj)
    BY <1>1, <1>4 DEF Counted
  <2>. QED
    BY <1>1, <1>4, <2>1, PinnedKeeps, "pin" \in {"pin", "buffer"}, "NDARRAY" \in {"PEP3118", "NDARRAY"}
<1>. QED
  BY <1>2, <1>3, <1>4 DEF PinFill

\* The first array (c2py_pin_ndarray).
LEMMA PinProbeKeeps ==
  ASSUME IInv, NEW t \in Callers, PinProbe(t)
  PROVE  OwnInv(t)
<1>1. Here(t, "pin") /\ UNCHANGED <<build, plan, holder, enabled, layout, refs, gen>>
  BY DEF PinProbe, NdarrayTried
<1>2. CASE PinFails(t) /\ UNCHANGED <<held, seen, exports>>
  BY <1>1, <1>2, PinFailsKeeps, "pin" \in {"pin", "buffer"} DEF Still
<1>3. CASE Goto(t, "buffer") /\ UNCHANGED <<held, seen, exports>>
  BY <1>1, <1>3, ToBuffer DEF Still
<1>4. CASE /\ MayPin(t) /\ Pinned(t, "PEP3118") /\ Goto(t, "publish")
           /\ exports' = [exports EXCEPT ![ThisArg(t).obj] = @ + 1]
  <2>1. Counted("PEP3118", ThisArg(t).obj)
    BY <1>1, <1>4 DEF Counted
  <2>2. th' = [th EXCEPT ![t] = [th[t] EXCEPT !.pc = "publish"]]
    BY <1>4 DEF Goto
  <2>. QED
    BY <1>1, <1>4, <2>1, <2>2, PinnedKeeps, "pin" \in {"pin", "buffer"}, "PEP3118" \in {"PEP3118", "NDARRAY"}
<1>. QED
  BY <1>2, <1>3, <1>4 DEF PinProbe

\* The buffer protocol (c2py_acquire_buffer).
LEMMA PinBufferKeeps ==
  ASSUME IInv, NEW t \in Callers, PinBuffer(t)
  PROVE  OwnInv(t)
<1>1. Here(t, "buffer") /\ UNCHANGED <<build, plan, holder, enabled, layout, refs, gen>>
  BY DEF PinBuffer
<1>2. CASE PinFails(t) /\ UNCHANGED <<held, seen, exports>>
  BY <1>1, <1>2, PinFailsKeeps, "buffer" \in {"pin", "buffer"} DEF Still
<1>3. CASE /\ MayPin(t) /\ Pinned(t, "PEP3118") /\ th' = [th EXCEPT ![t] = Next1(t)]
           /\ exports' = [exports EXCEPT ![ThisArg(t).obj] = @ + 1]
  <2>1. Counted("PEP3118", ThisArg(t).obj)
    BY <1>1, <1>3 DEF Counted
  <2>. QED
    BY <1>1, <1>3, <2>1, PinnedKeeps, "buffer" \in {"pin", "buffer"}, "PEP3118" \in {"PEP3118", "NDARRAY"}
<1>. QED
  BY <1>2, <1>3 DEF PinBuffer

\* The offset, the probe and the type of the layout are published, in this order (c2py_pin_ndarray).
LEMMA PublishKeeps ==
  ASSUME IInv, NEW t \in Callers, Publish(t)
  PROVE  OwnInv(t)
<1>1. TypeInv /\ CountInv /\ LayoutIsWhole /\ Each(t) /\ CaseInv
  BY DEF IInv, TypeInv
<1>2. /\ th[t].pc = "publish" /\ Runs(t)
      /\ UNCHANGED <<build, plan, holder, enabled, held, seen, exports, refs, gen>>
  BY DEF Publish, Here, counts
<1>3. layout' \in Layouts /\ LayoutIsWhole'
  BY <1>1 DEF TypeInv, TypeOK, Layouts, LayoutIsWhole, Publish
<1>4. PICK r : th' = [th EXCEPT ![t] = r] /\ (r = th[t] \/ r = Next1(t))
  BY DEF Publish
<1>5. /\ th[t].i \in DOMAIN Order(t)
      /\ \A j \in DOMAIN Order(t) : IF j <= th[t].i THEN Made(t, Order(t)[j]) ELSE Gone(t, Order(t)[j])
  BY <1>1, <1>2 DEF Each, PlaceInv, Place
<1>6. th[t].i \in 1 .. Len(Order(t)) /\ Len(Order(t)) \in Nat /\ DOMAIN Order(t) = 1 .. Len(Order(t))
  BY <1>1, <1>5, OrderFacts
<1>7. th[t] \in [pc : Places, i : Nat, save : BOOLEAN, err : BOOLEAN, ret : BOOLEAN]
  BY <1>1 DEF TypeInv
<1>8. (r.pc = "publish" /\ r.i = th[t].i) \/ (r.pc = "pin" /\ r.i = th[t].i + 1 /\ th[t].i < Len(Order(t)))
         \/ (r.pc = "overlap" /\ r.i = th[t].i /\ ~(th[t].i < Len(Order(t))))
  BY <1>2, <1>4, <1>7 DEF Next1
<1>9. r \in Records(t)
  <2>1. th[t].i + 1 \in Nat /\ "pin" \in Places /\ "overlap" \in Places
    BY <1>7 DEF Places
  <2>2. r \in [pc : Places, i : Nat, save : BOOLEAN, err : BOOLEAN, ret : BOOLEAN]
    BY <1>4, <1>7, <2>1 DEF Next1
  <2>3. r.i \in 0 .. Len(Order(t)) + 1
    BY <1>6, <1>8
  <2>. QED
    BY <2>2, <2>3 DEF Records
<1>10. Shape(t)
  <2>1. exports' \in [Objects -> Int] /\ refs' \in [Objects -> Int] /\ holder' \in Callers \union {NoThread}
    BY <1>1, <1>2 DEF TypeInv, TypeOK
  <2>. QED
    BY <1>2, <1>3, <1>4, <1>9, <2>1 DEF Shape, Records
<1>11. CountInv' /\ StaysInv(t)'
  BY <1>1, <1>2, CountKeeps, StaysKeeps DEF Each
<1>12. th'[t] = r
  BY <1>1, <1>4 DEF TypeInv
<1>13. PlaceInv(t)'
  <2>1. CASE r.pc = "publish" /\ r.i = th[t].i
    BY <1>1, <1>2, <1>12, <2>1, PinsStay DEF Each, PlaceInv
  <2>2. CASE r.pc = "pin" /\ r.i = th[t].i + 1 /\ th[t].i < Len(Order(t))
    <3>1. \A j \in DOMAIN Order(t) : j <= th[t].i <=> j < th[t].i + 1
      BY <1>6
    <3>2. th[t].i + 1 \in DOMAIN Order(t)
      BY <1>6, <2>2
    <3>3. Place(t, "pin", th[t].i + 1)
      BY <1>5, <3>1, <3>2 DEF Place
    <3>. QED
      BY <1>2, <1>12, <2>2, <3>3, PinsStay
  <2>3. CASE r.pc = "overlap" /\ ~(th[t].i < Len(Order(t)))
    <3>1. \A j \in DOMAIN Order(t) : j <= th[t].i
      BY <1>6, <2>3
    <3>2. (\A q \in Params(t) : Made(t, q)) /\ Order(t) # <<>>
      BY <1>5, <3>1 DEF Params
    <3>. QED
      BY <1>2, <1>12, <2>3, <3>2, WithEverything, PinsStay
  <2>. QED
    BY <1>8, <2>1, <2>2, <2>3
<1>14. CallInv(t)'
  BY <1>8, <1>12 DEF CallInv
<1>15. GilInv(t)'
  BY <1>2, GilKeeps
<1>. QED
  BY <1>3, <1>10, <1>11, <1>13, <1>14, <1>15 DEF OwnInv, Each
\* One pin is released; of one that was never made there is nothing to release (c2py_unpin_buffer).
LEMMA UnpinBufferKeeps ==
  ASSUME IInv, NEW t \in Callers, UnpinBuffer(t)
  PROVE  OwnInv(t)
<1>. DEFINE i == th[t].i  p == This(t)
            r == IF th[t].i > 1 THEN [th[t] EXCEPT !.i = @ - 1] ELSE [th[t] EXCEPT !.pc = "back"]
<1>1. TypeInv /\ CountInv /\ LayoutIsWhole /\ Each(t) /\ CaseInv
  BY DEF IInv, TypeInv
<1>2. /\ th[t].pc = "unpin" /\ Runs(t) /\ th' = [th EXCEPT ![t] = r]
      /\ UNCHANGED <<build, plan, holder, enabled, layout, seen, gen>>
  <2>1. th' = [th EXCEPT ![t] = r]
    BY DEF UnpinBuffer
  <2>2. th[t].pc = "unpin" /\ Runs(t) /\ UNCHANGED <<build, plan, holder, enabled, layout, seen, gen>>
    BY DEF UnpinBuffer, Here
  <2>. QED
    BY <2>1, <2>2
<1>3. /\ i \in DOMAIN Order(t)
      /\ \A j \in DOMAIN Order(t) : Gone(t, Order(t)[j]) \/ (j <= i /\ Made(t, Order(t)[j]))
  BY <1>1, <1>2 DEF Each, PlaceInv, Place
<1>4. i \in 1 .. Len(Order(t)) /\ Len(Order(t)) \in Nat /\ DOMAIN Order(t) = 1 .. Len(Order(t))
  BY <1>1, <1>3, OrderFacts
<1>5. p = Order(t)[i] /\ p \in Params(t) /\ (Made(t, p) \/ Gone(t, p))
  BY <1>1, <1>3, OrderFacts DEF This
<1>6. Puts(t, p, "NONE", NoObject)
  BY <1>1, <1>2 DEF Puts, UnpinBuffer, TypeInv
<1>7. PICK k : /\ held[t][p].kind # "unset" => k = held[t][p].kind
               /\ exports' = IF k = "PEP3118" /\ held[t][p].obj # NoObject
                             THEN [exports EXCEPT ![held[t][p].obj] = @ - 1] ELSE exports
               /\ refs' = IF k \in {"NDARRAY", "DLPACK"} /\ held[t][p].obj # NoObject
                          THEN [refs EXCEPT ![held[t][p].obj] = @ - 1] ELSE refs
  BY DEF UnpinBuffer
<1>8. (r.pc = "unpin" /\ r.i = i - 1 /\ i > 1) \/ (r.pc = "back" /\ i = 1)
  BY <1>1, <1>2, <1>4 DEF TypeInv
<1>9. r \in Records(t)
  <2>1. th[t] \in [pc : Places, i : Nat, save : BOOLEAN, err : BOOLEAN, ret : BOOLEAN]
    BY <1>1 DEF TypeInv
  <2>2. r.i \in 0 .. Len(Order(t)) + 1
    BY <1>4, <2>1
  <2>3. r \in [pc : Places, i : Nat, save : BOOLEAN, err : BOOLEAN, ret : BOOLEAN]
    BY <2>1 DEF Places
  <2>. QED
    BY <2>2, <2>3 DEF Records
<1>10. th'[t] = r
  BY <1>1, <1>2 DEF TypeInv
<1>. HIDE DEF i, p, r
<1>11. exports \in [Objects -> Int] /\ refs \in [Objects -> Int]
  BY <1>1 DEF TypeInv
<1>12. exports' \in [Objects -> Int] /\ refs' \in [Objects -> Int]
  BY <1>1, <1>5, <1>7, <1>11, CallFacts, SMTT(30) DEF Made, Gone
<1>13. Shape(t)
  <2>1. held' = [held EXCEPT ![t] = [@ EXCEPT ![p] = [kind |-> "NONE", obj |-> NoObject]]]
    BY <1>6 DEF Puts
  <2>2. [kind |-> "NONE", obj |-> NoObject] \in PinRecord
    BY DEF PinRecord
  <2>3. holder' \in Callers \union {NoThread} /\ layout' \in Layouts
    BY <1>1, <1>2 DEF TypeInv, TypeOK, Layouts
  <2>. QED
    BY <1>2, <1>5, <1>9, <1>12, <2>1, <2>2, <2>3 DEF Shape, Records
<1>14. CountInv'
  BY <1>1, <1>5, <1>6, <1>7, <1>11, CountTakes
<1>15. Order(t)' = Order(t) /\ Params(t)' = Params(t)
  BY <1>2, PlanKeeps
<1>16. PlaceInv(t)'
  <2>1. ASSUME NEW j \in DOMAIN Order(t), NEW q, q = Order(t)[j]
        PROVE  Gone(t, q)' \/ (j < i /\ Made(t, q)')
    <3>1. q \in Params(t) /\ (j # i <=> q # p)
      BY <1>1, <1>3, <1>5, <2>1, OrderFacts
    <3>2. CASE j = i
      BY <1>5, <1>6, <3>1, <3>2, PutPins
    <3>3. CASE j # i
      <4>1. (Made(t, q)' <=> Made(t, q)) /\ (Gone(t, q)' <=> Gone(t, q))
        BY <1>5, <1>6, <3>1, <3>3, PutPins
      <4>. QED
        BY <1>3, <1>4, <2>1, <3>3, <4>1
    <3>. QED
      BY <3>2, <3>3
  <2>2. CASE r.pc = "unpin" /\ r.i = i - 1 /\ i > 1
    <3>1. \A j \in DOMAIN Order(t) : j < i <=> j <= i - 1
      BY <1>4
    <3>2. i - 1 \in DOMAIN Order(t)
      BY <1>4, <2>2
    <3>. QED
      BY <1>10, <1>15, <2>1, <2>2, <3>1, <3>2 DEF PlaceInv, Place
  <2>3. CASE r.pc = "back" /\ i = 1
    <3>1. \A j \in DOMAIN Order(t) : ~(j < i)
      BY <1>4, <2>3
    <3>2. \A q \in Params(t) : Gone(t, q)'
      BY <2>1, <3>1 DEF Params
    <3>. QED
      BY <1>10, <1>15, <2>3, <3>2 DEF PlaceInv, Place
  <2>. QED
    BY <1>8, <2>2, <2>3
<1>17. StaysInv(t)'
  <2>1. ASSUME NEW q \in Params(t), held'[t][q].obj # NoObject
        PROVE  seen'[t][q] = gen'[held'[t][q].obj]
    <3>1. held'[t][q] = IF q = p THEN [kind |-> "NONE", obj |-> NoObject] ELSE held[t][q]
      BY <1>1, <1>6 DEF TypeInv, Puts
    <3>. QED
      BY <1>1, <1>2, <2>1, <3>1 DEF Each, StaysInv
  <2>. QED
    BY <1>15, <2>1 DEF StaysInv
<1>18. CallInv(t)'
  BY <1>8, <1>10 DEF CallInv
<1>19. GilInv(t)'
  BY <1>2, GilKeeps
<1>20. LayoutIsWhole'
  BY <1>1, <1>2 DEF LayoutIsWhole
<1>. QED
  BY <1>13, <1>14, <1>16, <1>17, <1>18, <1>19, <1>20 DEF OwnInv, Each

-----------------------------------------------------------------------------
(* The rest of the program, and the theorems *)

\* A step of a thread keeps what is known of every thread.
LEMMA ThreadKeeps ==
  ASSUME IInv, NEW t \in Callers, Thread(t)
  PROVE  IInv'
<1>1. OwnInv(t)
  BY EnterKeeps, PinFillKeeps, PinProbeKeeps, PublishKeeps, PinDeclinedKeeps, PinBufferKeeps, CheckOverlapKeeps,
     ExamineKeeps, SaveThreadKeeps, CFunctionKeeps, RestoreThreadKeeps, UnpinBufferKeeps, ReturnKeeps DEF Thread
<1>2. TypeInv' /\ Callers' = Callers
  BY <1>1, TypeKeeps, PlanKeeps DEF IInv, OwnInv, Shape
<1>3. ASSUME NEW u \in Callers
      PROVE  Each(u)'
  BY <1>1, OthersKeep DEF IInv, OwnInv
<1>. QED
  BY <1>1, <1>2, <1>3 DEF IInv, OwnInv

\* What is moved is pinned by no call (numpy's resize, and whoever exports a buffer).
LEMMA ResizeKeeps ==
  ASSUME IInv, NEW x \in DOMAIN gen, Resize(x)
  PROVE  IInv'
<1>1. TypeInv /\ CountInv /\ LayoutIsWhole /\ CaseInv /\ \A t \in Callers : Each(t)
  BY DEF IInv, TypeInv
<1>2. /\ exports[x] = 0 /\ refs[x] = 0 /\ gen' = [gen EXCEPT ![x] = @ + 1]
      /\ UNCHANGED <<build, plan, holder, enabled, layout, th, held, seen, exports, refs>>
  BY DEF Resize, counts
<1>3. x \in Objects /\ gen \in [Objects -> Int]
  BY <1>1 DEF TypeInv
<1>4. /\ Callers' = Callers /\ Objects' = Objects
      /\ \A t : Order(t)' = Order(t) /\ Params(t)' = Params(t)
  BY <1>2, PlanKeeps
<1>5. PinsOn("PEP3118", x) = {} /\ PinsOn("NDARRAY", x) = {}
  BY <1>1, <1>2, <1>3, FS_EmptySet DEF CountInv
<1>6. ASSUME NEW t \in Callers, NEW p \in Params(t), held[t][p].obj # NoObject
      PROVE  held[t][p].obj # x /\ held[t][p].obj \in Objects
  <2>1. PlaceInv(t) /\ th[t].pc \in Places
    BY <1>1 DEF Each, TypeInv
  <2>2. Made(t, p)
    BY <1>1, <1>6, <2>1, MadeOrGone DEF Gone
  <2>3. held[t][p].kind \in {"PEP3118", "NDARRAY"} /\ held[t][p].obj = Arg(t, p).obj
    BY <2>2 DEF Made
  <2>4. <<t, p, held[t][p].obj>> \in PinsOn(held[t][p].kind, held[t][p].obj)
    BY PinIs
  <2>5. held[t][p].obj \in Objects
    BY <1>1, <2>3, CallFacts
  <2>. QED
    BY <1>5, <2>3, <2>4, <2>5
<1>7. ASSUME NEW t \in Callers
      PROVE  Each(t)'
  <2>1. PlaceInv(t)' /\ CallInv(t)'
    BY <1>1, <1>2, PlaceKeeps, CallKeeps DEF Each
  <2>2. GilInv(t)'
    BY <1>1, <1>2 DEF Each, GilInv, InCall
  <2>3. StaysInv(t)'
    <3>1. ASSUME NEW p \in Params(t), held[t][p].obj # NoObject
          PROVE  seen[t][p] = gen'[held[t][p].obj]
      <4>1. held[t][p].obj # x /\ held[t][p].obj \in Objects
        BY <1>6, <3>1
      <4>2. seen[t][p] = gen[held[t][p].obj]
        BY <1>1, <3>1 DEF Each, StaysInv
      <4>. QED
        BY <1>2, <1>3, <4>1, <4>2
    <3>. QED
      BY <1>2, <1>4, <3>1 DEF StaysInv
  <2>. QED
    BY <2>1, <2>2, <2>3 DEF Each
<1>8. CountInv'
  BY <1>1, <1>2, CountKeeps
<1>9. TypeInv'
  <2>1. gen' \in [Objects -> Int]
    BY <1>2, <1>3
  <2>2. CaseInv'
    BY <1>1, <1>2 DEF CaseInv
  <2>3. TypeOK'
    <3>1. DOMAIN gen' = DOMAIN gen
      BY <1>3, <2>1
    <3>. QED
      BY <1>1, <1>2, <1>4, <3>1 DEF TypeInv, TypeOK
  <2>. QED
    BY <1>1, <1>2, <1>4, <2>1, <2>2, <2>3 DEF TypeInv
<1>10. LayoutIsWhole'
  BY <1>1, <1>2 DEF LayoutIsWhole
<1>. QED
  BY <1>4, <1>7, <1>8, <1>9, <1>10 DEF IInv

\* Nothing that is known is about the flag, nor about a step that changes nothing.
LEMMA FlagKeeps ==
  ASSUME IInv, enabled' \in BOOLEAN,
         UNCHANGED <<build, plan, holder, layout, th, held, seen, exports, refs, gen>>
  PROVE  IInv'
<1>1. TypeInv /\ CountInv /\ LayoutIsWhole /\ CaseInv /\ \A t \in Callers : Each(t)
  BY DEF IInv, TypeInv
<1>2. /\ Callers' = Callers /\ Objects' = Objects
      /\ \A t : Order(t)' = Order(t) /\ Params(t)' = Params(t)
  BY PlanKeeps
<1>3. ASSUME NEW t \in Callers
      PROVE  Each(t)'
  <2>1. PlaceInv(t)' /\ CallInv(t)' /\ StaysInv(t)'
    BY <1>1, PlaceKeeps, CallKeeps, StaysKeeps DEF Each
  <2>2. GilInv(t)'
    BY <1>1 DEF Each, GilInv, InCall
  <2>. QED
    BY <2>1, <2>2 DEF Each
<1>4. CountInv' /\ LayoutIsWhole' /\ CaseInv'
  BY <1>1, CountKeeps DEF LayoutIsWhole, CaseInv
<1>5. TypeOK'
  BY <1>1, <1>2 DEF TypeInv, TypeOK
<1>6. TypeInv'
  BY <1>1, <1>2, <1>4, <1>5 DEF TypeInv
<1>. QED
  BY <1>2, <1>3, <1>4, <1>6 DEF IInv

\* At first no call has begun.
LEMMA InitInv == Init => IInv
<1>. SUFFICES ASSUME Init PROVE IInv
  OBVIOUS
<1>1. CaseInv
  BY DEF Init, CaseInv
<1>2. build \in [gil : BOOLEAN, pypy : BOOLEAN] /\ Callers \subseteq Threads
  BY <1>1, WrapperAssumption DEF CaseInv, Callers
<1>3. ASSUME NEW t \in Callers
      PROVE  /\ Len(Order(t)) \in Nat
             /\ th[t] = [pc |-> "out", i |-> 1, save |-> FALSE, err |-> FALSE, ret |-> FALSE]
             /\ \A p \in Params(t) : held[t][p] = Unset
             /\ DOMAIN held[t] = Params(t) /\ DOMAIN seen[t] = Params(t)
  BY <1>1, OrderFacts DEF Init
<1>4. DOMAIN held = Callers /\ DOMAIN seen = Callers
  BY DEF Init
<1>5. th \in [Callers -> [pc : Places, i : Nat, save : BOOLEAN, err : BOOLEAN, ret : BOOLEAN]]
  BY DEF Init, Places
<1>6. exports = [x \in Objects |-> 0] /\ refs = exports /\ gen = exports
  BY DEF Init
<1>7. holder = NoThread /\ enabled \in BOOLEAN /\ layout \in Layouts /\ LayoutIsWhole
  BY DEF Init, Layouts, LayoutIsWhole
<1>8. TypeOK
  <2>1. ASSUME NEW t \in Callers
        PROVE  /\ th[t].pc = "out" /\ th[t].i \in 0 .. Len(Order(t)) + 1
               /\ \A p \in Params(t) : held[t][p].kind = "unset" /\ held[t][p].obj = NoObject
    BY <1>3 DEF Unset
  <2>. QED
    BY <1>2, <1>7, <2>1 DEF TypeOK, Layouts
<1>9. TypeInv
  BY <1>1, <1>3, <1>4, <1>5, <1>6, <1>8 DEF TypeInv
<1>10. CountInv
  <2>1. ASSUME NEW kind \in {"PEP3118", "NDARRAY"}, NEW x
        PROVE  PinsOn(kind, x) = {}
    <3>1. ASSUME NEW q
          PROVE  q \notin PinsOn(kind, x)
      BY <1>3, PinIs DEF Unset
    <3>. QED
      BY <3>1
  <2>. QED
    BY <1>6, <2>1, FS_EmptySet DEF CountInv
<1>11. ASSUME NEW t \in Callers
       PROVE  Each(t)
  <2>1. \A p \in Params(t) : held[t][p].kind = "unset" /\ held[t][p].obj = NoObject
    BY <1>3 DEF Unset
  <2>2. th[t].pc = "out" /\ th[t].i = 1
    BY <1>3
  <2>3. PlaceInv(t)
    BY <2>1, <2>2 DEF PlaceInv, Place, Gone
  <2>4. StaysInv(t) /\ GilInv(t) /\ CallInv(t)
    BY <2>1, <2>2 DEF StaysInv, GilInv, CallInv, InCall
  <2>. QED
    BY <2>3, <2>4 DEF Each
<1>. QED
  BY <1>7, <1>9, <1>10, <1>11 DEF IInv

\* Every step of the program keeps the invariant.
LEMMA NextInv == IInv /\ [Next]_vars => IInv'
<1>. SUFFICES ASSUME IInv, [Next]_vars PROVE IInv'
  OBVIOUS
<1>1. enabled \in BOOLEAN
  BY DEF IInv, TypeInv, TypeOK
<1>2. ASSUME NEW t \in Callers, Thread(t) PROVE IInv'
  BY <1>2, ThreadKeeps
<1>3. ASSUME NEW x \in Movable \intersect DOMAIN gen, Resize(x) PROVE IInv'
  BY <1>3, ResizeKeeps
<1>4. CASE SetRelease
  BY <1>1, <1>4, FlagKeeps DEF SetRelease, counts
<1>5. CASE UNCHANGED vars
  BY <1>1, <1>5, FlagKeeps DEF vars
<1>. QED
  BY <1>2, <1>3, <1>4, <1>5 DEF Next, AllDone

\* The invariant holds in every state of the program (_..._fastcall, c2py_pin, c2py_unpin_buffer).
THEOREM Correct == Spec => []IInv
<1>. QED
  BY InitInv, NextInv, PTL DEF Spec

\* Every variable keeps its type.
THEOREM TypeCorrect == Spec => []TypeOK
<1>1. IInv => TypeOK
  BY DEF IInv, TypeInv
<1>. QED
  BY <1>1, Correct, PTL

\* Whatever is pinned is released once, on every way out of a call (the cleanup of each _..._fastcall).
THEOREM PinsAreReleasedOnce == Spec => []PinsAreAccounted
<1>1. ASSUME IInv PROVE PinsAreAccounted
  <2>1. DOMAIN exports = Objects
    BY <1>1 DEF IInv, TypeInv
  <2>2. \A x \in DOMAIN exports :
           /\ exports[x] = Cardinality({q \in Pins("PEP3118") : q[3] = x})
           /\ refs[x] = Cardinality({q \in Pins("NDARRAY") : q[3] = x})
    BY <1>1, <2>1 DEF IInv, CountInv, PinsOn
  <2>3. ASSUME NEW t \in Callers, ~InCall(t), NEW p \in Params(t)
        PROVE  held[t][p].obj = NoObject
    BY <1>1, <2>3 DEF IInv, Each, PlaceInv, Place, Gone, InCall
  <2>. QED
    BY <2>2, <2>3 DEF PinsAreAccounted
<1>. QED
  BY <1>1, Correct, PTL

\* What a call points into is not moved before the call has let go of it (c2py_pin).
THEOREM PointersStayGood == Spec => []StaysInPlace
<1>1. IInv => StaysInPlace
  BY DEF IInv, Each, StaysInv, StaysInPlace
<1>. QED
  BY <1>1, Correct, PTL

\* Who casts an array knows where its data pointer is (c2py_pin_ndarray).
THEOREM TheLayoutIsWhole == Spec => []LayoutIsWhole
<1>1. IInv => LayoutIsWhole
  BY DEF IInv
<1>. QED
  BY <1>1, Correct, PTL

\* Python is run with the GIL, however the flag is written while a call is under way (_..._impl).
THEOREM NoPythonWithoutTheGil == Spec => []GilIsHeld
<1>1. IInv => GilIsHeld
  BY DEF IInv, Each, GilInv, GilIsHeld
<1>. QED
  BY <1>1, Correct, PTL

\* The C function may write where it writes, and shares nothing that it writes (c2py_check_no_overlap).
THEOREM NothingWrittenIsShared == Spec => []WritesAreItsOwn
<1>1. ASSUME IInv, NEW t \in Callers, th[t].pc = "C", NEW p \in FnOf(t).writes
      PROVE  /\ Arg(t, p).writable
             /\ \A q \in Params(t) \ {p} : BytesOf(Arg(t, p)) \intersect BytesOf(Arg(t, q)) = {}
  <2>1. CaseInv /\ Each(t)
    BY <1>1 DEF IInv, TypeInv
  <2>2. p \in Params(t) /\ p \in FnOf(t).restrict
    BY <2>1, OrderFacts
  <2>3. Arg(t, p).writable
    BY <1>1, <2>1, <2>2 DEF Each, PlaceInv, Place, Made
  <2>4. ASSUME NEW q \in Params(t) \ {p}
        PROVE  BytesOf(Arg(t, p)) \intersect BytesOf(Arg(t, q)) = {}
    <3>1. Order(t) # <<>>
      BY <2>2 DEF Params
    <3>2. ~Overlap(Arg(t, p), Arg(t, q))
      BY <1>1, <2>1, <2>2, <3>1, CallFacts DEF Each, CallInv, NoOverlap, Arg
    <3>3. /\ Arg(t, p).at \in Int /\ Bytes(Arg(t, p)) \in Nat
          /\ Arg(t, q).at \in Int /\ Bytes(Arg(t, q)) \in Nat
      BY <2>1, <2>2, ArrayFacts
    <3>. QED
      BY <3>2, <3>3 DEF Overlap, BytesOf
  <2>. QED
    BY <2>3, <2>4
<1>2. IInv => WritesAreItsOwn
  BY <1>1 DEF WritesAreItsOwn
<1>. QED
  BY <1>2, Correct, PTL

\* Every array is as long as the C function takes it to be, whatever the sizes of a call (_..._impl).
THEOREM TheSizesFit == Spec => []SizesFit
<1>1. ASSUME IInv, NEW t \in Callers, th[t].pc = "C"
      PROVE  LET c == CallOf(t)
             IN  /\ \A p \in Params(t) : Bytes(c.a[p]) >= Needs(c.a, c.v, p)
                 /\ "top" \in Params(t) /\ Count(c.a.top) > 0 /\ TopFromArgs(Count(c.a.top), c.top)
                       => Bytes(c.a.top) >= 8 * (2 + c.top[2])
                 /\ \A i \in DOMAIN c.v : IsInt(c.v[i]) \/ i = "block_elems"
  <2>. DEFINE c == CallOf(t)
  <2>1. CaseInv /\ Accepted(c.fn, c.a, c.v)
    BY <1>1 DEF IInv, TypeInv, Each, CallInv
  <2>2. c.fn \in DOMAIN Methods /\ WellFormed(c) /\ DOMAIN c.a = Params(t)
    BY <2>1, CallFacts
  <2>. HIDE DEF c
  <2>3. Given(Methods[c.fn], c.a, c.v)
    BY <2>2 DEF Given, Sized, WellFormed
  <2>4. /\ \A p \in DOMAIN c.a : Fits(c.a, c.v, p)
        /\ \A i \in DOMAIN c.v : IsInt(c.v[i]) \/ i = "block_elems"
        /\ "top" \in DOMAIN c.a => c.a.top.size = 8
    BY <2>1, <2>2, <2>3, AcceptedFits
  <2>5. ASSUME "top" \in DOMAIN c.a, Count(c.a.top) > 0, TopFromArgs(Count(c.a.top), c.top)
        PROVE  Bytes(c.a.top) >= 8 * (2 + c.top[2])
    <3>1. WellFormedArray(c.a.top) /\ Count(c.a.top) \in Nat /\ c.top[2] \in Int
      BY <2>2, <2>5, CountFacts DEF WellFormed
    <3>2. 2 + c.top[2] <= Count(c.a.top) /\ 2 + c.top[2] \in Int
      BY <2>5, <3>1 DEF TopFromArgs
    <3>. QED
      BY <2>4, <2>5, <3>1, <3>2, Elements
  <2>. QED
    BY <2>2, <2>4, <2>5 DEF Fits, c
<1>2. IInv => SizesFit
  BY <1>1 DEF SizesFit
<1>. QED
  BY <1>2, Correct, PTL

\* Every array is flat, of any number of dimensions: what the C function takes as one run of elements has
\* all of them, each at a multiple of the size, and nothing else (c2py_check_contiguity).
THEOREM TheArgumentsAreFlat == Spec => []ArgumentsAreFlat
<1>1. ASSUME IInv, NEW t \in Callers, th[t].pc = "C", NEW p \in Params(t)
      PROVE  Flat(Arg(t, p))
  <2>. DEFINE c == CallOf(t)
  <2>1. CaseInv /\ Accepted(c.fn, c.a, c.v)
    BY <1>1 DEF IInv, TypeInv, Each, CallInv
  <2>2. WellFormed(c) /\ DOMAIN c.a = Params(t)
    BY <2>1, CallFacts
  <2>. HIDE DEF c
  <2>3. p \in DOMAIN c.a /\ WellFormedArray(c.a[p])
    BY <2>2 DEF WellFormed
  <2>4. Contiguous(c.a[p])
    BY <2>1, <2>3 DEF Accepted
  <2>5. Flat(c.a[p])
    BY <2>3, <2>4, ContiguousIsFlat
  <2>. QED
    BY <2>5 DEF Arg, c
<1>2. IInv => ArgumentsAreFlat
  BY <1>1 DEF ArgumentsAreFlat
<1>. QED
  BY <1>2, Correct, PTL

=============================================================================
