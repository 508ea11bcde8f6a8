------------------------------ MODULE Folding ------------------------------
(***************************************************************************)
(* What a fold from left to right keeps, for whatever step: Op(c, d, a, x) *)
(* is what x makes of a, in a context of c and d, and Inv(c, d, e, a, k)   *)
(* what is true of the result after the first k elements (e is what the    *)
(* invariant has to know and the step does not).  A proof INSTANCEs this   *)
(* module with its step and its invariant; Fold is what the FoldLeft of    *)
(* the community modules is by its definition, a function on sets of       *)
(* positions, and that the function exists is what takes the work.         *)
(* FoldNone and FoldLast say of it what a recursive definition would.      *)
(*                                                                         *)
(* An INSTANCE copies all that the module extends, and the proofs about    *)
(* the kernels have sixteen: it extends Integers alone, Greatest is the    *)
(* Max of the community modules, and induction on numbers is a hypothesis  *)
(* of its lemmas, a theorem where it is used.                              *)
(***************************************************************************)
EXTENDS Integers

CONSTANTS Op(_, _, _, _), Inv(_, _, _, _, _)

Greatest(T) == CHOOSE x \in T : \A y \in T : x >= y

Fold(c, d, base, s) ==
    LET iter[T \in SUBSET DOMAIN s] == IF T = {} THEN base ELSE Op(c, d, iter[T \ {Greatest(T)}], s[Greatest(T)])
    IN  iter[DOMAIN s]

\* What iter is: a function that follows the equation on every set of positions.
Follows(c, d, base, s, iter, D) ==
    iter = [T \in D |-> IF T = {} THEN base ELSE Op(c, d, iter[T \ {Greatest(T)}], s[Greatest(T)])]

\* Induction: what holds of 0 and of k + 1 with k holds of every number.
Counted == \A S : 0 \in S /\ (\A k \in Nat : k \in S => k + 1 \in S) => Nat \subseteq S

-----------------------------------------------------------------------------

\* A set of natural numbers has a least one.
LEMMA LeastNumber ==
    ASSUME Counted, NEW S, S \subseteq Nat, S # {}
    PROVE  \E n \in S : \A m \in S : n <= m
  <1> SUFFICES ASSUME \A n \in S : \E m \in S : ~ (n <= m) PROVE FALSE
    OBVIOUS
  <1> DEFINE T == {k \in Nat : \A m \in S : k <= m}
  <1>1. 0 \in T
    OBVIOUS
  <1>2. ASSUME NEW k \in Nat, k \in T PROVE k + 1 \in T
    <2>1. k \notin S
      BY <1>2
    <2>2. ASSUME NEW m \in S PROVE k + 1 <= m
      BY <1>2, <2>1
    <2> QED
      BY <2>2
  <1>3. Nat \subseteq T
    <2> HIDE DEF T
    <2> QED
      BY <1>1, <1>2 DEF Counted
  <1>4. PICK n \in S : TRUE
    OBVIOUS
  <1>5. n + 1 \in T
    BY <1>3
  <1> QED
    BY <1>5

\* The greatest of a set of positions is in it.
LEMMA GreatestPosition ==
    ASSUME Counted, NEW n \in Nat, NEW T \in SUBSET (1 .. n), T # {}
    PROVE  Greatest(T) \in T /\ \A y \in T : Greatest(T) >= y
  <1> DEFINE D == {n - x : x \in T}
  <1>1. D \subseteq Nat /\ D # {}
    <2>1. ASSUME NEW x \in T PROVE n - x \in Nat
      <3>1. x \in 1 .. n
        OBVIOUS
      <3> QED
        BY <3>1
    <2>2. PICK x \in T : TRUE
      OBVIOUS
    <2>3. n - x \in D
      BY <2>2
    <2> QED
      BY <2>1, <2>3
  <1>2. PICK m \in D : \A e \in D : m <= e
    BY <1>1, LeastNumber
  <1>3. PICK x \in T : m = n - x
    BY <1>2
  <1>4. ASSUME NEW y \in T PROVE x >= y
    <2>1. n - y \in D /\ m <= n - y
      BY <1>2
    <2> QED
      BY <1>3, <2>1
  <1>5. \E z \in T : \A y \in T : z >= y
    BY <1>4
  <1> QED
    BY <1>5 DEF Greatest

\* The greatest of the first k positions, and of those with k + 1 among them.
LEMMA GreatestIs ==
    ASSUME Counted, NEW n \in Nat, NEW T \in SUBSET (1 .. n + 1), n + 1 \in T
    PROVE  Greatest(T) = n + 1
  <1>1. n + 1 \in Nat /\ T # {}
    OBVIOUS
  <1>2. Greatest(T) \in T /\ Greatest(T) >= n + 1
    BY <1>1, GreatestPosition
  <1>3. Greatest(T) \in 1 .. n + 1
    BY <1>2
  <1> HIDE DEF Greatest
  <1> QED
    BY <1>2, <1>3

\* A function that follows the equation on the sets of the first n + 1 positions, from one on the first n.
LEMMA FollowsStep ==
    ASSUME Counted, NEW c, NEW d, NEW base, NEW s, NEW n \in Nat, NEW g, Follows(c, d, base, s, g, SUBSET (1 .. n))
    PROVE  \E h : Follows(c, d, base, s, h, SUBSET (1 .. n + 1))
  <1> DEFINE h == [T \in SUBSET (1 .. n + 1) |->
                     IF n + 1 \in T THEN Op(c, d, g[T \ {n + 1}], s[n + 1]) ELSE g[T]]
             e(T) == IF T = {} THEN base ELSE Op(c, d, h[T \ {Greatest(T)}], s[Greatest(T)])
  <1>1. ASSUME NEW T \in SUBSET (1 .. n + 1) PROVE h[T] = e(T)
    <2>1. CASE n + 1 \in T
      <3>1. Greatest(T) = n + 1 /\ T # {}
        BY <2>1, GreatestIs
      <3>2. T \ {n + 1} \in SUBSET (1 .. n + 1) /\ n + 1 \notin T \ {n + 1}
        OBVIOUS
      <3>3. h[T \ {n + 1}] = g[T \ {n + 1}]
        BY <3>2
      <3>4. h[T] = Op(c, d, g[T \ {n + 1}], s[n + 1])
        BY <2>1
      <3> HIDE DEF h
      <3> QED
        BY <3>1, <3>3, <3>4
    <2>2. CASE n + 1 \notin T
      <3>1. T \in SUBSET (1 .. n)
        BY <2>2
      <3>2. h[T] = g[T]
        BY <2>2
      <3>3. g[T] = IF T = {} THEN base ELSE Op(c, d, g[T \ {Greatest(T)}], s[Greatest(T)])
        BY <3>1 DEF Follows
      <3>4. CASE T # {}
        <4>1. T \ {Greatest(T)} \in SUBSET (1 .. n + 1) /\ n + 1 \notin T \ {Greatest(T)}
          BY <2>2
        <4>2. h[T \ {Greatest(T)}] = g[T \ {Greatest(T)}]
          BY <4>1
        <4> HIDE DEF h
        <4> QED
          BY <3>2, <3>3, <3>4, <4>2
      <3>5. CASE T = {}
        <4> HIDE DEF h
        <4> QED
          BY <3>2, <3>3, <3>5
      <3> QED
        BY <3>4, <3>5
    <2> QED
      BY <2>1, <2>2
  <1>2. h = [T \in SUBSET (1 .. n + 1) |-> h[T]]
    OBVIOUS
  <1> HIDE DEF h
  <1>3. h = [T \in SUBSET (1 .. n + 1) |-> e(T)]
    BY <1>1, <1>2
  <1>4. Follows(c, d, base, s, h, SUBSET (1 .. n + 1))
    BY <1>3 DEF Follows
  <1> QED
    BY <1>4

\* There is one on the sets of the first n positions, for every n.
LEMMA FollowsExists ==
    ASSUME Counted, NEW c, NEW d, NEW base, NEW s, NEW n \in Nat
    PROVE  \E g : Follows(c, d, base, s, g, SUBSET (1 .. n))
  <1> DEFINE S == {k \in Nat : \E g : Follows(c, d, base, s, g, SUBSET (1 .. k))}
  <1>1. 0 \in S
    <2> DEFINE g == [T \in SUBSET (1 .. 0) |-> base]
    <2>1. ASSUME NEW T \in SUBSET (1 .. 0) PROVE T = {}
      OBVIOUS
    <2>2. g = [T \in SUBSET (1 .. 0) |-> IF T = {} THEN base ELSE Op(c, d, g[T \ {Greatest(T)}], s[Greatest(T)])]
      BY <2>1
    <2> HIDE DEF g
    <2>3. Follows(c, d, base, s, g, SUBSET (1 .. 0))
      BY <2>2 DEF Follows
    <2> QED
      BY <2>3
  <1>2. ASSUME NEW k \in Nat, k \in S PROVE k + 1 \in S
    <2>1. PICK g : Follows(c, d, base, s, g, SUBSET (1 .. k))
      BY <1>2
    <2>2. \E h : Follows(c, d, base, s, h, SUBSET (1 .. k + 1))
      BY <2>1, FollowsStep
    <2> QED
      BY <2>2
  <1> HIDE DEF S
  <1>3. n \in S
    BY <1>1, <1>2 DEF Counted
  <1> QED
    BY <1>3 DEF S

\* Such a function goes from the first k positions to the first k + 1 by a step.
Stepwise(c, d, base, s, iter, n) ==
    /\ iter[1 .. 0] = base
    /\ \A k \in Nat : k + 1 <= n => iter[1 .. k + 1] = Op(c, d, iter[1 .. k], s[k + 1])

LEMMA FollowsNext ==
    ASSUME Counted, NEW c, NEW d, NEW base, NEW s, NEW n \in Nat, NEW iter,
           Follows(c, d, base, s, iter, SUBSET (1 .. n))
    PROVE  Stepwise(c, d, base, s, iter, n)
  <1>1. iter[1 .. 0] = base
    <2>1. 1 .. 0 = {} /\ {} \in SUBSET (1 .. n)
      OBVIOUS
    <2>2. iter[{}] = base
      BY <2>1 DEF Follows
    <2> QED
      BY <2>1, <2>2
  <1>2. ASSUME NEW k \in Nat, k + 1 <= n PROVE iter[1 .. k + 1] = Op(c, d, iter[1 .. k], s[k + 1])
    <2>1. 1 .. k + 1 \in SUBSET (1 .. n) /\ 1 .. k + 1 \in SUBSET (1 .. k + 1) /\ k + 1 \in 1 .. k + 1
      BY <1>2
    <2>2. Greatest(1 .. k + 1) = k + 1
      BY <2>1, GreatestIs
    <2>3. (1 .. k + 1) \ {k + 1} = 1 .. k
      <3>1. ASSUME NEW x PROVE x \in (1 .. k + 1) \ {k + 1} <=> x \in 1 .. k
        OBVIOUS
      <3> QED
        BY <3>1
    <2> QED
      BY <2>1, <2>2, <2>3 DEF Follows
  <1> QED
    BY <1>1, <1>2 DEF Stepwise

\* A fold keeps the invariant of its steps.
LEMMA FoldKeeps ==
    ASSUME Counted, NEW c, NEW d, NEW e, NEW base, NEW n \in Nat, NEW s, DOMAIN s = 1 .. n,
           Inv(c, d, e, base, 0),
           \A k \in 1 .. n : \A a : Inv(c, d, e, a, k - 1) => Inv(c, d, e, Op(c, d, a, s[k]), k)
    PROVE  Inv(c, d, e, Fold(c, d, base, s), n)
  <1> DEFINE iter == CHOOSE g : Follows(c, d, base, s, g, SUBSET (1 .. n))
  <1>1. Follows(c, d, base, s, iter, SUBSET (1 .. n))
    BY FollowsExists
  <1>2. Fold(c, d, base, s) = iter[1 .. n]
    BY DEF Fold, Follows
  <1> HIDE DEF iter
  <1>a. Stepwise(c, d, base, s, iter, n)
    BY <1>1, FollowsNext
  <1> DEFINE S == {k \in Nat : k <= n => Inv(c, d, e, iter[1 .. k], k)}
  <1>3. 0 \in S
    BY <1>a DEF Stepwise
  <1>4. ASSUME NEW k \in Nat, k \in S PROVE k + 1 \in S
    <2> SUFFICES ASSUME k + 1 <= n PROVE Inv(c, d, e, iter[1 .. k + 1], k + 1)
      OBVIOUS
    <2>1. Inv(c, d, e, iter[1 .. k], k)
      BY <1>4
    <2>2. iter[1 .. k + 1] = Op(c, d, iter[1 .. k], s[k + 1])
      BY <1>a DEF Stepwise
    <2>3. k + 1 \in 1 .. n /\ (k + 1) - 1 = k
      OBVIOUS
    <2>4. Inv(c, d, e, Op(c, d, iter[1 .. k], s[k + 1]), k + 1)
      BY <2>1, <2>3
    <2> QED
      BY <2>2, <2>4
  <1> HIDE DEF S
  <1>5. n \in S
    BY <1>3, <1>4 DEF Counted
  <1> QED
    BY <1>2, <1>5 DEF S

\* Nothing to fold.
LEMMA FoldNone ==
    ASSUME Counted, NEW c, NEW d, NEW base, NEW s, DOMAIN s = 1 .. 0
    PROVE  Fold(c, d, base, s) = base
  <1> DEFINE iter == CHOOSE g : Follows(c, d, base, s, g, SUBSET (1 .. 0))
  <1>1. Follows(c, d, base, s, iter, SUBSET (1 .. 0))
    <2>1. 0 \in Nat
      OBVIOUS
    <2> QED
      BY <2>1, FollowsExists
  <1>2. Fold(c, d, base, s) = iter[1 .. 0]
    BY DEF Fold, Follows
  <1> HIDE DEF iter
  <1>3. Stepwise(c, d, base, s, iter, 0)
    BY <1>1, FollowsNext
  <1> QED
    BY <1>2, <1>3 DEF Stepwise

\* The last element is folded in last.
LEMMA FoldLast ==
    ASSUME Counted, NEW c, NEW d, NEW base, NEW n \in Nat, NEW s, DOMAIN s = 1 .. n + 1,
           NEW t, DOMAIN t = 1 .. n, \A k \in 1 .. n : t[k] = s[k]
    PROVE  Fold(c, d, base, s) = Op(c, d, Fold(c, d, base, t), s[n + 1])
  <1> DEFINE f == CHOOSE h : Follows(c, d, base, s, h, SUBSET (1 .. n + 1))
             g == CHOOSE h : Follows(c, d, base, t, h, SUBSET (1 .. n))
  <1>1. Follows(c, d, base, s, f, SUBSET (1 .. n + 1))
    <2>1. n + 1 \in Nat
      OBVIOUS
    <2> QED
      BY <2>1, FollowsExists
  <1>2. Follows(c, d, base, t, g, SUBSET (1 .. n))
    BY FollowsExists
  <1>3. Fold(c, d, base, s) = f[1 .. n + 1] /\ Fold(c, d, base, t) = g[1 .. n]
    BY DEF Fold, Follows
  <1> HIDE DEF f, g
  <1>a. Stepwise(c, d, base, s, f, n + 1)
    <2>1. n + 1 \in Nat
      OBVIOUS
    <2> QED
      BY <1>1, <2>1, FollowsNext
  <1>b. Stepwise(c, d, base, t, g, n)
    BY <1>2, FollowsNext
  <1> DEFINE S == {k \in Nat : k <= n => f[1 .. k] = g[1 .. k]}
  <1>4. 0 \in S
    BY <1>a, <1>b DEF Stepwise
  <1>5. ASSUME NEW k \in Nat, k \in S PROVE k + 1 \in S
    <2> SUFFICES ASSUME k + 1 <= n PROVE f[1 .. k + 1] = g[1 .. k + 1]
      OBVIOUS
    <2>1. f[1 .. k + 1] = Op(c, d, f[1 .. k], s[k + 1])
      BY <1>a DEF Stepwise
    <2>2. g[1 .. k + 1] = Op(c, d, g[1 .. k], t[k + 1])
      BY <1>b DEF Stepwise
    <2>3. f[1 .. k] = g[1 .. k] /\ t[k + 1] = s[k + 1]
      BY <1>5
    <2> QED
      BY <2>1, <2>2, <2>3
  <1> HIDE DEF S
  <1>6. n \in S
    BY <1>4, <1>5 DEF Counted
  <1>7. f[1 .. n] = g[1 .. n]
    BY <1>6 DEF S
  <1>8. f[1 .. n + 1] = Op(c, d, f[1 .. n], s[n + 1])
    BY <1>a DEF Stepwise
  <1> QED
    BY <1>3, <1>7, <1>8
=============================================================================
