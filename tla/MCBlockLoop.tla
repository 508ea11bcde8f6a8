---------------------------- MODULE MCBlockLoop ----------------------------
(***************************************************************************)
(* An instance of BlockLoop for TLC: pairs of frames of two blocks and a   *)
(* tail, with a mask; every kind of thresholds and limit, with and without *)
(* a powder.  A pixel of 1 is at or above the cut, one of 2 above it.      *)
(***************************************************************************)
EXTENDS BlockLoop

OneOrTwo  == 1 .. 2
OneMasked == {1}

\* Thresholds below, at and above the cut, equal ones, fractions (in halves), and none.
Thresholds ==
    {<<>>, <<2>>, <<5>>, <<1, 3>>, <<2, 2>>, <<2, 4>>, <<-1, 3, 4>>, <<3, 4, 5>>}
Limited(cuts, howmanys, thrs, dots) ==
    [cut : cuts, top : {TRUE}, howmany : howmanys, thr : thrs, dot : dots]
Unlimited(cuts) ==
    [cut : cuts, top : {FALSE}, howmany : {0}, thr : {<<>>}, dot : BOOLEAN]

EveryRequest ==
    Limited(0 .. 1, 0 .. 3, Thresholds, {FALSE})
        \cup Limited({0}, {1}, {<<1, 3>>, <<2, 4>>, <<3>>, <<3, 4, 5>>}, {TRUE})
        \cup Unlimited({0, 1})
=============================================================================
