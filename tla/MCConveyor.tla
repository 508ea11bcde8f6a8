----------------------------- MODULE MCConveyor -----------------------------
(* Instances of Conveyor for TLC: which calls may go wrong in each run. *)
EXTENDS Conveyor

AnythingFails == {"make", "decode", "end", "pin", "read", "timeout"}
BeginFails    == {"make"}
TimesOut      == {"timeout"}
Nobody        == {}
First         == {0}
=============================================================================
