----------------------------- MODULE MCIterate ------------------------------
(* An instance of Iterate for TLC: its constants are numbers, given in the configuration. *)
EXTENDS Iterate
=============================================================================
