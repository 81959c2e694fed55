---------------------------- MODULE MCResetLoop ----------------------------
(***************************************************************************)
(* Instances of ResetLoop for TLC: two threads stand for any number.       *)
(***************************************************************************)
EXTENDS ResetLoop

CONSTANTS t1, t2
=============================================================================
