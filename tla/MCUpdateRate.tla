---------------------------- MODULE MCUpdateRate ----------------------------
(***************************************************************************)
(* UpdateRate for TLC: a second of ten nanoseconds, a period of five.      *)
(***************************************************************************)
EXTENDS UpdateRate
=============================================================================
