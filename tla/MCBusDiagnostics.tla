-------------------------- MODULE MCBusDiagnostics --------------------------
(***************************************************************************)
(* BusDiagnostics for TLC.                                                 *)
(***************************************************************************)
EXTENDS BusDiagnostics
=============================================================================
