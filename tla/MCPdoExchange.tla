--------------------------- MODULE MCPdoExchange ---------------------------
(***************************************************************************)
(* PdoExchange for TLC.                                                    *)
(***************************************************************************)
EXTENDS PdoExchange
=============================================================================
