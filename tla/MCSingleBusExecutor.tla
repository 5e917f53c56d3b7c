------------------------- MODULE MCSingleBusExecutor -------------------------
(***************************************************************************)
(* SingleBusExecutor for TLC.  Devices are interchangeable, and so are the *)
(* clients; the runs of liveness properties do without symmetry.           *)
(***************************************************************************)
EXTENDS SingleBusExecutor, TLC

Symmetry == Permutations(Devices) \cup Permutations(Clients)
=============================================================================
