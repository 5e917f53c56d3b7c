------------------------ MODULE MCThreadSafeCallers ------------------------
(***************************************************************************)
(* ThreadSafeCallers for TLC: threads in the same role, and devices, are   *)
(* interchangeable.                                                        *)
(***************************************************************************)
EXTENDS ThreadSafeCallers, TLC

Symmetry ==
    Permutations(Devices) \cup Permutations(RtCallers) \cup Permutations(ServiceCallers)
=============================================================================
