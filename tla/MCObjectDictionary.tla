------------------------- MODULE MCObjectDictionary -------------------------
(***************************************************************************)
(* ObjectDictionary for TLC: objects, buffers, indices and names are       *)
(* interchangeable.                                                        *)
(***************************************************************************)
EXTENDS ObjectDictionary, TLC

Symmetry ==
    Permutations(Objects) \cup Permutations(Buffers)
        \cup Permutations(Indices) \cup Permutations(Names)
=============================================================================
