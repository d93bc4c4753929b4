--------------------------- MODULE MCSelectorLoop ---------------------------
(* Instance of SelectorLoop for TLC: the sessions are interchangeable. *)
EXTENDS SelectorLoop, TLC

Symmetry == Permutations(Slots)
=============================================================================
