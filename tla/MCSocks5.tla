------------------------------ MODULE MCSocks5 ------------------------------
(* Instance of Socks5 for TLC: the slots are interchangeable. *)
EXTENDS Socks5, TLC

Symmetry == Permutations(Slots)
=============================================================================
