------------------------------ MODULE MCIflist ------------------------------
(***************************************************************************)
(* The interface list at the grain of its locks, for TLC.                  *)
(***************************************************************************)
EXTENDS Iflist

Symmetry == Permutations(Iface) \cup Permutations(Ptr)
=============================================================================
