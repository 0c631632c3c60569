------------------------------- MODULE MCEMFC -------------------------------
(***************************************************************************)
(* The forwarding layer with an arbitrary caller, for TLC.                 *)
(***************************************************************************)
EXTENDS EMFC, TLC

Symmetry == Permutations(Group) \cup Permutations(Iface) \cup Permutations(MgrpPtr)
=============================================================================
