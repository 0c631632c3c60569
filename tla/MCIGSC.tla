------------------------------- MODULE MCIGSC -------------------------------
(***************************************************************************)
(* Snooping on one instance, for TLC.                                      *)
(***************************************************************************)
EXTENDS IGSC, TLC

Symmetry == Permutations(Group) \cup Permutations(Iface) \cup Permutations(MgrpPtr)
            \cup Permutations(Host) \cup Permutations(Router)
=============================================================================
