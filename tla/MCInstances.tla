----------------------------- MODULE MCInstances -----------------------------
(***************************************************************************)
(* Two bridges, for TLC.                                                   *)
(***************************************************************************)
EXTENDS Instances, TLC

Symmetry == Permutations(Bridge) \cup Permutations(Dev) \cup Permutations(EmfPtr)
            \cup Permutations(IgsPtr)
=============================================================================
