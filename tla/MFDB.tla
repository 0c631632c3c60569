-------------------------------- MODULE MFDB --------------------------------
(***************************************************************************)
(* What the forwarding database promises its callers: a reference count    *)
(* for every group and interface, raised by an add, lowered by a delete    *)
(* that finds the pair, zeroed by a clear.  No hash table, no heap and no  *)
(* cache.                                                                  *)
(***************************************************************************)
EXTENDS Naturals

CONSTANTS Group, Iface

VARIABLE ref

MInit == ref = [g \in Group |-> [i \in Iface |-> 0]]

Add(g, i) == ref' = [ref EXCEPT ![g][i] = @ + 1]

Del(g, i) == ref[g][i] > 0 /\ ref' = [ref EXCEPT ![g][i] = @ - 1]

Clear == ref' = [g \in Group |-> [i \in Iface |-> 0]]

MNext == (\E g \in Group, i \in Iface : Add(g, i) \/ Del(g, i)) \/ Clear

MSpec == MInit /\ [][MNext]_ref
=============================================================================
