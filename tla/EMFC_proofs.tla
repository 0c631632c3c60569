----------------------------- MODULE EMFC_proofs -----------------------------
(***************************************************************************)
(* Proofs about the forwarding layer, for every set of groups, interfaces  *)
(* and heap addresses and every order of calls.                            *)
(***************************************************************************)
EXTENDS EMFC, TLAPS

\* The inductive invariant of the database.  LookupExact is not inductive: it
\* says nothing of the cached address itself, which CacheCoherent does; and
\* OneEntryPerGroup makes the walk of a chain unambiguous.
MfdbInv == MfdbTypeOK /\ CacheCoherent /\ NoEmptyGroup /\ OneEntryPerGroup

-----------------------------------------------------------------------------
(***************************************************************************)
(* Lemmas on the operators.                                                *)
(***************************************************************************)

\* Counts stay in range; below the bound they do not wrap.
LEMMA RefArith ==
  ASSUME NEW n \in Ref
  PROVE  /\ Incr(n) \in Ref
         /\ Decr(n) \in Ref
         /\ n < MaxRef => Incr(n) = n + 1
         /\ n # 0 => Decr(n) = n - 1
  BY EmfcAssumption DEF Ref, Incr, Decr

\* A lookup returns the live entry of its group, or NULL if there is none.
LEMMA LookupResult ==
  ASSUME MfdbTypeOK, CacheCoherent, NEW g \in Group
  PROVE  \/ group_find(g) = NULL /\ Chain(g) = {}
         \/ group_find(g) \in MgrpPtr /\ mgrp_ip[group_find(g)] = g
<1> USE EmfcAssumption DEF MfdbTypeOK
<1>1. CASE mgrp_cache_ip = g
  BY <1>1 DEF CacheCoherent, group_find
<1>2. CASE mgrp_cache_ip # g /\ Chain(g) = {}
  BY <1>2 DEF group_find
<1>3. CASE mgrp_cache_ip # g /\ Chain(g) # {}
  <2>1. group_find(g) = CHOOSE p \in Chain(g) : TRUE
    BY <1>3 DEF group_find
  <2>2. group_find(g) \in Chain(g)
    BY <1>3, <2>1
  <2> QED
    BY <2>2 DEF Chain
<1> QED
  BY <1>1, <1>2, <1>3

\* What a lookup leaves in the cache is coherent with an unchanged database.
LEMMA FoundCoherent ==
  ASSUME MfdbTypeOK, CacheCoherent, NEW g \in Group
  PROVE  /\ FoundIp(g) \in Group \cup {NULL}
         /\ FoundPtr(g) \in MgrpPtr \cup {NULL}
         /\ FoundIp(g) # NULL =>
              FoundPtr(g) \in MgrpPtr /\ mgrp_ip[FoundPtr(g)] = FoundIp(g)
         /\ group_find(g) # NULL => FoundIp(g) = g /\ FoundPtr(g) = group_find(g)
  BY LookupResult, EmfcAssumption DEF FoundIp, FoundPtr, MfdbTypeOK, CacheCoherent

\* An operation that leaves the entries alone and the cache coherent.
LEMMA CacheOnly ==
  ASSUME MfdbInv, MfdbTypeOK', CacheCoherent', UNCHANGED <<mgrp_ip, mi_ref>>
  PROVE  MfdbInv'
  BY DEF MfdbInv, NoEmptyGroup, OneEntryPerGroup, Members

-----------------------------------------------------------------------------
(***************************************************************************)
(* Each operation keeps the invariant.                                     *)
(***************************************************************************)

\* A step that is only a lookup, emfc_input() for a data frame for one.
LEMMA LookupStep ==
  ASSUME MfdbInv, NEW g \in Group,
         mgrp_cache_ip' = FoundIp(g), mgrp_cache' = FoundPtr(g),
         UNCHANGED <<mgrp_ip, mi_ref, mhif>>
  PROVE  MfdbInv'
<1>1. MfdbTypeOK' /\ CacheCoherent'
  BY FoundCoherent DEF MfdbInv, MfdbTypeOK, CacheCoherent
<1> QED
  BY <1>1, CacheOnly

\* Only the entry at p changed, and it has a member afterwards.
LEMMA GrowStep ==
  ASSUME MfdbInv, NEW p \in MgrpPtr, NEW i \in Iface, NEW n \in Ref, n # 0,
         mi_ref' = [mi_ref EXCEPT ![p][i] = n],
         \A q \in MgrpPtr : q # p => mgrp_ip'[q] = mgrp_ip[q],
         mgrp_ip'[p] # NULL
  PROVE  NoEmptyGroup'
<1>1. \A q \in MgrpPtr : q # p => Members(q)' = Members(q)
  BY DEF Members, MfdbInv, MfdbTypeOK
<1>2. i \in Members(p)'
  BY DEF Members, MfdbInv, MfdbTypeOK
<1> QED
  BY <1>1, <1>2 DEF NoEmptyGroup, MfdbInv

\* emfc_mfdb_membership_add() on a group that has an entry.
LEMMA AddToGroupStep ==
  ASSUME MfdbInv, NEW g \in Group, NEW i \in Iface, AddToGroup(g, i)
  PROVE  MfdbInv'
<1>1. PICK p \in MgrpPtr : p = group_find(g) /\ mgrp_ip[p] = g
  BY LookupResult DEF AddToGroup, MfdbInv
<1>2. mi_ref[p][i] \in Ref /\ mi_ref[p][i] < MaxRef
  BY <1>1 DEF AddToGroup, MfdbInv, MfdbTypeOK
<1>3. PICK n \in Ref : n # 0 /\ mi_ref' = [mi_ref EXCEPT ![p][i] = n]
  <2>1. Incr(mi_ref[p][i]) \in Ref /\ Incr(mi_ref[p][i]) = mi_ref[p][i] + 1
    BY <1>2, RefArith
  <2>2. Incr(mi_ref[p][i]) # 0
    BY <1>2, <2>1, EmfcAssumption DEF Ref
  <2>3. mi_ref' = [mi_ref EXCEPT ![p][i] = Incr(mi_ref[p][i])]
    BY <1>1 DEF AddToGroup
  <2> QED
    BY <2>1, <2>2, <2>3
<1>4. mgrp_ip' = mgrp_ip /\ mgrp_cache_ip' = g /\ mgrp_cache' = p
  BY <1>1 DEF AddToGroup
<1>5. mhif' \in SUBSET Iface
  BY DEF AddToGroup, mhif_add, MfdbInv, MfdbTypeOK
<1>6. MfdbTypeOK' /\ CacheCoherent'
  BY <1>1, <1>3, <1>4, <1>5 DEF MfdbInv, MfdbTypeOK, CacheCoherent
<1>7. NoEmptyGroup'
  BY <1>1, <1>3, <1>4, GrowStep, EmfcAssumption
<1> QED
  BY <1>4, <1>6, <1>7 DEF MfdbInv, OneEntryPerGroup

\* emfc_mfdb_membership_add() making a group entry at a free, possibly reused,
\* address: the cache cannot hold that address, since it is not live.
LEMMA AddGroupStep ==
  ASSUME MfdbInv, NEW g \in Group, NEW i \in Iface, AddGroup(g, i)
  PROVE  MfdbInv'
<1>1. Chain(g) = {}
  BY LookupResult, EmfcAssumption DEF AddGroup, MfdbInv
<1>2. PICK q \in Chain(NULL) : /\ mgrp_ip' = [mgrp_ip EXCEPT ![q] = g]
                               /\ mi_ref' = [mi_ref EXCEPT ![q][i] = 1]
  BY DEF AddGroup
<1>3. q \in MgrpPtr /\ mgrp_ip[q] = NULL
  BY DEF Chain
<1>4. 1 \in Ref
  BY EmfcAssumption DEF Ref
<1>5. mhif' \in SUBSET Iface /\ UNCHANGED <<mgrp_cache_ip, mgrp_cache>>
  BY DEF AddGroup, mhif_add, MfdbInv, MfdbTypeOK
<1>6. MfdbTypeOK'
  BY <1>2, <1>3, <1>4, <1>5 DEF MfdbInv, MfdbTypeOK
<1>7. CacheCoherent'
  BY <1>2, <1>3, <1>5 DEF MfdbInv, MfdbTypeOK, CacheCoherent
<1>8. NoEmptyGroup'
  <2>1. mgrp_ip'[q] # NULL /\ \A r \in MgrpPtr : r # q => mgrp_ip'[r] = mgrp_ip[r]
    BY <1>2, <1>3, EmfcAssumption DEF MfdbInv, MfdbTypeOK
  <2>2. PICK n \in Ref : n = 1
    BY <1>4
  <2>3. n # 0
    BY <2>2
  <2>4. mi_ref' = [mi_ref EXCEPT ![q][i] = n]
    BY <1>2, <2>2
  <2> QED
    BY <1>3, <2>1, <2>3, <2>4, GrowStep
<1>9. OneEntryPerGroup'
  BY <1>1, <1>2, <1>3 DEF MfdbInv, MfdbTypeOK, OneEntryPerGroup, Chain
<1> QED
  BY <1>6, <1>7, <1>8, <1>9 DEF MfdbInv

\* emfc_mfdb_membership_add() returning FAILURE undoes the group entry it made.
LEMMA AddFailsStep ==
  ASSUME MfdbInv, NEW g \in Group, NEW i \in Iface, membership_add_fails(g, i)
  PROVE  MfdbInv'
<1>1. CASE UNCHANGED mfdb
  <2>1. MfdbTypeOK' /\ CacheCoherent'
    BY <1>1 DEF mfdb, MfdbInv, MfdbTypeOK, CacheCoherent
  <2> QED
    BY <1>1, <2>1, CacheOnly DEF mfdb
<1>2. CASE AddFailsMi(g, i)
  <2>1. UNCHANGED <<mgrp_ip, mi_ref, mhif>>
    BY <1>2 DEF AddFailsMi
  <2>2. \/ mgrp_cache_ip' = g /\ group_find(g) # NULL /\ mgrp_cache' = group_find(g)
        \/ mgrp_cache_ip' \in {NULL, mgrp_cache_ip} /\ mgrp_cache' = mgrp_cache
    BY <1>2 DEF AddFailsMi
  <2>3. MfdbTypeOK' /\ CacheCoherent'
    BY <2>1, <2>2, LookupResult, EmfcAssumption DEF MfdbInv, MfdbTypeOK, CacheCoherent
  <2> QED
    BY <2>1, <2>3, CacheOnly
<1> QED
  BY <1>1, <1>2 DEF membership_add_fails

\* An add that the caller backs out of at once.
LEMMA AddThenDelStep ==
  ASSUME MfdbInv, NEW g \in Group, NEW i \in Iface, add_then_del(g, i)
  PROVE  MfdbInv'
<1>1. UNCHANGED <<mgrp_ip, mi_ref>> /\ mhif' \in SUBSET Iface
  BY DEF add_then_del, mhif_add, MfdbInv, MfdbTypeOK
<1>2. \/ mgrp_cache_ip' = g /\ group_find(g) # NULL /\ mgrp_cache' = group_find(g)
      \/ mgrp_cache_ip' = NULL /\ mgrp_cache' \in MgrpPtr
  BY DEF add_then_del, Chain
<1>3. MfdbTypeOK' /\ CacheCoherent'
  BY <1>1, <1>2, LookupResult, EmfcAssumption DEF MfdbInv, MfdbTypeOK, CacheCoherent
<1> QED
  BY <1>1, <1>3, CacheOnly

\* emfc_mfdb_membership_del(): the group entry goes exactly with its last
\* interface, and the cache forgets it.
LEMMA DelStep ==
  ASSUME MfdbInv, NEW g \in Group, NEW i \in Iface, membership_del(g, i)
  PROVE  MfdbInv'
<1>1. PICK p \in MgrpPtr : p = group_find(g) /\ mgrp_ip[p] = g /\ mi_ref[p][i] # 0
  BY LookupResult DEF membership_del, HasMembership, MfdbInv
<1>2. FoundIp(g) = g /\ FoundPtr(g) = p
  BY <1>1, FoundCoherent, EmfcAssumption DEF MfdbInv
<1>3. PICK n \in Ref : /\ n = mi_ref[p][i] - 1
                       /\ mi_ref' = [mi_ref EXCEPT ![p][i] = n]
  <2>1. mi_ref[p][i] \in Ref
    BY <1>1 DEF MfdbInv, MfdbTypeOK
  <2>2. Decr(mi_ref[p][i]) \in Ref /\ Decr(mi_ref[p][i]) = mi_ref[p][i] - 1
    BY <1>1, <2>1, RefArith
  <2>3. mi_ref' = [mi_ref EXCEPT ![p][i] = Decr(mi_ref[p][i])]
    BY <1>1 DEF membership_del
  <2> QED
    BY <2>2, <2>3
<1>4. mhif' = mhif
  BY DEF membership_del
<1>5. \A q \in MgrpPtr : q # p => Members(q)' = Members(q)
  BY <1>3 DEF Members, MfdbInv, MfdbTypeOK
<1>6. \A j \in Iface : j # i => mi_ref'[p][j] = mi_ref[p][j]
  BY <1>3 DEF MfdbInv, MfdbTypeOK
<1>7. mi_ref'[p][i] = n
  BY <1>3 DEF MfdbInv, MfdbTypeOK
<1>8. CASE mi_ref[p][i] = 1 /\ Members(p) = {i}
  <2>1. /\ mgrp_ip' = [mgrp_ip EXCEPT ![p] = NULL]
        /\ mgrp_cache_ip' = NULL
        /\ mgrp_cache' = p
    BY <1>1, <1>2, <1>8 DEF membership_del, FreeGroup
  <2>2. MfdbTypeOK' /\ CacheCoherent'
    BY <1>3, <1>4, <2>1 DEF MfdbInv, MfdbTypeOK, CacheCoherent
  <2>3. Members(p)' = {}
    BY <1>3, <1>6, <1>7, <1>8 DEF Members
  <2>4. NoEmptyGroup'
    BY <1>5, <2>1, <2>3 DEF NoEmptyGroup, MfdbInv, MfdbTypeOK
  <2>5. OneEntryPerGroup'
    BY <2>1 DEF OneEntryPerGroup, MfdbInv, MfdbTypeOK
  <2> QED
    BY <2>2, <2>4, <2>5 DEF MfdbInv
<1>9. CASE ~(mi_ref[p][i] = 1 /\ Members(p) = {i})
  <2>1. mgrp_ip' = mgrp_ip /\ mgrp_cache_ip' = g /\ mgrp_cache' = p
    BY <1>1, <1>2, <1>9 DEF membership_del
  <2>2. MfdbTypeOK' /\ CacheCoherent'
    BY <1>1, <1>3, <1>4, <2>1 DEF MfdbInv, MfdbTypeOK, CacheCoherent
  <2>3. Members(p)' # {}
    <3>1. CASE mi_ref[p][i] # 1
      <4>1. mi_ref'[p][i] # 0
        BY <1>3, <1>7, <3>1, <1>1 DEF Ref, MfdbInv, MfdbTypeOK
      <4> QED
        BY <4>1 DEF Members
    <3>2. CASE Members(p) # {i}
      <4>1. i \in Members(p)
        BY <1>1 DEF Members
      <4>2. PICK j \in Members(p) : j # i
        BY <3>2, <4>1
      <4> QED
        BY <4>2, <1>6 DEF Members
    <3> QED
      BY <1>9, <3>1, <3>2
  <2>4. NoEmptyGroup'
    BY <1>1, <1>5, <2>1, <2>3, EmfcAssumption DEF NoEmptyGroup, MfdbInv
  <2> QED
    BY <2>1, <2>2, <2>4 DEF MfdbInv, OneEntryPerGroup
<1> QED
  BY <1>8, <1>9

\* emfc_mfdb_membership_del() of a pair that is not there.
LEMMA DelFailsStep ==
  ASSUME MfdbInv, NEW g \in Group, NEW i \in Iface, membership_del_fails(g, i)
  PROVE  MfdbInv'
  BY LookupStep DEF membership_del_fails

\* emfc_mfdb_clear().
LEMMA ClearStep ==
  ASSUME MfdbInv, mfdb_clear
  PROVE  MfdbInv'
<1>1. 0 \in Ref
  BY EmfcAssumption DEF Ref
<1>2. MfdbTypeOK' /\ CacheCoherent'
  BY <1>1 DEF MfdbInv, MfdbTypeOK, CacheCoherent, mfdb_clear
<1>3. NoEmptyGroup' /\ OneEntryPerGroup'
  BY DEF NoEmptyGroup, OneEntryPerGroup, Members, mfdb_clear
<1> QED
  BY <1>2, <1>3 DEF MfdbInv

\* A step of another part of the layer.
LEMMA UnchangedStep ==
  ASSUME MfdbInv, UNCHANGED mfdb
  PROVE  MfdbInv'
<1>1. MfdbTypeOK' /\ CacheCoherent'
  BY DEF mfdb, MfdbInv, MfdbTypeOK, CacheCoherent
<1> QED
  BY <1>1, CacheOnly DEF mfdb

\* Every operation on the interface list keeps its counts in range: the counts
\* wrap, they never leave the width of the field.
LEMMA IflStep ==
  ASSUME IflTypeOK, NEW i \in Iface,
         \/ iflist_add(i) \/ iflist_del(i) \/ iflist_clear
         \/ rtport_add(i) \/ rtport_del(i) \/ rtport_add_then_del(i)
         \/ uffp_add(i) \/ uffp_del(i)
  PROVE  IflTypeOK'
<1>1. rtport_ref[i] \in Ref /\ uffp_ref[i] \in Ref
  BY DEF IflTypeOK
<1>2. /\ Incr(rtport_ref[i]) \in Ref /\ Decr(rtport_ref[i]) \in Ref
      /\ Incr(uffp_ref[i]) \in Ref /\ Decr(uffp_ref[i]) \in Ref
  BY <1>1, RefArith
<1>3. 0 \in Ref
  BY EmfcAssumption DEF Ref
<1>4. CASE iflist_add(i)
  BY <1>4 DEF iflist_add, IflTypeOK
<1>5. CASE iflist_del(i) \/ iflist_clear
  BY <1>3, <1>5 DEF iflist_del, iflist_clear, IflTypeOK
<1>6. CASE rtport_add(i) \/ rtport_del(i)
  BY <1>2, <1>6 DEF rtport_add, rtport_del, IflTypeOK, ifl
<1>7. CASE uffp_add(i) \/ uffp_del(i)
  BY <1>2, <1>7 DEF uffp_add, uffp_del, IflTypeOK, ifl
<1>8. CASE rtport_add_then_del(i)
  BY <1>8 DEF rtport_add_then_del, IflTypeOK
<1> QED
  BY <1>4, <1>5, <1>6, <1>7, <1>8

-----------------------------------------------------------------------------
(***************************************************************************)
(* The theorems.                                                           *)
(***************************************************************************)

EmfcInv == emf_enable \in BOOLEAN /\ IflTypeOK /\ MfdbInv

\* An instance as emfc_init() leaves it satisfies the invariant.
LEMMA InitInv == Init => EmfcInv
<1> SUFFICES ASSUME Init PROVE EmfcInv
  OBVIOUS
<1>1. 0 \in Ref
  BY EmfcAssumption DEF Ref
<1>2. emf_enable \in BOOLEAN /\ IflTypeOK /\ MfdbTypeOK
  BY <1>1 DEF Init, emfc_init, IflTypeOK, MfdbTypeOK
<1>3. CacheCoherent /\ NoEmptyGroup /\ OneEntryPerGroup
  BY DEF Init, emfc_init, CacheCoherent, NoEmptyGroup, OneEntryPerGroup, Members
<1> QED
  BY <1>2, <1>3 DEF EmfcInv, MfdbInv

\* Every call of the layer keeps it.
LEMMA NextInv == EmfcInv /\ [Next]_evars => EmfcInv'
<1> SUFFICES ASSUME EmfcInv, [Next]_evars PROVE EmfcInv'
  OBVIOUS
<1> USE DEF EmfcInv
<1>1. ASSUME NEW g \in Group, NEW i \in Iface, MfdbAdd(g, i) PROVE EmfcInv'
  <2>1. MfdbInv'
    BY <1>1, AddToGroupStep, AddGroupStep, AddFailsStep, AddThenDelStep
    DEF MfdbAdd, membership_add
  <2> QED
    BY <1>1, <2>1 DEF MfdbAdd, ifl, IflTypeOK
<1>2. ASSUME NEW g \in Group, NEW i \in Iface, MfdbDel(g, i) PROVE EmfcInv'
  <2>1. MfdbInv'
    BY <1>2, DelStep, DelFailsStep DEF MfdbDel
  <2> QED
    BY <1>2, <2>1 DEF MfdbDel, ifl, IflTypeOK
<1>3. ASSUME NEW g \in Group, DataFrame(g) PROVE EmfcInv'
  <2>1. MfdbInv'
    BY <1>3, LookupStep DEF DataFrame, data_frame
  <2> QED
    BY <1>3, <2>1 DEF DataFrame, ifl, IflTypeOK
<1>4. ASSUME NEW i \in Iface, IfChange(i) \/ RtportChange(i) \/ UffpChange(i)
      PROVE  EmfcInv'
  <2>1. IflTypeOK'
    BY <1>4, IflStep DEF IfChange, RtportChange, UffpChange
  <2>2. UNCHANGED <<emf_enable, mfdb>>
    BY <1>4 DEF IfChange, RtportChange, UffpChange
  <2> QED
    BY <2>1, <2>2, UnchangedStep
<1>5. CASE MfdbClear
  <2>1. MfdbInv'
    BY <1>5, ClearStep DEF MfdbClear
  <2> QED
    BY <1>5, <2>1 DEF MfdbClear, ifl, IflTypeOK
<1>6. CASE IfClear
  <2>1. 0 \in Ref
    BY EmfcAssumption DEF Ref
  <2>2. IflTypeOK'
    BY <1>6, <2>1 DEF IfClear, iflist_clear, IflTypeOK
  <2> QED
    BY <1>6, <2>2, UnchangedStep DEF IfClear
<1>7. CASE SetEnable
  BY <1>7, UnchangedStep DEF SetEnable, ifl, IflTypeOK
<1>8. CASE UNCHANGED evars
  <2>1. UNCHANGED <<emf_enable, mfdb, ifl>>
    BY <1>8 DEF evars, mfdb, ifl
  <2> QED
    BY <2>1, UnchangedStep DEF ifl, IflTypeOK
<1> QED
  BY <1>1, <1>2, <1>3, <1>4, <1>5, <1>6, <1>7, <1>8 DEF Next

\* The invariant holds of every behaviour.
LEMMA Invariance == Spec => []EmfcInv
  BY InitInv, NextInv, PTL DEF Spec

\* Type correctness, whatever the caller does: the counts stay within the width
\* of their fields even where the code lets them wrap.
THEOREM TypeCorrect == Spec => []TypeOK
<1>1. EmfcInv => TypeOK
  BY DEF EmfcInv, MfdbInv, TypeOK
<1> QED
  BY <1>1, Invariance, PTL

\* The lookup through the single-entry cache of emfc_mfdb_group_find() is exact
\* for any number of groups and any reuse of freed addresses.
THEOREM LookupCorrect == Spec => []LookupExact
<1>1. EmfcInv => LookupExact
  <2> SUFFICES ASSUME EmfcInv, NEW g \in Group
               PROVE  IF Chain(g) = {} THEN group_find(g) = NULL
                                       ELSE group_find(g) \in Chain(g)
    BY DEF LookupExact
  <2> QED
    BY LookupResult, EmfcAssumption DEF EmfcInv, MfdbInv, Chain
<1> QED
  BY <1>1, Invariance, PTL

\* The assertion of emfc_input(): a group entry it finds has an interface.
THEOREM EntriesCorrect == Spec => []NoEmptyGroup
<1>1. EmfcInv => NoEmptyGroup
  BY DEF EmfcInv, MfdbInv
<1> QED
  BY <1>1, Invariance, PTL

\* emfc_mfdb_membership_add() never makes a second entry of a group: what is
\* deleted from the first would still be forwarded by the second.
THEOREM EntryUnique == Spec => []OneEntryPerGroup
<1>1. EmfcInv => OneEntryPerGroup
  BY DEF EmfcInv, MfdbInv
<1> QED
  BY <1>1, Invariance, PTL
=============================================================================
