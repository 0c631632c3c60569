----------------------------- MODULE MFDB_proofs -----------------------------
(***************************************************************************)
(* The forwarding layer implements the abstract reference counts of MFDB.  *)
(***************************************************************************)
EXTENDS EMFC_proofs

\* The refinement mapping: the count a caller's next lookup would find.
Refs == [g \in Group |-> [i \in Iface |-> RefOf(g, i)]]

\* The count of a pair is in the live entry of its group, and 0 without one.
RefInEntry ==
  \A g \in Group, i \in Iface :
    /\ \A p \in MgrpPtr : mgrp_ip[p] = g => RefOf(g, i) = mi_ref[p][i]
    /\ (\A p \in MgrpPtr : mgrp_ip[p] # g) => RefOf(g, i) = 0

\* This follows from the invariant of the database.
LEMMA RefOfValue == MfdbInv => RefInEntry
<1> SUFFICES ASSUME MfdbInv, NEW g \in Group, NEW i \in Iface
             PROVE  /\ \A p \in MgrpPtr : mgrp_ip[p] = g => RefOf(g, i) = mi_ref[p][i]
                    /\ (\A p \in MgrpPtr : mgrp_ip[p] # g) => RefOf(g, i) = 0
  BY DEF RefInEntry
<1>1. CASE group_find(g) = NULL
  BY <1>1, LookupResult, EmfcAssumption DEF MfdbInv, RefOf, Chain
<1>2. CASE group_find(g) # NULL
  BY <1>2, LookupResult, EmfcAssumption DEF MfdbInv, RefOf, OneEntryPerGroup
<1> QED
  BY <1>1, <1>2

\* The same in the next state.
LEMMA RefOfValueNext == MfdbInv' => RefInEntry'
  BY RefOfValue, PTL

\* Counts that agree pair by pair are the same function.
LEMMA SameRefs ==
  ASSUME \A g \in Group, i \in Iface : RefOf(g, i)' = RefOf(g, i)
  PROVE  Refs' = Refs
  BY DEF Refs

\* One pair changes, the others do not.
LEMMA OneRef ==
  ASSUME NEW g \in Group, NEW i \in Iface, NEW n, RefOf(g, i)' = n,
         \A h \in Group, j \in Iface : h # g \/ j # i => RefOf(h, j)' = RefOf(h, j)
  PROVE  Refs' = [Refs EXCEPT ![g][i] = n]
  BY DEF Refs

\* A step that leaves the entries alone moves no count, wherever it leaves the
\* cache.
LEMMA EntriesUnchanged ==
  ASSUME MfdbInv, MfdbInv', UNCHANGED <<mgrp_ip, mi_ref>>
  PROVE  Refs' = Refs
<1> SUFFICES ASSUME NEW g \in Group, NEW i \in Iface
             PROVE  RefOf(g, i)' = RefOf(g, i)
  BY SameRefs
<1> QED
  BY RefOfValue, RefOfValueNext DEF RefInEntry

\* An add raises the count of its pair by one, in an entry that exists ...
LEMMA AddToGroupRefs ==
  ASSUME MfdbInv, MfdbInv', NEW g \in Group, NEW i \in Iface, AddToGroup(g, i)
  PROVE  Refs' = [Refs EXCEPT ![g][i] = RefOf(g, i) + 1]
<1>1. PICK p \in MgrpPtr : p = group_find(g) /\ mgrp_ip[p] = g
  BY LookupResult DEF AddToGroup, MfdbInv
<1>2. mi_ref[p][i] \in Ref /\ mi_ref[p][i] < MaxRef
  BY <1>1 DEF AddToGroup, MfdbInv, MfdbTypeOK
<1>3. Incr(mi_ref[p][i]) = mi_ref[p][i] + 1
  BY <1>2, RefArith
<1>4. mgrp_ip' = mgrp_ip /\ mi_ref' = [mi_ref EXCEPT ![p][i] = mi_ref[p][i] + 1]
  BY <1>1, <1>3 DEF AddToGroup
<1>5. mi_ref \in [MgrpPtr -> [Iface -> Ref]]
  BY DEF MfdbInv, MfdbTypeOK
<1>6. RefOf(g, i)' = RefOf(g, i) + 1
  BY <1>1, <1>4, <1>5, RefOfValue, RefOfValueNext DEF RefInEntry
<1>7. ASSUME NEW h \in Group, NEW j \in Iface, h # g \/ j # i
      PROVE  RefOf(h, j)' = RefOf(h, j)
  <2>1. \A q \in MgrpPtr : mgrp_ip[q] = h => mi_ref'[q][j] = mi_ref[q][j]
    BY <1>1, <1>4, <1>5, <1>7
  <2> QED
    BY <1>4, <2>1, RefOfValue, RefOfValueNext DEF RefInEntry
<1> QED
  BY <1>6, <1>7, OneRef

\* ... or in a new one, at an address whose old counts are all gone.
LEMMA AddGroupRefs ==
  ASSUME MfdbInv, MfdbInv', NEW g \in Group, NEW i \in Iface, AddGroup(g, i)
  PROVE  Refs' = [Refs EXCEPT ![g][i] = RefOf(g, i) + 1]
<1>1. \A p \in MgrpPtr : mgrp_ip[p] # g
  BY LookupResult, EmfcAssumption DEF AddGroup, MfdbInv, Chain
<1>2. PICK q \in Chain(NULL) : /\ mgrp_ip' = [mgrp_ip EXCEPT ![q] = g]
                               /\ mi_ref' = [mi_ref EXCEPT ![q][i] = 1]
  BY DEF AddGroup
<1>3. q \in MgrpPtr /\ mgrp_ip[q] = NULL
  BY DEF Chain
<1>4. \A j \in Iface : mi_ref[q][j] = 0
  BY <1>3 DEF MfdbInv, NoEmptyGroup, Members
<1>5. /\ mi_ref \in [MgrpPtr -> [Iface -> Ref]]
      /\ mgrp_ip \in [MgrpPtr -> Group \cup {NULL}]
  BY DEF MfdbInv, MfdbTypeOK
<1>6. \A j \in Iface : RefOf(g, j) = 0
  BY <1>1, RefOfValue DEF RefInEntry
<1>7. \A j \in Iface : RefOf(g, j)' = mi_ref'[q][j]
  BY <1>2, <1>3, <1>5, RefOfValueNext DEF RefInEntry
<1>8. RefOf(g, i)' = RefOf(g, i) + 1
  <2>1. mi_ref'[q][i] = 1
    BY <1>2, <1>3, <1>5
  <2> QED
    BY <2>1, <1>6, <1>7
<1>9. ASSUME NEW h \in Group, NEW j \in Iface, h # g \/ j # i
      PROVE  RefOf(h, j)' = RefOf(h, j)
  <2>1. CASE h = g
    <3>1. mi_ref'[q][j] = 0
      BY <1>2, <1>3, <1>4, <1>5, <1>9, <2>1
    <3> QED
      BY <2>1, <3>1, <1>6, <1>7
  <2>2. CASE h # g
    <3>1. \A p \in MgrpPtr : mgrp_ip'[p] = h <=> mgrp_ip[p] = h
      BY <1>2, <1>3, <1>5, <2>2, EmfcAssumption
    <3>2. \A p \in MgrpPtr : mgrp_ip[p] = h => mi_ref'[p][j] = mi_ref[p][j]
      BY <1>2, <1>3, <1>5, EmfcAssumption
    <3> QED
      BY <3>1, <3>2, RefOfValue, RefOfValueNext DEF RefInEntry
  <2> QED
    BY <2>1, <2>2
<1> QED
  BY <1>8, <1>9, OneRef

\* A delete that finds its pair lowers its count by one; freeing the group
\* entry with its last interface loses no other count.
LEMMA DelRefs ==
  ASSUME MfdbInv, MfdbInv', NEW g \in Group, NEW i \in Iface, membership_del(g, i)
  PROVE  RefOf(g, i) > 0 /\ Refs' = [Refs EXCEPT ![g][i] = RefOf(g, i) - 1]
<1>1. PICK p \in MgrpPtr : p = group_find(g) /\ mgrp_ip[p] = g /\ mi_ref[p][i] # 0
  BY LookupResult DEF membership_del, HasMembership, MfdbInv
<1>2. /\ mi_ref \in [MgrpPtr -> [Iface -> Ref]]
      /\ mgrp_ip \in [MgrpPtr -> Group \cup {NULL}]
  BY DEF MfdbInv, MfdbTypeOK
<1>3. mi_ref[p][i] \in Ref
  BY <1>1, <1>2
<1>4. Decr(mi_ref[p][i]) = mi_ref[p][i] - 1
  BY <1>1, <1>3, RefArith
<1>5. mi_ref' = [mi_ref EXCEPT ![p][i] = mi_ref[p][i] - 1]
  BY <1>1, <1>4 DEF membership_del
<1>6. RefOf(g, i) = mi_ref[p][i]
  BY <1>1, RefOfValue DEF RefInEntry
<1>7. RefOf(g, i) > 0
  BY <1>1, <1>3, <1>6 DEF Ref
<1>8. ASSUME NEW h \in Group, NEW j \in Iface, h # g
      PROVE  RefOf(h, j)' = RefOf(h, j)
  <2>1. \A q \in MgrpPtr : mgrp_ip'[q] = h <=> mgrp_ip[q] = h
    BY <1>1, <1>2, <1>8, EmfcAssumption DEF membership_del, FreeGroup
  <2>2. \A q \in MgrpPtr : mgrp_ip[q] = h => mi_ref'[q][j] = mi_ref[q][j]
    BY <1>1, <1>2, <1>5, <1>8
  <2> QED
    BY <2>1, <2>2, RefOfValue, RefOfValueNext DEF RefInEntry
<1>9. \A j \in Iface : RefOf(g, j)' = mi_ref'[p][j]
  <2> SUFFICES ASSUME NEW j \in Iface PROVE RefOf(g, j)' = mi_ref'[p][j]
    OBVIOUS
  <2>1. CASE mgrp_ip' = mgrp_ip
    BY <1>1, <2>1, RefOfValueNext DEF RefInEntry
  <2>2. CASE mgrp_ip' = [mgrp_ip EXCEPT ![p] = NULL]
    <3>1. \A q \in MgrpPtr : mgrp_ip'[q] # g
      BY <1>1, <1>2, <2>2, EmfcAssumption DEF MfdbInv, OneEntryPerGroup
    <3>2. mgrp_ip'[p] = NULL
      BY <1>2, <2>2
    <3>3. mi_ref'[p][j] = 0
      BY <3>2 DEF MfdbInv, NoEmptyGroup, Members
    <3> QED
      BY <3>1, <3>3, RefOfValueNext DEF RefInEntry
  <2> QED
    BY <1>1, <2>1, <2>2 DEF membership_del, FreeGroup
<1>10. RefOf(g, i)' = RefOf(g, i) - 1
  <2>1. mi_ref'[p][i] = mi_ref[p][i] - 1
    BY <1>2, <1>5
  <2> QED
    BY <2>1, <1>6, <1>9
<1>11. \A j \in Iface : j # i => RefOf(g, j)' = RefOf(g, j)
  <2>1. \A j \in Iface : j # i => mi_ref'[p][j] = mi_ref[p][j]
    BY <1>2, <1>5
  <2> QED
    BY <1>1, <1>9, <2>1, RefOfValue DEF RefInEntry
<1> QED
  BY <1>7, <1>8, <1>10, <1>11, OneRef

\* A clear leaves every count 0.
LEMMA ClearRefs ==
  ASSUME MfdbInv', mfdb_clear
  PROVE  Refs' = [g \in Group |-> [i \in Iface |-> 0]]
<1>1. \A g \in Group : \A p \in MgrpPtr : mgrp_ip'[p] # g
  BY EmfcAssumption DEF mfdb_clear
<1>2. \A g \in Group, i \in Iface : RefOf(g, i)' = 0
  BY <1>1, RefOfValueNext DEF RefInEntry
<1> QED
  BY <1>2 DEF Refs

-----------------------------------------------------------------------------
\* Every step of the layer is a step of the counts or leaves them alone.
LEMMA CountsStep ==
  ASSUME EmfcInv, EmfcInv', [Next]_evars
  PROVE  [Counts!MNext]_Refs
<1> USE DEF EmfcInv
<1>1. ASSUME UNCHANGED <<mgrp_ip, mi_ref>> PROVE Refs' = Refs
  BY <1>1, EntriesUnchanged
<1>2. ASSUME NEW g \in Group, NEW i \in Iface, MfdbAdd(g, i)
      PROVE  [Counts!MNext]_Refs
  <2>1. CASE membership_add(g, i)
    <3>1. Refs' = [Refs EXCEPT ![g][i] = RefOf(g, i) + 1]
      BY <2>1, AddToGroupRefs, AddGroupRefs DEF membership_add
    <3>2. Counts!Add(g, i)
      BY <3>1 DEF Refs, Counts!Add
    <3> QED
      BY <3>2 DEF Counts!MNext
  <2>2. CASE membership_add_fails(g, i) \/ add_then_del(g, i)
    BY <1>1, <2>2 DEF membership_add_fails, AddFailsMi, add_then_del, mfdb
  <2> QED
    BY <1>2, <2>1, <2>2 DEF MfdbAdd
<1>3. ASSUME NEW g \in Group, NEW i \in Iface, MfdbDel(g, i)
      PROVE  [Counts!MNext]_Refs
  <2>1. CASE membership_del(g, i)
    <3>1. /\ RefOf(g, i) > 0
          /\ Refs' = [Refs EXCEPT ![g][i] = RefOf(g, i) - 1]
      BY <2>1, DelRefs
    <3>2. Counts!Del(g, i)
      BY <3>1 DEF Refs, Counts!Del
    <3> QED
      BY <3>2 DEF Counts!MNext
  <2>2. CASE membership_del_fails(g, i)
    BY <1>1, <2>2 DEF membership_del_fails
  <2> QED
    BY <1>3, <2>1, <2>2 DEF MfdbDel
<1>4. CASE MfdbClear
  <2>1. Refs' = [g \in Group |-> [i \in Iface |-> 0]]
    BY <1>4, ClearRefs DEF MfdbClear
  <2> QED
    BY <2>1 DEF Counts!MNext, Counts!Clear, Refs
<1>5. CASE \/ \E g \in Group : DataFrame(g)
           \/ \E i \in Iface : IfChange(i) \/ RtportChange(i) \/ UffpChange(i)
           \/ IfClear
           \/ SetEnable
           \/ UNCHANGED evars
  BY <1>1, <1>5 DEF DataFrame, data_frame, IfChange, RtportChange, UffpChange,
                    IfClear, SetEnable, mfdb, evars
<1> QED
  BY <1>2, <1>3, <1>4, <1>5 DEF Next

\* The layer implements MFDB: an operation on one pair, a lookup or a failed
\* allocation never changes the count of another pair, for any number of
\* groups and interfaces and any reuse of addresses.
THEOREM CountsImplemented == Spec => ImplementsCounts
<1>1. Init => Counts!MInit
  <2> SUFFICES ASSUME Init PROVE Counts!MInit
    OBVIOUS
  <2>1. MfdbInv /\ \A g \in Group : \A p \in MgrpPtr : mgrp_ip[p] # g
    BY InitInv, EmfcAssumption DEF Init, emfc_init, EmfcInv
  <2>2. \A g \in Group, i \in Iface : RefOf(g, i) = 0
    BY <2>1, RefOfValue DEF RefInEntry
  <2> QED
    BY <2>2 DEF Counts!MInit
<1>2. EmfcInv /\ EmfcInv' /\ [Next]_evars => [Counts!MNext]_Refs
  BY CountsStep
<1> QED
  BY <1>1, <1>2, Invariance, PTL DEF Spec, ImplementsCounts, Counts!MSpec, Refs
=============================================================================
