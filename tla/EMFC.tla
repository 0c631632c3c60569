-------------------------------- MODULE EMFC --------------------------------
(***************************************************************************)
(* The common code of the Efficient Multicast Forwarding layer,            *)
(* emf/emf/emfc.c, for one instance: the multicast forwarding database     *)
(* (MFDB) with its single-entry lookup cache, the interface list with its  *)
(* router-port and UFFP reference counts, and the enable switch.           *)
(*                                                                         *)
(* Every exported operation is written as an action on these variables.    *)
(* A caller (the IGMP snooper, the configuration code) conjoins it with    *)
(* its own updates, as the C caller runs it inside its own step.  The      *)
(* specification at the end lets any caller issue any operation in any     *)
(* order; it is what the database promises whoever calls it.               *)
(*                                                                         *)
(* On the uniprocessor kernel of this firmware OSL_LOCK is spin_lock_bh,   *)
(* which keeps both the softirqs and the other threads out.  An operation  *)
(* on the MFDB holds fdb_lock throughout and is one step.  One on the      *)
(* interface list is taken as one step here too; a softirq always runs it  *)
(* as one, and where a command is interrupted between its search and its   *)
(* update is the subject of module Iflist.                                 *)
(***************************************************************************)
EXTENDS Integers, FiniteSets

CONSTANTS
  Group,      \* multicast group addresses outside the flooded ranges
  Iface,      \* interfaces: bridge ports, or stations under WMF
  MgrpPtr,    \* heap addresses a group entry (emfc_mgrp_t) can have
  NULL,       \* the null pointer, and the address 0 of an empty cache
  RefMod,     \* reference counts are unsigned, modulo RefMod (2^32 in C)
  MaxRef,     \* bound: a count at MaxRef is not raised further
  AllocFail   \* MALLOC sites that may return NULL

ASSUME EmfcAssumption ==
  /\ NULL \notin Group
  /\ NULL \notin MgrpPtr
  /\ RefMod \in Nat
  /\ MaxRef \in Nat
  /\ 1 <= MaxRef
  /\ MaxRef < RefMod - 1

VARIABLES
  emf_enable,     \* emfc->emf_enable
  mgrp_ip,        \* group address of the entry at each heap address; NULL = free
  mi_ref,         \* mi_ref of each interface entry of a group; 0 = no entry
  mgrp_cache_ip,  \* emfc->mgrp_cache_ip
  mgrp_cache,     \* emfc->mgrp_cache, never reset when an entry is freed
  mhif,           \* interfaces that have an entry in emfc->mhif_head
  iflist,         \* interfaces that have an entry in emfc->iflist_head
  uffp_ref,       \* uffp_ref of each entry (0 when there is no entry)
  rtport_ref      \* rtport_ref of each entry (0 when there is no entry)

mfdb  == <<mgrp_ip, mi_ref, mgrp_cache_ip, mgrp_cache, mhif>>
ifl   == <<iflist, uffp_ref, rtport_ref>>
evars == <<emf_enable, mgrp_ip, mi_ref, mgrp_cache_ip, mgrp_cache,
           mhif, iflist, uffp_ref, rtport_ref>>

Ref == 0 .. RefMod - 1
Incr(n) == IF n = RefMod - 1 THEN 0 ELSE n + 1
\* Fault: the count goes below zero.
DecrNoWrap(n) == n - 1
Decr(n) == IF n = 0 THEN RefMod - 1 ELSE n - 1

\* emfc_init(): the instance starts disabled, with an empty database.
emfc_init ==
  /\ emf_enable = FALSE
  /\ mgrp_ip = [p \in MgrpPtr |-> NULL]
  /\ mi_ref = [p \in MgrpPtr |-> [i \in Iface |-> 0]]
  /\ mgrp_cache_ip = NULL
  /\ mgrp_cache = NULL
  /\ mhif = {}
  /\ iflist = {}
  /\ uffp_ref = [i \in Iface |-> 0]
  /\ rtport_ref = [i \in Iface |-> 0]

-----------------------------------------------------------------------------
(***************************************************************************)
(* The multicast forwarding database.                                      *)
(***************************************************************************)

\* The entries a walk of the hash chain of group g meets.
Chain(g) == {p \in MgrpPtr : mgrp_ip[p] = g}

\* emfc_mfdb_group_find(): the cached pointer on a cache hit, else the walk.
group_find(g) ==
  IF mgrp_cache_ip = g THEN mgrp_cache
  ELSE IF Chain(g) = {} THEN NULL ELSE CHOOSE p \in Chain(g) : TRUE

\* What the lookup leaves in the cache: the entry it found, if it found one.
FoundIp(g)  == IF group_find(g) = NULL THEN mgrp_cache_ip ELSE g
FoundPtr(g) == IF group_find(g) = NULL THEN mgrp_cache ELSE group_find(g)

\* Interfaces linked to the group entry at p.
Members(p) == {i \in Iface : mi_ref[p][i] # 0}

\* Fault: the entry is freed and the cache keeps its address valid.
FreeGroupStaleCache(p, ip, ptr) ==
  /\ mgrp_ip' = [mgrp_ip EXCEPT ![p] = NULL]
  /\ mgrp_cache_ip' = ip
  /\ mgrp_cache' = ptr

\* clist_delete() and MFREE() of the group entry at p, with the reset of the
\* cache when it holds that entry.
FreeGroup(p, ip, ptr) ==
  /\ mgrp_ip' = [mgrp_ip EXCEPT ![p] = NULL]
  /\ mgrp_cache_ip' = IF ptr = p THEN NULL ELSE ip
  /\ mgrp_cache' = ptr

\* emfc_mfdb_mhif_add() for a new interface entry: the interface joins the
\* list of interfaces with members, unless the list entry cannot be allocated.
\* The caller does not look at the result, and the next walk of the group's
\* interfaces follows the NULL; what comes of that is not modelled.
mhif_add(i) ==
  \/ mhif' = mhif \cup {i}
  \/ "emfc_mhif" \in AllocFail /\ i \notin mhif /\ UNCHANGED mhif

\* emfc_mfdb_membership_add(), when the group entry exists: count another
\* reference, or link a new interface entry.
AddToGroup(g, i) ==
  LET p == group_find(g) IN
  /\ p # NULL
  /\ mi_ref[p][i] < MaxRef
  /\ mi_ref' = [mi_ref EXCEPT ![p][i] = Incr(@)]
  /\ mgrp_cache_ip' = g
  /\ mgrp_cache' = p
  /\ IF mi_ref[p][i] = 0 THEN mhif_add(i) ELSE UNCHANGED mhif
  /\ UNCHANGED mgrp_ip

\* Fault: a group entry is made without looking for one.
AddGroupUnseen(g, i) ==
  /\ \E q \in Chain(NULL) :
       /\ mgrp_ip' = [mgrp_ip EXCEPT ![q] = g]
       /\ mi_ref' = [mi_ref EXCEPT ![q][i] = 1]
  /\ mhif_add(i)
  /\ UNCHANGED <<mgrp_cache_ip, mgrp_cache>>

\* ... and when it does not: a group entry at a free address q.
AddGroup(g, i) ==
  /\ group_find(g) = NULL
  /\ \E q \in Chain(NULL) :
       /\ mgrp_ip' = [mgrp_ip EXCEPT ![q] = g]
       /\ mi_ref' = [mi_ref EXCEPT ![q][i] = 1]
  /\ mhif_add(i)
  /\ UNCHANGED <<mgrp_cache_ip, mgrp_cache>>

membership_add(g, i) == AddToGroup(g, i) \/ AddGroup(g, i)

\* The interface entry cannot be allocated.  A group entry that was made for
\* it is unlinked again; one that has other interfaces stays.
AddFailsMi(g, i) ==
  /\ "emfc_mi" \in AllocFail
  /\ UNCHANGED <<mi_ref, mgrp_ip, mhif>>
  /\ \/ LET p == group_find(g) IN
        /\ p # NULL
        /\ mi_ref[p][i] = 0
        /\ mgrp_cache_ip' = g
        /\ mgrp_cache' = p
     \/ /\ group_find(g) = NULL
        /\ \E q \in Chain(NULL) :
             mgrp_cache_ip' = IF mgrp_cache = q THEN NULL ELSE mgrp_cache_ip
        /\ UNCHANGED mgrp_cache

\* emfc_mfdb_membership_add() returning FAILURE: no memory for the group entry
\* or for the interface entry.
membership_add_fails(g, i) ==
  \/ AddFailsMi(g, i)
  \/ "emfc_mgrp" \in AllocFail /\ group_find(g) = NULL /\ UNCHANGED mfdb

\* An add that succeeds followed, under the caller's lock, by a delete of the
\* same pair: the way the snooper backs out of a half-made entry.  The counts
\* are as before; the lookups of the delete have moved the cache.
add_then_del(g, i) ==
  /\ UNCHANGED <<mgrp_ip, mi_ref>>
  /\ \/ LET p == group_find(g) IN
        /\ p # NULL
        /\ mgrp_cache_ip' = g
        /\ mgrp_cache' = p
        /\ IF mi_ref[p][i] = 0 THEN mhif_add(i) ELSE UNCHANGED mhif
     \/ /\ group_find(g) = NULL
        /\ mgrp_cache_ip' = NULL
        /\ mgrp_cache' \in Chain(NULL)
        /\ mhif_add(i)

\* Whether emfc_mfdb_membership_del() finds the entry; FAILURE if not.
HasMembership(g, i) ==
  group_find(g) # NULL /\ mi_ref[group_find(g)][i] # 0

\* Fault: the group entry goes with the last reference of one interface,
\* whatever other interfaces it has.
DelGroupWithMembers(g, i) ==
  LET p == group_find(g) IN
  /\ HasMembership(g, i)
  /\ mi_ref' = [mi_ref EXCEPT ![p][i] = Decr(@)]
  /\ UNCHANGED mhif
  /\ IF mi_ref[p][i] = 1
     THEN FreeGroup(p, FoundIp(g), FoundPtr(g))
     ELSE /\ mgrp_cache_ip' = FoundIp(g)
          /\ mgrp_cache' = FoundPtr(g)
          /\ UNCHANGED mgrp_ip

\* Fault: the interface entry goes whatever references it has.
DelAllReferences(g, i) ==
  LET p == group_find(g) IN
  /\ HasMembership(g, i)
  /\ mi_ref' = [mi_ref EXCEPT ![p][i] = 0]
  /\ UNCHANGED mhif
  /\ IF Members(p) = {i}
     THEN FreeGroup(p, FoundIp(g), FoundPtr(g))
     ELSE /\ mgrp_cache_ip' = FoundIp(g)
          /\ mgrp_cache' = FoundPtr(g)
          /\ UNCHANGED mgrp_ip

\* emfc_mfdb_membership_del() returning SUCCESS: drop a reference, the
\* interface entry with its last reference, the group entry with its last
\* interface.
membership_del(g, i) ==
  LET p == group_find(g) IN
  /\ HasMembership(g, i)
  /\ mi_ref' = [mi_ref EXCEPT ![p][i] = Decr(@)]
  /\ UNCHANGED mhif
  /\ IF mi_ref[p][i] = 1 /\ Members(p) = {i}
     THEN FreeGroup(p, FoundIp(g), FoundPtr(g))
     ELSE /\ mgrp_cache_ip' = FoundIp(g)
          /\ mgrp_cache' = FoundPtr(g)
          /\ UNCHANGED mgrp_ip

\* ... and returning FAILURE: only the lookup's effect on the cache remains.
membership_del_fails(g, i) ==
  /\ ~HasMembership(g, i)
  /\ mgrp_cache_ip' = FoundIp(g)
  /\ mgrp_cache' = FoundPtr(g)
  /\ UNCHANGED <<mgrp_ip, mi_ref, mhif>>

\* emfc_mfdb_clear(): every group entry is freed; mgrp_cache keeps its value.
mfdb_clear ==
  /\ mgrp_ip' = [p \in MgrpPtr |-> NULL]
  /\ mi_ref' = [p \in MgrpPtr |-> [i \in Iface |-> 0]]
  /\ mgrp_cache_ip' = NULL
  /\ UNCHANGED <<mgrp_cache, mhif>>

-----------------------------------------------------------------------------
(***************************************************************************)
(* The interface list.  An entry holds the two counts and disappears when  *)
(* a delete leaves both at zero.                                           *)
(***************************************************************************)

\* emfc_iflist_add(): a new entry with both counts zero; a duplicate fails.
iflist_add(i) ==
  /\ i \notin iflist
  /\ iflist' = iflist \cup {i}
  /\ UNCHANGED <<uffp_ref, rtport_ref>>

\* emfc_iflist_del(): the entry goes with whatever counts it holds.
iflist_del(i) ==
  /\ i \in iflist
  /\ iflist' = iflist \ {i}
  /\ uffp_ref' = [uffp_ref EXCEPT ![i] = 0]
  /\ rtport_ref' = [rtport_ref EXCEPT ![i] = 0]

\* emfc_iflist_clear().
iflist_clear ==
  /\ iflist' = {}
  /\ uffp_ref' = [i \in Iface |-> 0]
  /\ rtport_ref' = [i \in Iface |-> 0]

\* emfc_rtport_add(): make the entry if there is none, then count one more.
\* If the entry cannot be allocated the count is skipped, and the caller is
\* told SUCCESS all the same.
rtport_add(i) ==
  \/ /\ rtport_ref[i] # MaxRef
     /\ iflist' = iflist \cup {i}
     /\ rtport_ref' = [rtport_ref EXCEPT ![i] = Incr(@)]
     /\ UNCHANGED uffp_ref
  \/ /\ "emfc_iflist" \in AllocFail
     /\ i \notin iflist
     /\ UNCHANGED ifl

\* emfc_rtport_del(): count one less, without a test for zero, and delete the
\* entry when both counts are now zero.  FAILURE when there is no entry.
rtport_del(i) ==
  IF i \notin iflist THEN UNCHANGED ifl
  ELSE LET r == Decr(rtport_ref[i]) IN
       /\ rtport_ref' = [rtport_ref EXCEPT ![i] = r]
       /\ iflist' = IF r = 0 /\ uffp_ref[i] = 0 THEN iflist \ {i} ELSE iflist
       /\ UNCHANGED uffp_ref

\* The two in a row, when the snooper has no memory for a router's timer: an
\* entry that carried no count is gone afterwards.
rtport_add_then_del(i) ==
  /\ iflist' = IF rtport_ref[i] = 0 /\ uffp_ref[i] = 0 THEN iflist \ {i} ELSE iflist
  /\ UNCHANGED <<uffp_ref, rtport_ref>>

\* emfc_uffp_add() and emfc_uffp_del(), the same for the other count.
uffp_add(i) ==
  \/ /\ uffp_ref[i] # MaxRef
     /\ iflist' = iflist \cup {i}
     /\ uffp_ref' = [uffp_ref EXCEPT ![i] = Incr(@)]
     /\ UNCHANGED rtport_ref
  \/ /\ "emfc_iflist" \in AllocFail
     /\ i \notin iflist
     /\ UNCHANGED ifl

uffp_del(i) ==
  IF i \notin iflist THEN UNCHANGED ifl
  ELSE LET u == Decr(uffp_ref[i]) IN
       /\ uffp_ref' = [uffp_ref EXCEPT ![i] = u]
       /\ iflist' = IF u = 0 /\ rtport_ref[i] = 0 THEN iflist \ {i} ELSE iflist
       /\ UNCHANGED rtport_ref

-----------------------------------------------------------------------------
(***************************************************************************)
(* The forwarding decision of emfc_input().                                *)
(***************************************************************************)

\* emfc_unreg_frame_handle(): the ports that get a copy of an IGMP frame, or
\* of a data frame of a group without members, that arrived on from (NULL when
\* it came from the IP stack).
UnregPorts(proto, from) ==
  {i \in iflist \ {from} :
     IF proto = "igmp" THEN rtport_ref[i] # 0
                       ELSE (rtport_ref[i] + uffp_ref[i]) % RefMod # 0}

\* emfc_input(): the ports that get a copy of a data frame for group g.
DataPorts(g, from) ==
  IF group_find(g) = NULL THEN UnregPorts("data", from)
                          ELSE Members(group_find(g)) \ {from}

\* emfc_input() for a data frame: the lookup may move the cache.
data_frame(g) ==
  /\ emf_enable
  /\ mgrp_cache_ip' = FoundIp(g)
  /\ mgrp_cache' = FoundPtr(g)
  /\ UNCHANGED <<mgrp_ip, mi_ref, mhif>>

-----------------------------------------------------------------------------
(***************************************************************************)
(* The layer with an arbitrary caller.                                     *)
(***************************************************************************)

Init == emfc_init

MfdbAdd(g, i) ==
  /\ \/ membership_add(g, i)
     \/ membership_add_fails(g, i)
     \/ add_then_del(g, i)
  /\ UNCHANGED <<emf_enable, ifl>>

MfdbDel(g, i) ==
  /\ membership_del(g, i) \/ membership_del_fails(g, i)
  /\ UNCHANGED <<emf_enable, ifl>>

MfdbClear == mfdb_clear /\ UNCHANGED <<emf_enable, ifl>>

DataFrame(g) == data_frame(g) /\ UNCHANGED <<emf_enable, ifl>>

IfChange(i) ==
  /\ iflist_add(i) \/ iflist_del(i)
  /\ UNCHANGED <<emf_enable, mfdb>>

RtportChange(i) ==
  /\ rtport_add(i) \/ rtport_del(i) \/ rtport_add_then_del(i)
  /\ UNCHANGED <<emf_enable, mfdb>>

UffpChange(i) ==
  /\ uffp_add(i) \/ uffp_del(i)
  /\ UNCHANGED <<emf_enable, mfdb>>

IfClear == iflist_clear /\ UNCHANGED <<emf_enable, mfdb>>

\* EMF_ENABLE with the value it does not have; a duplicate is refused.
SetEnable == emf_enable' = ~emf_enable /\ UNCHANGED <<mfdb, ifl>>

Next ==
  \/ \E g \in Group, i \in Iface : MfdbAdd(g, i) \/ MfdbDel(g, i)
  \/ \E g \in Group : DataFrame(g)
  \/ \E i \in Iface : IfChange(i) \/ RtportChange(i) \/ UffpChange(i)
  \/ MfdbClear
  \/ IfClear
  \/ SetEnable

Spec == Init /\ [][Next]_evars

-----------------------------------------------------------------------------
(***************************************************************************)
(* Properties.                                                             *)
(***************************************************************************)

MfdbTypeOK ==
  /\ mgrp_ip \in [MgrpPtr -> Group \cup {NULL}]
  /\ mi_ref \in [MgrpPtr -> [Iface -> Ref]]
  /\ mgrp_cache_ip \in Group \cup {NULL}
  /\ mgrp_cache \in MgrpPtr \cup {NULL}
  /\ mhif \in SUBSET Iface

IflTypeOK ==
  /\ iflist \in SUBSET Iface
  /\ uffp_ref \in [Iface -> Ref]
  /\ rtport_ref \in [Iface -> Ref]

TypeOK == emf_enable \in BOOLEAN /\ MfdbTypeOK /\ IflTypeOK

\* The lookup of emfc_mfdb_group_find(), taken through the cache, returns the
\* live entry of the group, and NULL exactly when there is none: the pointer in
\* the cache never outlives the entry, although freeing an entry leaves the
\* pointer in place and its address can be reused for another group.
LookupExact ==
  \A g \in Group :
    IF Chain(g) = {} THEN group_find(g) = NULL ELSE group_find(g) \in Chain(g)

\* The reason for it: a cached address is that of a live entry of that group.
CacheCoherent ==
  mgrp_cache_ip # NULL =>
    mgrp_cache \in MgrpPtr /\ mgrp_ip[mgrp_cache] = mgrp_cache_ip

\* ASSERT(!clist_empty(&mgrp->mi_head)) of emfc_input(): a group entry is in
\* the database only while an interface is linked to it, so no path of add,
\* failed add or delete leaves an empty entry behind.
NoEmptyGroup == \A p \in MgrpPtr : mgrp_ip[p] # NULL <=> Members(p) # {}

\* A group has at most one entry, whatever addresses its entries have had.
OneEntryPerGroup ==
  \A p, q \in MgrpPtr : mgrp_ip[p] = mgrp_ip[q] /\ mgrp_ip[p] # NULL => p = q

\* The reference count of a pair, as the next lookup of a caller sees it.
RefOf(g, i) == IF group_find(g) = NULL THEN 0 ELSE mi_ref[group_find(g)][i]

Counts == INSTANCE MFDB
            WITH ref <- [g \in Group |-> [i \in Iface |-> RefOf(g, i)]]

\* The hash table, the reused heap addresses and the lookup cache together
\* implement plain reference counts: an operation on one pair, a lookup or a
\* failed allocation never changes the count of another pair.
ImplementsCounts == Counts!MSpec
=============================================================================
