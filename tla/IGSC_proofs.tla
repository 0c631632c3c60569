----------------------------- MODULE IGSC_proofs -----------------------------
(***************************************************************************)
(* Proofs about snooping on top of the forwarding layer, for every set of  *)
(* groups, interfaces, hosts and routers, with softirqs between the locks  *)
(* of the commands and any failed allocations.                             *)
(*                                                                         *)
(* A step is first reduced to its shape: what it does to the host entries, *)
(* the counts of the snooping database and those of the forwarding         *)
(* database.  The invariants follow shape by shape.                        *)
(***************************************************************************)
EXTENDS IGSC, MFDB_proofs, FiniteSetTheorems

-----------------------------------------------------------------------------
(***************************************************************************)
(* What an operation on the forwarding database does to the counts.        *)
(***************************************************************************)

Others(g, i) ==
  \A h \in Group, j \in Iface : h # g \/ j # i => RefOf(h, j)' = RefOf(h, j)

Kept == MfdbInv' /\ \A g \in Group, i \in Iface : RefOf(g, i)' = RefOf(g, i)

Raised(g, i) == MfdbInv' /\ RefOf(g, i)' = RefOf(g, i) + 1 /\ Others(g, i)

Lowered(g, i) ==
  MfdbInv' /\ RefOf(g, i) > 0 /\ RefOf(g, i)' = RefOf(g, i) - 1 /\ Others(g, i)

Zeroed == MfdbInv' /\ \A g \in Group, i \in Iface : RefOf(g, i)' = 0

\* A count is a natural number, and not 0 exactly when a delete would find the
\* pair.
LEMMA RefOfNat ==
  ASSUME MfdbInv, NEW g \in Group, NEW i \in Iface
  PROVE  RefOf(g, i) \in Nat /\ (HasMembership(g, i) <=> RefOf(g, i) # 0)
<1>1. CASE group_find(g) = NULL
  BY <1>1 DEF RefOf, HasMembership
<1>2. CASE group_find(g) # NULL
  <2>1. group_find(g) \in MgrpPtr
    BY <1>2, LookupResult DEF MfdbInv
  <2>2. mi_ref[group_find(g)][i] \in Ref
    BY <2>1 DEF MfdbInv, MfdbTypeOK
  <2> QED
    BY <1>2, <2>2, EmfcAssumption DEF RefOf, HasMembership, Ref
<1> QED
  BY <1>1, <1>2

\* The counts as a function and one by one.
LEMMA RefsPointwise ==
  ASSUME MfdbInv, NEW g \in Group, NEW i \in Iface, NEW n,
         Refs' = [Refs EXCEPT ![g][i] = n]
  PROVE  RefOf(g, i)' = n /\ Others(g, i)
<1>1. \A h \in Group, j \in Iface : Refs[h][j] = RefOf(h, j) /\ Refs'[h][j] = RefOf(h, j)'
  BY DEF Refs
<1>2. Refs \in [Group -> [Iface -> Nat]]
  BY RefOfNat DEF Refs
<1>3. \A h \in Group, j \in Iface :
        [Refs EXCEPT ![g][i] = n][h][j] = IF h = g /\ j = i THEN n ELSE Refs[h][j]
  BY <1>2
<1> QED
  BY <1>1, <1>3 DEF Others

\* emfc_mfdb_membership_add().
LEMMA AddRaises ==
  ASSUME MfdbInv, NEW g \in Group, NEW i \in Iface, membership_add(g, i)
  PROVE  Raised(g, i)
<1>1. MfdbInv'
  BY AddToGroupStep, AddGroupStep DEF membership_add
<1>2. Refs' = [Refs EXCEPT ![g][i] = RefOf(g, i) + 1]
  BY <1>1, AddToGroupRefs, AddGroupRefs DEF membership_add
<1> QED
  BY <1>1, <1>2, RefsPointwise DEF Raised

\* emfc_mfdb_membership_del().
LEMMA DelLowers ==
  ASSUME MfdbInv, NEW g \in Group, NEW i \in Iface, membership_del(g, i)
  PROVE  Lowered(g, i)
<1>1. MfdbInv'
  BY DelStep
<1>2. RefOf(g, i) > 0 /\ Refs' = [Refs EXCEPT ![g][i] = RefOf(g, i) - 1]
  BY <1>1, DelRefs
<1> QED
  BY <1>1, <1>2, RefsPointwise DEF Lowered

\* A step that leaves the entries alone keeps the counts.
LEMMA SameRefsKept ==
  ASSUME MfdbInv, MfdbInv', UNCHANGED <<mgrp_ip, mi_ref>>
  PROVE  Kept
<1>1. Refs' = Refs
  BY EntriesUnchanged
<1>2. \A h \in Group, j \in Iface : Refs[h][j] = RefOf(h, j) /\ Refs'[h][j] = RefOf(h, j)'
  BY DEF Refs
<1> QED
  BY <1>1, <1>2 DEF Kept

\* So a failed add, a delete that finds nothing and an add taken back.
LEMMA OtherwiseKept ==
  ASSUME MfdbInv, NEW g \in Group, NEW i \in Iface,
         \/ membership_add_fails(g, i) \/ add_then_del(g, i)
         \/ membership_del_fails(g, i) \/ data_frame(g) \/ UNCHANGED mfdb
  PROVE  Kept
<1>1. CASE membership_add_fails(g, i)
  BY <1>1, AddFailsStep, SameRefsKept DEF membership_add_fails, AddFailsMi, mfdb
<1>2. CASE add_then_del(g, i)
  BY <1>2, AddThenDelStep, SameRefsKept DEF add_then_del
<1>3. CASE membership_del_fails(g, i)
  BY <1>3, DelFailsStep, SameRefsKept DEF membership_del_fails
<1>4. CASE data_frame(g)
  BY <1>4, LookupStep, SameRefsKept DEF data_frame
<1>5. CASE UNCHANGED mfdb
  BY <1>5, UnchangedStep, SameRefsKept DEF mfdb
<1> QED
  BY <1>1, <1>2, <1>3, <1>4, <1>5

\* A step that does not call the database.
LEMMA UnchangedKept ==
  ASSUME MfdbInv, UNCHANGED mfdb
  PROVE  Kept
  BY UnchangedStep, SameRefsKept DEF mfdb

\* emfc_input() for a data frame.
LEMMA LookupKept ==
  ASSUME MfdbInv, NEW g \in Group, data_frame(g)
  PROVE  Kept
  BY LookupStep, SameRefsKept DEF data_frame

\* emfc_mfdb_clear().
LEMMA ClearZeroes ==
  ASSUME MfdbInv, mfdb_clear
  PROVE  Zeroed
<1>1. MfdbInv' /\ Refs' = [g \in Group |-> [i \in Iface |-> 0]]
  BY ClearStep, ClearRefs
<1>2. \A h \in Group, j \in Iface : Refs'[h][j] = RefOf(h, j)'
  BY DEF Refs
<1> QED
  BY <1>1, <1>2 DEF Zeroed

-----------------------------------------------------------------------------
(***************************************************************************)
(* The invariants.                                                         *)
(***************************************************************************)

\* While EMF_ENABLE FALSE runs, and after it, what it has cleared is empty: no
\* softirq it lets in between two locks can add to a disabled instance.
DisablePhase ==
  LET first == {"sdb_clear", "sdb_clear_loop"}
      second == {"rtlist_clear", "rtlist_clear_loop"} IN
  /\ pc \in first \cup second \cup {"mfdb_clear", "iflist_clear"} => ~emf_enable
  /\ ~emf_enable /\ pc \notin first => mh = {}
  /\ ~emf_enable /\ pc \notin first \cup second => rtlist = {}

\* Only the removal of a station leaves router timers behind.
StaleFromSta ==
  "STA" \notin Cmds =>
    stale_timer = {} /\ pc \notin {"sta_sdb", "sta_rtport"} /\ RtTimerHasEntry

\* The groups that have an entry in the IGSDB.
SnoopedGroups == {g \in Group : Hosts(g) # {}}

\* What holds with every set of commands and of failing allocations.
IgscInv ==
  /\ EmfcInv
  /\ IgscTypeOK
  /\ IsFiniteSet(mh)
  /\ IsFiniteSet(SnoopedGroups)
  /\ StatsCoverEntries
  /\ DisablePhase
  /\ StaleFromSta

\* No command takes a reference from the MFDB behind the snooper's back.
NoMfdbDel == "MFDB_DEL" \notin Cmds /\ "MFDB_CLEAR" \notin Cmds

\* Then every host entry has its reference in the MFDB, so the delete that
\* comes with the last host of an interface finds it.
SdbInv ==
  /\ TimersPending
  /\ RefsAreHosts
  /\ \A m \in mh : RefOf(m[1], m[2]) # 0
  /\ SdbNoFault

\* No command touches the MFDB at all.
NoStatic == NoMfdbDel /\ "MFDB_ADD" \notin Cmds

\* Then the snooper's references are all there are.
RefsExact ==
  \A g \in Group, i \in Iface : RefOf(g, i) = IF HostsOn(g, i) = {} THEN 0 ELSE 1

\* What is snooped is behind an attached interface, and the station that is
\* being removed has lost its hosts when its routers go.
SnoopedOnPorts ==
  /\ \A m \in mh : m[2] \in ports
  /\ \A e \in rtlist : e[1] \in ports
  /\ pc = "sta_rtport" => \A m \in mh : m[2] # sta

RoutersOn(i) == {e \in rtlist : e[1] = i}

\* Every router on the list holds a count of its interface.
RtInv ==
  /\ IsFiniteSet(rtlist)
  /\ \A i \in Iface :
       /\ Cardinality(RoutersOn(i)) <= rtport_ref[i]
       /\ rtport_ref[i] <= MaxRef
       /\ rtport_ref[i] # 0 => i \in iflist

-----------------------------------------------------------------------------
(***************************************************************************)
(* The steps, by where they come from, with their parameters typed.        *)
(***************************************************************************)

\* A step that changes neither the interface list, the router list nor the
\* state of the configuration thread.
SdbStep ==
  \/ \E g \in Group, i \in Iface, h \in Host : Report(g, i, h) \/ Leave(g, i, h)
  \/ \E g \in Group : Data(g)
  \/ \E m \in mh : MhTimer(m) \/ SdbClearLoop(m) \/ StaSdbLoop(m)
  \/ StaleRtTimer
  \/ \E g \in Group, i \in Iface : CfgMfdbAdd(g, i) \/ CfgMfdbDel(g, i)
  \/ CfgMfdbClear

\* A step on the interface list, which may be one on the router list.
IfStep ==
  \/ \E i \in Iface, r \in Router :
       \/ Query(i, r) \/ RtTimer(i, r) \/ RtlistClearLoop(i, r)
       \/ sta = i /\ StaRtportLoop(r)
  \/ \E i \in Iface : CfgIfAdd(i) \/ CfgIfDel(i) \/ CfgRefs(i)
  \/ DisableIflistClear

\* A step of the configuration thread alone.
CfgStep ==
  \/ EmfEnable \/ EmfDisable
  \/ Goto("sdb_clear", "sdb_clear_loop")
  \/ mh = {} /\ Goto("sdb_clear_loop", "rtlist_clear")
  \/ Goto("rtlist_clear", "rtlist_clear_loop")
  \/ rtlist = {} /\ Goto("rtlist_clear_loop", "mfdb_clear")
  \/ \E i \in Iface : StaAdd(i) \/ StaDel(i)
  \/ (\A m \in mh : m[2] # sta) /\ Goto("sta_sdb", "sta_rtport")
  \/ StaGone

\* Every step is one of these, or the clear of the MFDB in a disable.
LEMMA StepCases ==
  ASSUME IgscTypeOK, IgscNext
  PROVE  SdbStep \/ IfStep \/ CfgStep \/ DisableMfdbClear
<1>1. mh_timer \subseteq mh /\ rtlist \subseteq Iface \X Router
  BY DEF IgscTypeOK, RtPort
<1>2. CASE Frame
  BY <1>2 DEF Frame, SdbStep, IfStep
<1>3. CASE Timer
  <2>1. CASE \E m \in mh_timer : MhTimer(m)
    BY <1>1, <2>1 DEF SdbStep
  <2>2. CASE \E e \in rtlist : RtTimer(e[1], e[2])
    BY <1>1, <2>2 DEF IfStep
  <2> QED
    BY <1>3, <2>1, <2>2 DEF Timer, SdbStep
<1>4. CASE Command
  BY <1>4 DEF Command, SdbStep, IfStep, CfgStep
<1>5. CASE DisableStep
  <2>1. CASE \E e \in rtlist : RtlistClearLoop(e[1], e[2])
    BY <1>1, <2>1 DEF IfStep
  <2> QED
    BY <1>5, <2>1 DEF DisableStep, SdbStep, IfStep, CfgStep
<1>6. CASE StaStep
  <2>1. ASSUME NEW r \in Router, StaRtportLoop(r) PROVE IfStep
    <3>1. sta \in Iface
      BY <1>1, <2>1 DEF StaRtportLoop
    <3> QED
      BY <2>1, <3>1 DEF IfStep
  <2> QED
    BY <1>6, <2>1 DEF StaStep, SdbStep, CfgStep
<1> QED
  BY <1>2, <1>3, <1>4, <1>5, <1>6 DEF IgscNext

\* Every step calls at most one operation of the layer.
LEMMA LayerStep ==
  ASSUME IgscTypeOK, [IgscNext]_vars
  PROVE  [Next]_evars
<1>1. ASSUME NEW g \in Group, NEW i \in Iface, UNCHANGED <<emf_enable, ifl>>,
             \/ membership_add(g, i) \/ membership_add_fails(g, i)
             \/ add_then_del(g, i) \/ membership_del(g, i)
             \/ membership_del_fails(g, i) \/ UNCHANGED mfdb
      PROVE  [Next]_evars
  BY <1>1 DEF Next, MfdbAdd, MfdbDel, evars, mfdb, ifl
<1>2. ASSUME NEW i \in Iface, UNCHANGED <<emf_enable, mfdb>>,
             \/ iflist_add(i) \/ iflist_del(i)
             \/ rtport_add(i) \/ rtport_del(i) \/ rtport_add_then_del(i)
             \/ uffp_add(i) \/ uffp_del(i) \/ UNCHANGED ifl
      PROVE  [Next]_evars
  BY <1>2 DEF Next, IfChange, RtportChange, UffpChange, evars, mfdb, ifl
<1>3. ASSUME NEW m \in mh PROVE m[1] \in Group /\ m[2] \in Iface
  BY <1>3 DEF IgscTypeOK, Member
<1>4. CASE SdbStep
  <2>1. ASSUME NEW g \in Group, NEW i \in Iface, NEW h \in Host, Report(g, i, h)
        PROVE  [Next]_evars
    BY <1>1, <2>1 DEF Report, member_refresh, member_new, member_add_fails
  <2>2. ASSUME NEW m \in mh, mh_delete(m), UNCHANGED <<emf_enable, ifl>>
        PROVE  [Next]_evars
    BY <1>1, <1>3, <2>2 DEF mh_delete
  <2>3. ASSUME NEW m \in mh, sdb_drop(m), UNCHANGED <<emf_enable, ifl>>
        PROVE  [Next]_evars
    BY <1>1, <1>3, <2>3 DEF sdb_drop
  <2>4. ASSUME NEW g \in Group, NEW i \in Iface, NEW h \in Host, Leave(g, i, h)
        PROVE  [Next]_evars
    BY <1>1, <2>2, <2>4 DEF Leave, member_del
  <2>5. ASSUME NEW m \in mh, MhTimer(m) \/ SdbClearLoop(m) \/ StaSdbLoop(m)
        PROVE  [Next]_evars
    BY <2>2, <2>3, <2>5 DEF MhTimer, SdbClearLoop, StaSdbLoop
  <2>6. ASSUME NEW g \in Group, Data(g) PROVE [Next]_evars
    BY <2>6 DEF Data, Next, DataFrame
  <2>7. ASSUME NEW g \in Group, NEW i \in Iface, CfgMfdbAdd(g, i) \/ CfgMfdbDel(g, i)
        PROVE  [Next]_evars
    BY <1>1, <2>7 DEF CfgMfdbAdd, CfgMfdbDel
  <2>8. CASE CfgMfdbClear
    BY <2>8 DEF CfgMfdbClear, Next, MfdbClear
  <2>9. CASE StaleRtTimer
    BY <2>9 DEF StaleRtTimer
  <2> QED
    BY <1>4, <2>1, <2>4, <2>5, <2>6, <2>7, <2>8, <2>9 DEF SdbStep
<1>5. CASE IfStep
  <2>1. ASSUME NEW i \in Iface, NEW r \in Router,
               \/ Query(i, r) \/ RtTimer(i, r) \/ RtlistClearLoop(i, r)
               \/ sta = i /\ StaRtportLoop(r)
        PROVE  [Next]_evars
    BY <1>2, <2>1 DEF Query, RtTimer, RtlistClearLoop, StaRtportLoop
  <2>2. ASSUME NEW i \in Iface, CfgIfAdd(i) \/ CfgIfDel(i) \/ CfgRefs(i)
        PROVE  [Next]_evars
    BY <1>2, <2>2 DEF CfgIfAdd, CfgIfDel, CfgRefs
  <2>3. CASE DisableIflistClear
    BY <2>3 DEF DisableIflistClear, Next, IfClear
  <2> QED
    BY <1>5, <2>1, <2>2, <2>3 DEF IfStep
<1>6. CASE CfgStep
  <2>1. CASE EmfEnable \/ EmfDisable
    BY <2>1 DEF EmfEnable, EmfDisable, Next, SetEnable
  <2> QED
    BY <1>6, <2>1 DEF CfgStep, Goto, StaAdd, StaDel, StaGone
<1>7. CASE DisableMfdbClear
  BY <1>7 DEF DisableMfdbClear, Next, MfdbClear
<1>8. CASE UNCHANGED vars
  BY <1>8 DEF vars, evars
<1> QED
  BY <1>4, <1>5, <1>6, <1>7, <1>8, StepCases

-----------------------------------------------------------------------------
(***************************************************************************)
(* The shapes of a step, by what happens to the host entries, their counts *)
(* and the counts of the MFDB.                                             *)
(***************************************************************************)

\* Nothing but the statistics, which a failed report leaves high.
Quiet ==
  /\ UNCHANGED sdb
  /\ Kept
  /\ stats' \in [groups : Int, members : Int]
  /\ stats'.groups >= stats.groups
  /\ stats'.members >= stats.members
  /\ fault' # fault => \/ fault' = "timer" /\ mh_timer # mh
                       \/ fault' = "rtlist" /\ stale_timer # {}
                       \/ fault' = "rtlist_next"

\* A new host.
Joined(m) ==
  LET g == m[1]  i == m[2]  n == sdb_ref[g][i] IN
  /\ m \notin mh
  /\ emf_enable /\ i \in ports /\ pc \notin Locked
  /\ mh' = mh \cup {m}
  /\ mh_timer' = mh_timer \cup {m}
  /\ stats' = [groups |-> GroupCounted(g), members |-> stats.members + 1]
  /\ IF n # NoMi
     THEN /\ sdb_ref' = [sdb_ref EXCEPT ![g][i] = n + 1]
          /\ fault' = IF n > 0 THEN fault ELSE "mi_ref"
          /\ Kept
     ELSE /\ sdb_ref' = [sdb_ref EXCEPT ![g][i] = 1]
          /\ fault' = fault
          /\ Raised(g, i)

\* A host goes, by its leave, its timer or a clear; or only its timer does,
\* when the MFDB has no entry for its interface.
Parted(m) ==
  LET g == m[1]  i == m[2]  n == sdb_ref[g][i] - 1 IN
  /\ mh_timer' = mh_timer \ {m}
  /\ fault' # fault => fault' = "timer" /\ m \notin mh_timer
  /\ \/ /\ n = 0 /\ RefOf(g, i) = 0 /\ Kept
        /\ sdb_ref' = [sdb_ref EXCEPT ![g][i] = 0]
        /\ UNCHANGED <<mh, stats>>
     \/ /\ IF n = 0 THEN Lowered(g, i) \/ (RefOf(g, i) = 0 /\ Kept) ELSE Kept
        /\ sdb_ref' = [sdb_ref EXCEPT ![g][i] = IF n = 0 THEN NoMi ELSE n]
        /\ mh' = mh \ {m}
        /\ \/ UNCHANGED stats
           \/ stats' = [groups  |-> IF Hosts(g) = {m} THEN stats.groups - 1
                                                      ELSE stats.groups,
                        members |-> stats.members - 1]

\* A static entry comes or goes.
Static(g, i) ==
  /\ UNCHANGED <<sdb, stats, fault>>
  /\ \/ "MFDB_ADD" \in Cmds /\ Raised(g, i)
     \/ "MFDB_DEL" \in Cmds /\ Lowered(g, i)

\* The MFDB is emptied.
Cleared ==
  /\ UNCHANGED <<sdb, stats, fault>>
  /\ "MFDB_CLEAR" \in Cmds \/ pc = "mfdb_clear"
  /\ Zeroed

Shape ==
  \/ Quiet
  \/ \E m \in Member : Joined(m)
  \/ \E m \in mh : Parted(m)
  \/ \E g \in Group, i \in Iface : Static(g, i)
  \/ Cleared

\* A report.
LEMMA ReportShape ==
  ASSUME MfdbInv, IgscTypeOK, NEW g \in Group, NEW i \in Iface, NEW h \in Host,
         Report(g, i, h)
  PROVE  Quiet \/ Joined(<<g, i, h>>)
<1>1. stats \in [groups : Int, members : Int]
  BY DEF IgscTypeOK
<1>2. CASE member_refresh(<<g, i, h>>)
  <2>1. Kept
    BY <1>2, UnchangedKept DEF member_refresh
  <2> QED
    BY <1>1, <1>2, <2>1 DEF member_refresh, Quiet
<1>3. CASE member_new(g, i, h)
  <2>1. sdb_ref[g][i] # NoMi => Kept
    BY <1>3, UnchangedKept DEF member_new
  <2>2. sdb_ref[g][i] = NoMi => Raised(g, i)
    BY <1>3, AddRaises DEF member_new
  <2> QED
    BY <1>3, <2>1, <2>2 DEF member_new, Joined, Report, IgmpInput, Softirq
<1>4. CASE member_add_fails(g, i, h)
  <2>1. Kept
    BY <1>4, OtherwiseKept DEF member_add_fails
  <2>2. GroupCounted(g) \in Int /\ GroupCounted(g) >= stats.groups
    BY <1>1 DEF GroupCounted
  <2>3. /\ stats' \in [groups : Int, members : Int]
        /\ stats'.groups >= stats.groups /\ stats'.members >= stats.members
    BY <1>1, <1>4, <2>2 DEF member_add_fails
  <2> QED
    BY <1>4, <2>1, <2>3 DEF member_add_fails, Quiet
<1> QED
  BY <1>2, <1>3, <1>4 DEF Report

\* igsc_sdb_mh_delete() together with the timer.
LEMMA MhDeleteShape ==
  ASSUME MfdbInv, IgscTypeOK, NEW m \in mh, mh_delete(m),
         mh_timer' = mh_timer \ {m}, UNCHANGED fault
  PROVE  Parted(m)
<1> DEFINE g == m[1]
           i == m[2]
           n == sdb_ref[g][i] - 1
<1>1. g \in Group /\ i \in Iface
  BY DEF IgscTypeOK, Member
<1>2. CASE /\ n = 0 /\ ~HasMembership(g, i)
           /\ membership_del_fails(g, i)
           /\ sdb_ref' = [sdb_ref EXCEPT ![g][i] = 0]
           /\ UNCHANGED <<mh, stats>>
  <2>1. Kept /\ RefOf(g, i) = 0
    BY <1>1, <1>2, OtherwiseKept, RefOfNat
  <2> QED
    BY <1>2, <2>1 DEF Parted
<1>3. CASE /\ IF n = 0 THEN membership_del(g, i) ELSE UNCHANGED mfdb
           /\ sdb_ref' = [sdb_ref EXCEPT ![g][i] = IF n = 0 THEN NoMi ELSE n]
           /\ mh' = mh \ {m}
           /\ stats' = [groups  |-> IF Hosts(g) = {m} THEN stats.groups - 1
                                                      ELSE stats.groups,
                        members |-> stats.members - 1]
  <2>1. IF n = 0 THEN Lowered(g, i) ELSE Kept
    BY <1>1, <1>3, DelLowers, UnchangedKept
  <2> QED
    BY <1>3, <2>1 DEF Parted
<1> QED
  BY <1>2, <1>3 DEF mh_delete

\* One turn of a clearing loop.
LEMMA DropShape ==
  ASSUME MfdbInv, IgscTypeOK, NEW m \in mh, sdb_drop(m)
  PROVE  Parted(m)
<1> DEFINE g == m[1]
           i == m[2]
           n == sdb_ref[g][i] - 1
<1>1. g \in Group /\ i \in Iface
  BY DEF IgscTypeOK, Member
<1>2. IF n = 0 THEN Lowered(g, i) \/ (RefOf(g, i) = 0 /\ Kept) ELSE Kept
  <2>1. CASE n = 0 /\ membership_del(g, i)
    BY <1>1, <2>1, DelLowers
  <2>2. CASE n = 0 /\ membership_del_fails(g, i)
    BY <1>1, <2>2, OtherwiseKept, RefOfNat DEF membership_del_fails
  <2>3. CASE n # 0 /\ UNCHANGED mfdb
    BY <2>3, UnchangedKept
  <2> QED
    BY <2>1, <2>2, <2>3 DEF sdb_drop
<1> QED
  BY <1>2 DEF sdb_drop, Parted

\* Every step has one of the shapes.
LEMMA StepShape ==
  ASSUME MfdbInv, IgscTypeOK, [IgscNext]_vars
  PROVE  Shape
<1>1. stats \in [groups : Int, members : Int]
  BY DEF IgscTypeOK
<1>2. ASSUME UNCHANGED <<sdb, stats, fault>>, Kept PROVE Quiet
  <2>1. stats.groups >= stats.groups /\ stats.members >= stats.members
    BY <1>1
  <2> QED
    BY <1>1, <1>2, <2>1 DEF Quiet
<1>3. ASSUME UNCHANGED <<sdb, stats, fault, mfdb>> PROVE Quiet
  BY <1>2, <1>3, UnchangedKept
<1>4. CASE SdbStep
  <2>1. ASSUME NEW g \in Group, NEW i \in Iface, NEW h \in Host, Report(g, i, h)
        PROVE  Shape
    <3>1. <<g, i, h>> \in Member
      BY DEF Member
    <3> QED
      BY <2>1, <3>1, ReportShape DEF Shape
  <2>2. ASSUME NEW g \in Group, NEW i \in Iface, NEW h \in Host, Leave(g, i, h)
        PROVE  Shape
    <3> DEFINE m == <<g, i, h>>
    <3>1. m \in mh
      BY <2>2 DEF Leave, member_del
    <3>2. CASE m \in mh_timer
      BY <2>2, <3>1, <3>2, MhDeleteShape DEF Leave, member_del, Shape
    <3>3. CASE m \notin mh_timer
      <4>1. Kept
        BY <2>2, <3>3, UnchangedKept DEF Leave, member_del
      <4>2. stats.groups >= stats.groups /\ stats.members >= stats.members
        BY <1>1
      <4>3. Quiet
        BY <1>1, <2>2, <3>1, <3>3, <4>1, <4>2 DEF Leave, member_del, Quiet
      <4> QED
        BY <4>3 DEF Shape
    <3> QED
      BY <3>2, <3>3
  <2>3. ASSUME NEW g \in Group, Data(g) PROVE Shape
    BY <1>2, <2>3, LookupKept DEF Data, Shape
  <2>4. ASSUME NEW m \in mh, MhTimer(m) PROVE Shape
    BY <2>4, MhDeleteShape DEF MhTimer, Shape
  <2>5. ASSUME NEW m \in mh, SdbClearLoop(m) \/ StaSdbLoop(m) PROVE Shape
    BY <2>5, DropShape DEF SdbClearLoop, StaSdbLoop, Shape
  <2>6. CASE StaleRtTimer
    <3>1. Kept
      BY <2>6, UnchangedKept DEF StaleRtTimer, evars, mfdb
    <3>2. stats.groups >= stats.groups /\ stats.members >= stats.members
      BY <1>1
    <3> QED
      BY <1>1, <2>6, <3>1, <3>2 DEF StaleRtTimer, Quiet, Shape
  <2>7. ASSUME NEW g \in Group, NEW i \in Iface, CfgMfdbAdd(g, i) PROVE Shape
    <3>1. CASE membership_add(g, i)
      BY <2>7, <3>1, AddRaises DEF CfgMfdbAdd, Idle, Static, Shape
    <3>2. CASE membership_add_fails(g, i)
      BY <1>2, <2>7, <3>2, OtherwiseKept DEF CfgMfdbAdd, Shape
    <3> QED
      BY <2>7, <3>1, <3>2 DEF CfgMfdbAdd
  <2>8. ASSUME NEW g \in Group, NEW i \in Iface, CfgMfdbDel(g, i) PROVE Shape
    <3>1. CASE membership_del(g, i)
      BY <2>8, <3>1, DelLowers DEF CfgMfdbDel, Idle, Static, Shape
    <3>2. CASE membership_del_fails(g, i)
      BY <1>2, <2>8, <3>2, OtherwiseKept DEF CfgMfdbDel, Shape
    <3> QED
      BY <2>8, <3>1, <3>2 DEF CfgMfdbDel
  <2>9. CASE CfgMfdbClear
    BY <2>9, ClearZeroes DEF CfgMfdbClear, Idle, Cleared, Shape
  <2> QED
    BY <1>4, <2>1, <2>2, <2>3, <2>4, <2>5, <2>6, <2>7, <2>8, <2>9 DEF SdbStep
<1>5. CASE IfStep
  <2>1. /\ UNCHANGED <<sdb, stats, mfdb>>
        /\ fault' = fault \/ fault' = "rtlist_next"
    BY <1>5 DEF IfStep, Query, RtTimer, RtlistClearLoop, StaRtportLoop, CfgIfAdd,
                CfgIfDel, CfgRefs, DisableIflistClear
  <2>2. Kept
    BY <2>1, UnchangedKept
  <2>3. stats.groups >= stats.groups /\ stats.members >= stats.members
    BY <1>1
  <2> QED
    BY <1>1, <2>1, <2>2, <2>3 DEF Quiet, Shape
<1>6. CASE CfgStep
  <2>1. UNCHANGED <<sdb, stats, fault, mfdb>>
    BY <1>6 DEF CfgStep, EmfEnable, EmfDisable, Goto, StaAdd, StaDel, StaGone,
                evars, mfdb
  <2> QED
    BY <1>3, <2>1 DEF Shape
<1>7. CASE DisableMfdbClear
  BY <1>7, ClearZeroes DEF DisableMfdbClear, At, Cleared, Shape
<1>8. CASE UNCHANGED vars
  BY <1>3, <1>8 DEF vars, evars, mfdb, Shape
<1> QED
  BY <1>4, <1>5, <1>6, <1>7, <1>8, StepCases

-----------------------------------------------------------------------------
(***************************************************************************)
(* The general invariant.                                                  *)
(***************************************************************************)

\* The snooping database keeps its types.
LEMMA SdbTypeStep ==
  ASSUME IgscTypeOK, Shape
  PROVE  /\ mh' \in SUBSET Member
         /\ mh_timer' \in SUBSET mh'
         /\ sdb_ref' \in [Group -> [Iface -> Int]]
         /\ stats' \in [groups : Int, members : Int]
         /\ fault' \in {"none", "timer", "mi_ref", "rtlist", "rtlist_next"}
<1>1. /\ mh \in SUBSET Member
      /\ mh_timer \in SUBSET mh
      /\ sdb_ref \in [Group -> [Iface -> Int]]
      /\ stats \in [groups : Int, members : Int]
      /\ fault \in {"none", "timer", "mi_ref", "rtlist", "rtlist_next"}
  BY DEF IgscTypeOK
<1>2. ASSUME NEW m \in Member PROVE m[1] \in Group /\ m[2] \in Iface
  BY DEF Member
<1>3. ASSUME NEW g \in Group, NEW i \in Iface, NEW n \in Int
      PROVE  [sdb_ref EXCEPT ![g][i] = n] \in [Group -> [Iface -> Int]]
  BY <1>1
<1>4. NoMi \in Int
  BY DEF NoMi
<1>5. CASE Quiet
  BY <1>1, <1>5 DEF Quiet, sdb
<1>6. ASSUME NEW m \in Member, Joined(m)
      PROVE  /\ sdb_ref' \in [Group -> [Iface -> Int]]
             /\ stats' \in [groups : Int, members : Int]
  <2>1. sdb_ref[m[1]][m[2]] \in Int
    BY <1>1, <1>2
  <2>2. PICK n \in Int : sdb_ref' = [sdb_ref EXCEPT ![m[1]][m[2]] = n]
    BY <1>6, <2>1 DEF Joined
  <2>3. GroupCounted(m[1]) \in Int
    BY <1>1 DEF GroupCounted
  <2> QED
    BY <1>1, <1>2, <1>3, <1>6, <2>2, <2>3 DEF Joined
<1>7. ASSUME NEW m \in Member, Joined(m)
      PROVE  /\ mh' \in SUBSET Member
             /\ mh_timer' \in SUBSET mh'
             /\ fault' \in {"none", "timer", "mi_ref", "rtlist", "rtlist_next"}
  BY <1>1, <1>7 DEF Joined
<1>8. ASSUME NEW m \in mh, Parted(m)
      PROVE  /\ sdb_ref' \in [Group -> [Iface -> Int]]
             /\ stats' \in [groups : Int, members : Int]
  <2>1. sdb_ref[m[1]][m[2]] \in Int
    BY <1>1, <1>2
  <2>2. PICK n \in Int : sdb_ref' = [sdb_ref EXCEPT ![m[1]][m[2]] = n]
    BY <1>4, <1>8, <2>1 DEF Parted
  <2>3. sdb_ref' \in [Group -> [Iface -> Int]]
    BY <1>1, <1>2, <1>3, <2>2
  <2>4. stats' \in [groups : Int, members : Int]
    BY <1>1, <1>8 DEF Parted
  <2> QED
    BY <2>3, <2>4
<1>9. ASSUME NEW m \in mh, Parted(m)
      PROVE  /\ mh' \in SUBSET Member
             /\ mh_timer' \in SUBSET mh'
             /\ fault' \in {"none", "timer", "mi_ref", "rtlist", "rtlist_next"}
  BY <1>1, <1>9 DEF Parted
<1>10. CASE UNCHANGED <<sdb, stats, fault>>
  BY <1>1, <1>10 DEF sdb
<1> QED
  BY <1>5, <1>6, <1>7, <1>8, <1>9, <1>10 DEF Shape, Static, Cleared

\* So do the router list and the configuration thread.
LEMMA CfgTypeStep ==
  ASSUME IgscTypeOK, [IgscNext]_vars
  PROVE  /\ rtlist' \in SUBSET RtPort
         /\ stale_timer' \in SUBSET RtPort
         /\ ports' \in SUBSET Iface
         /\ pc' \in PcLabel
         /\ sta' \in Iface \cup {NULL}
<1>1. /\ rtlist \in SUBSET RtPort
      /\ stale_timer \in SUBSET RtPort
      /\ ports \in SUBSET Iface
      /\ pc \in PcLabel
      /\ sta \in Iface \cup {NULL}
  BY DEF IgscTypeOK
<1>2. CASE UNCHANGED <<rt, cfg>>
  BY <1>1, <1>2 DEF rt, cfg
<1>3. CASE SdbStep
  BY <1>2, <1>3 DEF SdbStep, Report, Leave, Data, MhTimer, SdbClearLoop, StaSdbLoop,
                    StaleRtTimer, CfgMfdbAdd, CfgMfdbDel, CfgMfdbClear, rt, cfg
<1>4. CASE IfStep
  <2>1. ASSUME NEW i \in Iface, NEW r \in Router,
               \/ Query(i, r) \/ RtTimer(i, r) \/ RtlistClearLoop(i, r)
               \/ sta = i /\ StaRtportLoop(r)
        PROVE  rtlist' \in SUBSET RtPort /\ stale_timer' \in SUBSET RtPort /\ UNCHANGED cfg
    BY <1>1, <2>1 DEF Query, RtTimer, RtlistClearLoop, StaRtportLoop, RtPort, rt
  <2>2. ASSUME NEW i \in Iface, CfgIfAdd(i) \/ CfgIfDel(i) \/ CfgRefs(i)
        PROVE  ports' \in SUBSET Iface /\ UNCHANGED <<rt, pc, sta>>
    BY <1>1, <2>2 DEF CfgIfAdd, CfgIfDel, CfgRefs, cfg
  <2>3. CASE DisableIflistClear
    BY <1>1, <2>3 DEF DisableIflistClear, PcLabel, rt
  <2> QED
    BY <1>1, <1>4, <2>1, <2>2, <2>3 DEF IfStep, rt, cfg
<1>5. CASE CfgStep
  BY <1>1, <1>5 DEF CfgStep, EmfEnable, EmfDisable, Goto, StaAdd, StaDel, StaGone,
                    PcLabel, Locked, rt, cfg
<1>6. CASE DisableMfdbClear
  BY <1>1, <1>6 DEF DisableMfdbClear, PcLabel, rt
<1>7. CASE UNCHANGED vars
  BY <1>2, <1>7 DEF vars
<1> QED
  BY <1>3, <1>4, <1>5, <1>6, <1>7, StepCases

\* The statistics cover the entries: a host and, with the first or the last
\* of them, its group.
LEMMA StatsStep ==
  ASSUME IgscTypeOK, IsFiniteSet(mh), IsFiniteSet(SnoopedGroups),
         StatsCoverEntries, Shape
  PROVE  IsFiniteSet(mh)' /\ IsFiniteSet(SnoopedGroups)' /\ StatsCoverEntries'
<1>1. /\ stats \in [groups : Int, members : Int]
      /\ mh \in SUBSET Member
  BY DEF IgscTypeOK
<1>2. Cardinality(mh) \in Nat /\ Cardinality(SnoopedGroups) \in Nat
  BY FS_CardinalityType
<1>3. stats.members >= Cardinality(mh) /\ stats.groups >= Cardinality(SnoopedGroups)
  BY DEF StatsCoverEntries, SnoopedGroups
<1>4. SUFFICES /\ IsFiniteSet(mh') /\ IsFiniteSet(SnoopedGroups')
               /\ stats'.members >= Cardinality(mh')
               /\ stats'.groups >= Cardinality(SnoopedGroups')
  BY DEF StatsCoverEntries, SnoopedGroups
<1>5. CASE /\ UNCHANGED mh
           /\ stats'.groups >= stats.groups /\ stats'.members >= stats.members
           /\ stats' \in [groups : Int, members : Int]
  <2>1. SnoopedGroups' = SnoopedGroups
    BY <1>5 DEF SnoopedGroups, Hosts
  <2> QED
    BY <1>1, <1>2, <1>3, <1>5, <2>1
<1>6. ASSUME NEW m \in Member, Joined(m) PROVE <1>4!1
  <2>1. m[1] \in Group
    BY DEF Member
  <2>2. SnoopedGroups' = SnoopedGroups \cup {m[1]}
    BY <1>6, <2>1 DEF Joined, SnoopedGroups, Hosts
  <2>3. m[1] \in SnoopedGroups <=> Hosts(m[1]) # {}
    BY <2>1 DEF SnoopedGroups
  <2>4. mh' = mh \cup {m} /\ m \notin mh
    BY <1>6 DEF Joined
  <2>5. /\ stats'.members = stats.members + 1
        /\ stats'.groups = IF m[1] \in SnoopedGroups THEN stats.groups ELSE stats.groups + 1
    BY <1>6, <2>3 DEF Joined, GroupCounted
  <2>6. IsFiniteSet(mh') /\ Cardinality(mh') = Cardinality(mh) + 1
    BY <2>4, FS_AddElement
  <2>7. /\ IsFiniteSet(SnoopedGroups')
        /\ Cardinality(SnoopedGroups') = IF m[1] \in SnoopedGroups
                                         THEN Cardinality(SnoopedGroups)
                                         ELSE Cardinality(SnoopedGroups) + 1
    BY <2>2, FS_AddElement
  <2> QED
    BY <1>1, <1>2, <1>3, <2>5, <2>6, <2>7
<1>7. ASSUME NEW m \in mh, Parted(m), mh' = mh \ {m} PROVE <1>4!1
  <2>1. m[1] \in Group
    BY <1>1 DEF Member
  <2>2. IsFiniteSet(mh') /\ Cardinality(mh') = Cardinality(mh) - 1
    BY <1>7, FS_RemoveElement
  <2>3. CASE Hosts(m[1]) = {m}
    <3>1. SnoopedGroups' = SnoopedGroups \ {m[1]} /\ m[1] \in SnoopedGroups
      BY <1>7, <2>1, <2>3 DEF SnoopedGroups, Hosts
    <3>2. /\ IsFiniteSet(SnoopedGroups')
          /\ Cardinality(SnoopedGroups') = Cardinality(SnoopedGroups) - 1
      BY <3>1, FS_RemoveElement
    <3>3. stats'.members >= stats.members - 1 /\ stats'.groups >= stats.groups - 1
      BY <1>1, <1>7, <2>3 DEF Parted
    <3>4. stats'.members \in Int /\ stats'.groups \in Int
      BY <1>1, <1>7, <2>3 DEF Parted
    <3> QED
      BY <1>1, <1>2, <1>3, <2>2, <3>2, <3>3, <3>4
  <2>4. CASE Hosts(m[1]) # {m}
    <3>1. SnoopedGroups' = SnoopedGroups
      BY <1>7, <2>1, <2>4 DEF SnoopedGroups, Hosts
    <3>2. stats'.members >= stats.members - 1 /\ stats'.groups >= stats.groups
      BY <1>1, <1>7, <2>4 DEF Parted
    <3>3. stats'.members \in Int /\ stats'.groups \in Int
      BY <1>1, <1>7, <2>4 DEF Parted
    <3> QED
      BY <1>1, <1>2, <1>3, <2>2, <3>1, <3>2, <3>3
  <2> QED
    BY <2>3, <2>4
<1>8. ASSUME UNCHANGED <<mh, stats>> PROVE <1>4!1
  <2>1. stats.groups >= stats.groups /\ stats.members >= stats.members
    BY <1>1
  <2> QED
    BY <1>1, <1>5, <1>8, <2>1
<1>9. ASSUME NEW m \in mh, Parted(m) PROVE <1>4!1
  BY <1>7, <1>8, <1>9 DEF Parted
<1> QED
  BY <1>5, <1>6, <1>8, <1>9 DEF Shape, Quiet, Static, Cleared, sdb

\* What no operation on the snooping database touches.
LEMMA SdbStepKeeps ==
  ASSUME SdbStep
  PROVE  UNCHANGED <<emf_enable, iflist, uffp_ref, rtport_ref, rtlist, stale_timer,
                     ports, pc, sta>>
  BY DEF SdbStep, Report, Leave, Data, MhTimer, SdbClearLoop, StaSdbLoop, StaleRtTimer,
         CfgMfdbAdd, CfgMfdbDel, CfgMfdbClear, evars, ifl, rt, cfg

\* Host entries are added to an enabled instance only.
LEMMA HostsGrow ==
  ASSUME Shape
  PROVE  \/ mh' \subseteq mh
         \/ \E m \in Member : /\ emf_enable /\ m[2] \in ports /\ pc \notin Locked
                              /\ mh' = mh \cup {m}
<1>1. ASSUME NEW m \in Member, Joined(m)
      PROVE  emf_enable /\ m[2] \in ports /\ pc \notin Locked /\ mh' = mh \cup {m}
  BY <1>1 DEF Joined
<1>2. ASSUME NEW m \in mh, Parted(m) PROVE mh' \subseteq mh
  BY <1>2 DEF Parted
<1> QED
  BY <1>1, <1>2 DEF Shape, Quiet, Static, Cleared, sdb

\* A disable clears for good: nothing comes back between its steps.
LEMMA DisableStepInv ==
  ASSUME IgscTypeOK, DisablePhase, Shape, [IgscNext]_vars
  PROVE  DisablePhase'
<1>1. CASE SdbStep
  <2>1. UNCHANGED <<emf_enable, pc, rtlist>>
    BY <1>1, SdbStepKeeps
  <2>2. mh' \subseteq mh \/ emf_enable
    BY HostsGrow
  <2> QED
    BY <2>1, <2>2 DEF DisablePhase
<1>2. CASE IfStep
  <2>1. ASSUME NEW i \in Iface, NEW r \in Router,
               \/ Query(i, r) \/ RtTimer(i, r) \/ RtlistClearLoop(i, r)
               \/ sta = i /\ StaRtportLoop(r)
        PROVE  /\ UNCHANGED <<emf_enable, pc, mh>>
               /\ emf_enable \/ rtlist' \subseteq rtlist
    BY <2>1 DEF Query, IgmpInput, RtTimer, RtlistClearLoop, StaRtportLoop, sdb, rt, cfg
  <2>2. ASSUME NEW i \in Iface, CfgIfAdd(i) \/ CfgIfDel(i) \/ CfgRefs(i)
        PROVE  UNCHANGED <<emf_enable, pc, mh, rtlist>>
    BY <2>2 DEF CfgIfAdd, CfgIfDel, CfgRefs, sdb, rt, cfg
  <2>3. CASE DisableIflistClear
    BY <2>3 DEF DisableIflistClear, At, sdb, rt, DisablePhase
  <2>4. CASE /\ UNCHANGED <<emf_enable, pc, mh>>
             /\ emf_enable \/ rtlist' \subseteq rtlist
    BY <2>4 DEF DisablePhase
  <2> QED
    BY <1>2, <2>1, <2>2, <2>3, <2>4 DEF IfStep
<1>3. CASE CfgStep
  <2>1. UNCHANGED <<mh, rtlist>>
    BY <1>3 DEF CfgStep, EmfEnable, EmfDisable, Goto, StaAdd, StaDel, StaGone, sdb, rt
  <2>2. CASE EmfEnable \/ EmfDisable
    BY <2>1, <2>2 DEF EmfEnable, EmfDisable, Idle, cfg, DisablePhase
  <2>3. CASE \/ Goto("sdb_clear", "sdb_clear_loop")
             \/ mh = {} /\ Goto("sdb_clear_loop", "rtlist_clear")
             \/ Goto("rtlist_clear", "rtlist_clear_loop")
             \/ rtlist = {} /\ Goto("rtlist_clear_loop", "mfdb_clear")
             \/ Goto("sta_sdb", "sta_rtport")
    BY <2>1, <2>3 DEF Goto, At, evars, DisablePhase
  <2>4. ASSUME NEW i \in Iface, StaAdd(i) \/ StaDel(i) PROVE DisablePhase'
    BY <2>1, <2>4 DEF StaAdd, StaDel, Idle, evars, DisablePhase
  <2>5. CASE StaGone
    BY <2>1, <2>5 DEF StaGone, At, evars, DisablePhase
  <2> QED
    BY <1>3, <2>2, <2>3, <2>4, <2>5 DEF CfgStep
<1>4. CASE DisableMfdbClear
  BY <1>4 DEF DisableMfdbClear, At, sdb, rt, DisablePhase
<1>5. CASE UNCHANGED vars
  BY <1>5 DEF vars, evars, sdb, rt, cfg, DisablePhase
<1> QED
  BY <1>1, <1>2, <1>3, <1>4, <1>5, StepCases

\* A router timer is left behind, and the program counter of a removal
\* reached, only through a station's removal; so only then does one run late.
LEMMA StaleStep ==
  ASSUME IgscTypeOK, StaleFromSta, Shape, [IgscNext]_vars
  PROVE  StaleFromSta'
<1> SUFFICES ASSUME "STA" \notin Cmds
             PROVE  /\ stale_timer' = {} /\ pc' \notin {"sta_sdb", "sta_rtport"}
                    /\ RtTimerHasEntry'
  BY DEF StaleFromSta
<1>1. stale_timer = {} /\ pc \notin {"sta_sdb", "sta_rtport"} /\ fault # "rtlist"
  BY DEF StaleFromSta, RtTimerHasEntry
<1>2. RtTimerHasEntry'
  BY <1>1 DEF Shape, Quiet, Joined, Parted, Static, Cleared, RtTimerHasEntry
<1>3. CASE SdbStep
  BY <1>1, <1>2, <1>3, SdbStepKeeps
<1>4. CASE IfStep
  <2>1. ASSUME NEW r \in Router, StaRtportLoop(r) PROVE FALSE
    BY <1>1, <2>1 DEF StaRtportLoop, At
  <2>2. ASSUME NEW i \in Iface, NEW r \in Router,
               Query(i, r) \/ RtTimer(i, r) \/ RtlistClearLoop(i, r)
        PROVE  UNCHANGED <<stale_timer, pc>>
    BY <2>2 DEF Query, RtTimer, RtlistClearLoop, rt, cfg
  <2>3. ASSUME NEW i \in Iface, CfgIfAdd(i) \/ CfgIfDel(i) \/ CfgRefs(i)
        PROVE  UNCHANGED <<stale_timer, pc>>
    BY <2>3 DEF CfgIfAdd, CfgIfDel, CfgRefs, rt, cfg
  <2>4. ASSUME DisableIflistClear
        PROVE  UNCHANGED stale_timer /\ pc' = "idle"
    BY <2>4 DEF DisableIflistClear, rt
  <2> QED
    BY <1>1, <1>2, <1>4, <2>1, <2>2, <2>3, <2>4 DEF IfStep
<1>5. CASE CfgStep
  <2>1. UNCHANGED stale_timer
    BY <1>5 DEF CfgStep, EmfEnable, EmfDisable, Goto, StaAdd, StaDel, StaGone, rt
  <2>2. pc' \notin {"sta_sdb", "sta_rtport"}
    BY <1>1, <1>5 DEF CfgStep, EmfEnable, EmfDisable, Goto, At, StaAdd, StaDel, Idle,
                      StaGone, cfg
  <2> QED
    BY <1>1, <1>2, <2>1, <2>2
<1>6. CASE DisableMfdbClear
  BY <1>1, <1>2, <1>6 DEF DisableMfdbClear, rt
<1>7. CASE UNCHANGED vars
  BY <1>1, <1>2, <1>7 DEF vars, rt, cfg
<1> QED
  BY <1>3, <1>4, <1>5, <1>6, <1>7, StepCases

\* The invariant holds initially ...
LEMMA IgscInitInv == IgscInit => IgscInv
<1> SUFFICES ASSUME IgscInit PROVE IgscInv
  OBVIOUS
<1>1. EmfcInv
  BY InitInv DEF IgscInit, Init
<1>2. TypeOK
  BY <1>1 DEF EmfcInv, MfdbInv, TypeOK
<1>3. IgscTypeOK
  BY <1>2 DEF IgscInit, IgscTypeOK, PcLabel, NoMi
<1>4. SnoopedGroups = {}
  BY DEF IgscInit, SnoopedGroups, Hosts
<1>5. IsFiniteSet(mh) /\ IsFiniteSet(SnoopedGroups) /\ StatsCoverEntries
  BY <1>4, FS_EmptySet DEF IgscInit, StatsCoverEntries, SnoopedGroups
<1>6. DisablePhase /\ StaleFromSta
  BY DEF IgscInit, DisablePhase, StaleFromSta, RtTimerHasEntry
<1> QED
  BY <1>1, <1>3, <1>5, <1>6 DEF IgscInv

\* ... and every step keeps it.
LEMMA IgscNextInv == IgscInv /\ [IgscNext]_vars => IgscInv'
<1> SUFFICES ASSUME IgscInv, [IgscNext]_vars PROVE IgscInv'
  OBVIOUS
<1> USE DEF IgscInv
<1>1. Shape
  BY StepShape DEF EmfcInv
<1>2. EmfcInv'
  BY LayerStep, NextInv
<1>3. TypeOK'
  BY <1>2 DEF EmfcInv, MfdbInv, TypeOK
<1>4. IgscTypeOK'
  BY <1>1, <1>3, SdbTypeStep, CfgTypeStep DEF IgscTypeOK
<1>5. IsFiniteSet(mh)' /\ IsFiniteSet(SnoopedGroups)' /\ StatsCoverEntries'
  BY <1>1, StatsStep
<1>6. DisablePhase' /\ StaleFromSta'
  BY <1>1, DisableStepInv, StaleStep
<1> QED
  BY <1>2, <1>4, <1>5, <1>6

\* So it is an invariant of the specification.
LEMMA IgscInvariance == IgscSpec => []IgscInv
  BY IgscInitInv, IgscNextInv, PTL DEF IgscSpec

\* The snooper, its timers and the configuration code use the layer only
\* through its operations, one per step: whatever is proved of the layer with
\* an arbitrary caller holds of it under the snooper.
THEOREM SnooperIsCaller == IgscSpec => Spec
<1>1. IgscInit => Init
  BY DEF IgscInit, Init
<1>2. IgscInv /\ [IgscNext]_vars => [Next]_evars
  BY LayerStep DEF IgscInv
<1> QED
  BY <1>1, <1>2, IgscInvariance, PTL DEF IgscSpec, Spec

\* Types: heap, counts, program counter and the kinds of fault.
THEOREM IgscTypeCorrect == IgscSpec => []IgscTypeOK
  BY IgscInvariance, PTL DEF IgscInv

\* The statistics never fall below the entries they count.
THEOREM StatsCorrect == IgscSpec => []StatsCoverEntries
  BY IgscInvariance, PTL DEF IgscInv

\* A router timer runs late, for an entry that is freed, only where stations
\* are removed: igsc_rtlist_clear() and igsc_rtlist_timer() leave none behind.
THEOREM RtTimerCorrect ==
  ASSUME "STA" \notin Cmds
  PROVE  IgscSpec => []RtTimerHasEntry
<1>1. IgscInv => RtTimerHasEntry
  BY DEF IgscInv, StaleFromSta
<1> QED
  BY <1>1, IgscInvariance, PTL

\* A disable that has returned has emptied the instance, whatever reports and
\* queries were on their way when it began, and whichever commands and failed
\* allocations came before.
THEOREM DisableEmpties == IgscSpec => []DisabledIsEmpty
<1>1. IgscInv => DisabledIsEmpty
  BY DEF IgscInv, IgscTypeOK, DisablePhase, DisabledIsEmpty
<1> QED
  BY <1>1, IgscInvariance, PTL

-----------------------------------------------------------------------------
(***************************************************************************)
(* Without MFDB_DEL and MFDB_CLEAR.                                        *)
(***************************************************************************)

\* Where a new host counts ...
LEMMA JoinedHosts ==
  ASSUME NEW m \in Member, mh' = mh \cup {m}, NEW g \in Group, NEW i \in Iface
  PROVE  HostsOn(g, i)' = IF m[1] = g /\ m[2] = i THEN HostsOn(g, i) \cup {m}
                                                  ELSE HostsOn(g, i)
  BY DEF HostsOn

\* ... and a former one.
LEMMA PartedHosts ==
  ASSUME NEW m \in Member, mh' = mh \ {m}, NEW g \in Group, NEW i \in Iface
  PROVE  HostsOn(g, i)' = IF m[1] = g /\ m[2] = i THEN HostsOn(g, i) \ {m}
                                                  ELSE HostsOn(g, i)
  BY DEF HostsOn

\* The hosts behind an interface are finitely many.
LEMMA HostsFinite ==
  ASSUME IsFiniteSet(mh), NEW g \in Group, NEW i \in Iface
  PROVE  /\ IsFiniteSet(HostsOn(g, i))
         /\ Cardinality(HostsOn(g, i)) \in Nat
         /\ Cardinality(HostsOn(g, i)) = 0 <=> HostsOn(g, i) = {}
<1>1. HostsOn(g, i) \in SUBSET mh
  BY DEF HostsOn
<1>2. IsFiniteSet(HostsOn(g, i))
  BY <1>1, FS_Subset
<1> QED
  BY <1>2, FS_CardinalityType, FS_EmptySet

\* The value of one count after an update of the table.
LEMMA SdbRefUpdate ==
  ASSUME sdb_ref \in [Group -> [Iface -> Int]], NEW g \in Group, NEW i \in Iface, NEW n,
         sdb_ref' = [sdb_ref EXCEPT ![g][i] = n], NEW h \in Group, NEW j \in Iface
  PROVE  sdb_ref'[h][j] = IF h = g /\ j = i THEN n ELSE sdb_ref[h][j]
  OBVIOUS

\* A new host.
LEMMA JoinedSdb ==
  ASSUME IgscInv, SdbInv, NEW m \in Member, Joined(m)
  PROVE  /\ TimersPending' /\ RefsAreHosts' /\ fault' = fault
         /\ \A k \in mh' : RefOf(k[1], k[2])' # 0
<1> DEFINE g == m[1]
           i == m[2]
<1>1. g \in Group /\ i \in Iface /\ \A k \in mh : k[1] \in Group /\ k[2] \in Iface
  BY DEF Member, IgscInv, IgscTypeOK
<1>2. sdb_ref \in [Group -> [Iface -> Int]] /\ IsFiniteSet(mh) /\ MfdbInv
  BY DEF IgscInv, IgscTypeOK, EmfcInv
<1>3. m \notin mh /\ mh' = mh \cup {m}
  BY DEF Joined
<1>4. TimersPending'
  BY DEF Joined, SdbInv, TimersPending
<1>5. sdb_ref[g][i] = IF HostsOn(g, i) = {} THEN NoMi ELSE Cardinality(HostsOn(g, i))
  BY <1>1 DEF SdbInv, RefsAreHosts
<1>6. /\ IsFiniteSet(HostsOn(g, i))
      /\ Cardinality(HostsOn(g, i)) \in Nat
      /\ Cardinality(HostsOn(g, i)) = 0 <=> HostsOn(g, i) = {}
  BY <1>1, <1>2, HostsFinite
<1>7. m \notin HostsOn(g, i)
  BY <1>3 DEF HostsOn
<1>8. /\ HostsOn(g, i)' = HostsOn(g, i) \cup {m}
      /\ Cardinality(HostsOn(g, i)') = Cardinality(HostsOn(g, i)) + 1
  BY <1>1, <1>3, <1>6, <1>7, JoinedHosts, FS_AddElement
<1>9. ASSUME NEW n, sdb_ref' = [sdb_ref EXCEPT ![g][i] = n],
             n = Cardinality(HostsOn(g, i)) + 1
      PROVE  RefsAreHosts'
  <2> SUFFICES ASSUME NEW h \in Group, NEW j \in Iface
               PROVE  sdb_ref'[h][j] = IF HostsOn(h, j)' = {} THEN NoMi
                                       ELSE Cardinality(HostsOn(h, j)')
    BY DEF RefsAreHosts
  <2>1. sdb_ref'[h][j] = IF h = g /\ j = i THEN n ELSE sdb_ref[h][j]
    BY <1>1, <1>2, <1>9, SdbRefUpdate
  <2>2. CASE h = g /\ j = i
    BY <1>8, <1>9, <2>1, <2>2
  <2>3. CASE ~(h = g /\ j = i)
    <3>1. HostsOn(h, j)' = HostsOn(h, j)
      BY <1>3, <2>3, JoinedHosts
    <3> QED
      BY <2>1, <2>3, <3>1 DEF SdbInv, RefsAreHosts
  <2> QED
    BY <2>2, <2>3
<1>10. CASE sdb_ref[g][i] # NoMi
  <2>1. HostsOn(g, i) # {} /\ sdb_ref[g][i] = Cardinality(HostsOn(g, i))
    BY <1>5, <1>10
  <2>2. fault' = fault /\ sdb_ref' = [sdb_ref EXCEPT ![g][i] = sdb_ref[g][i] + 1] /\ Kept
    BY <1>6, <1>10, <2>1 DEF Joined
  <2>3. RefOf(g, i) # 0
    BY <2>1 DEF SdbInv, HostsOn
  <2>4. \A k \in mh' : RefOf(k[1], k[2])' # 0
    BY <1>1, <1>3, <2>2, <2>3 DEF Kept, SdbInv
  <2> QED
    BY <1>4, <1>9, <2>1, <2>2, <2>4
<1>11. CASE sdb_ref[g][i] = NoMi
  <2>1. HostsOn(g, i) = {}
    BY <1>5, <1>6, <1>11 DEF NoMi
  <2>2. fault' = fault /\ sdb_ref' = [sdb_ref EXCEPT ![g][i] = 1] /\ Raised(g, i)
    BY <1>11 DEF Joined
  <2>3. RefOf(g, i)' # 0
    <3>1. RefOf(g, i) \in Nat /\ RefOf(g, i)' = RefOf(g, i) + 1
      BY <1>1, <1>2, <2>2, RefOfNat DEF Raised
    <3> QED
      BY <3>1
  <2>4. \A k \in mh' : RefOf(k[1], k[2])' # 0
    BY <1>1, <1>3, <2>2, <2>3 DEF Raised, Others, SdbInv
  <2>5. 1 = Cardinality(HostsOn(g, i)) + 1
    BY <1>6, <2>1
  <2> QED
    BY <1>4, <1>9, <2>2, <2>4, <2>5
<1> QED
  BY <1>10, <1>11

\* A host that goes is counted and has its reference in the MFDB: no entry is
\* stuck, and the reference goes with the last host.
LEMMA PartedSdb ==
  ASSUME IgscInv, SdbInv, NEW m \in mh, Parted(m)
  PROVE  /\ TimersPending' /\ RefsAreHosts' /\ fault' = fault
         /\ \A k \in mh' : RefOf(k[1], k[2])' # 0
         /\ mh' = mh \ {m}
         /\ IF HostsOn(m[1], m[2]) = {m} THEN Lowered(m[1], m[2]) ELSE Kept
<1> DEFINE g == m[1]
           i == m[2]
           n == sdb_ref[g][i] - 1
<1>1. m \in Member /\ g \in Group /\ i \in Iface /\ \A k \in mh : k[1] \in Group /\ k[2] \in Iface
  BY DEF Member, IgscInv, IgscTypeOK
<1>2. sdb_ref \in [Group -> [Iface -> Int]] /\ IsFiniteSet(mh) /\ MfdbInv
  BY DEF IgscInv, IgscTypeOK, EmfcInv
<1>3. m \in HostsOn(g, i)
  BY DEF HostsOn
<1>4. sdb_ref[g][i] = Cardinality(HostsOn(g, i))
  BY <1>1, <1>3 DEF SdbInv, RefsAreHosts
<1>5. /\ IsFiniteSet(HostsOn(g, i))
      /\ Cardinality(HostsOn(g, i)) \in Nat
      /\ Cardinality(HostsOn(g, i)) # 0
  BY <1>1, <1>2, <1>3, HostsFinite
<1>6. RefOf(g, i) # 0
  BY DEF SdbInv
<1>7. m \in mh_timer
  BY DEF SdbInv, TimersPending
<1>8. /\ fault' = fault
      /\ mh' = mh \ {m}
      /\ IF n = 0 THEN Lowered(g, i) ELSE Kept
      /\ sdb_ref' = [sdb_ref EXCEPT ![g][i] = IF n = 0 THEN NoMi ELSE n]
      /\ mh_timer' = mh_timer \ {m}
  BY <1>6, <1>7 DEF Parted
<1>9. TimersPending'
  BY <1>8 DEF SdbInv, TimersPending
<1>10. /\ HostsOn(g, i)' = HostsOn(g, i) \ {m}
       /\ Cardinality(HostsOn(g, i)') = n
  BY <1>1, <1>3, <1>4, <1>5, <1>8, PartedHosts, FS_RemoveElement
<1>11. n = 0 <=> HostsOn(g, i)' = {}
  <2>1. IsFiniteSet(HostsOn(g, i)')
    BY <1>5, <1>10, FS_RemoveElement
  <2> QED
    BY <1>10, <2>1, FS_EmptySet
<1>12. n = 0 <=> HostsOn(g, i) = {m}
  BY <1>3, <1>10, <1>11
<1>13. RefsAreHosts'
  <2> SUFFICES ASSUME NEW h \in Group, NEW j \in Iface
               PROVE  sdb_ref'[h][j] = IF HostsOn(h, j)' = {} THEN NoMi
                                       ELSE Cardinality(HostsOn(h, j)')
    BY DEF RefsAreHosts
  <2>1. sdb_ref'[h][j] = IF h = g /\ j = i THEN (IF n = 0 THEN NoMi ELSE n)
                                           ELSE sdb_ref[h][j]
    BY <1>1, <1>2, <1>8, SdbRefUpdate
  <2>2. CASE h = g /\ j = i
    BY <1>10, <1>11, <2>1, <2>2
  <2>3. CASE ~(h = g /\ j = i)
    <3>1. HostsOn(h, j)' = HostsOn(h, j)
      BY <1>1, <1>8, <2>3, PartedHosts
    <3> QED
      BY <2>1, <2>3, <3>1 DEF SdbInv, RefsAreHosts
  <2> QED
    BY <2>2, <2>3
<1>14. ASSUME NEW k \in mh' PROVE RefOf(k[1], k[2])' # 0
  <2>1. k \in mh /\ k # m /\ k[1] \in Group /\ k[2] \in Iface
    BY <1>1, <1>8
  <2>2. CASE n = 0
    <3>1. ~(k[1] = g /\ k[2] = i)
      BY <1>12, <2>1, <2>2 DEF HostsOn
    <3> QED
      BY <1>8, <2>1, <2>2, <3>1 DEF Lowered, Others, SdbInv
  <2>3. CASE n # 0
    BY <1>8, <2>1, <2>3 DEF Kept, SdbInv
  <2> QED
    BY <2>2, <2>3
<1> QED
  BY <1>8, <1>9, <1>12, <1>13, <1>14

\* A step that leaves the host entries alone and does not lower a count.
LEMMA SameSdb ==
  ASSUME SdbInv, UNCHANGED sdb,
         \A k \in mh : RefOf(k[1], k[2]) # 0 => RefOf(k[1], k[2])' # 0
  PROVE  /\ TimersPending' /\ RefsAreHosts'
         /\ \A k \in mh' : RefOf(k[1], k[2])' # 0
<1>1. mh' = mh /\ mh_timer' = mh_timer /\ sdb_ref' = sdb_ref
  BY DEF sdb
<1>2. \A g \in Group, i \in Iface : HostsOn(g, i)' = HostsOn(g, i)
  BY <1>1 DEF HostsOn
<1>3. RefsAreHosts'
  BY <1>1, <1>2 DEF SdbInv, RefsAreHosts
<1> QED
  BY <1>1, <1>3 DEF SdbInv, TimersPending

\* Every step keeps the invariant of the snooping database.
LEMMA SdbInvStep ==
  ASSUME NoMfdbDel, IgscInv, SdbInv, [IgscNext]_vars
  PROVE  SdbInv'
<1>1. Shape
  BY StepShape DEF IgscInv, EmfcInv
<1>3. MfdbInv /\ \A k \in mh : k[1] \in Group /\ k[2] \in Iface
  BY DEF Member, IgscInv, IgscTypeOK, EmfcInv
<1>4. ASSUME TimersPending', RefsAreHosts', fault' = fault,
             \A k \in mh' : RefOf(k[1], k[2])' # 0
      PROVE  SdbInv'
  BY <1>4 DEF SdbInv, SdbNoFault
<1>5. CASE Quiet
  <2>1. /\ TimersPending' /\ RefsAreHosts'
        /\ \A k \in mh' : RefOf(k[1], k[2])' # 0
    BY <1>3, <1>5, SameSdb DEF Quiet, Kept
  <2>2. SdbNoFault'
    BY <1>5 DEF Quiet, SdbInv, TimersPending, SdbNoFault
  <2> QED
    BY <2>1, <2>2 DEF SdbInv
<1>6. ASSUME NEW m \in Member, Joined(m) PROVE SdbInv'
  BY <1>4, <1>6, JoinedSdb
<1>7. ASSUME NEW m \in mh, Parted(m) PROVE SdbInv'
  BY <1>4, <1>7, PartedSdb
<1>8. ASSUME NEW g \in Group, NEW i \in Iface, Static(g, i) PROVE SdbInv'
  <2>1. Raised(g, i) /\ UNCHANGED <<sdb, fault>>
    BY <1>8 DEF Static, NoMfdbDel
  <2>2. RefOf(g, i) \in Nat
    BY <1>3, RefOfNat
  <2>3. RefOf(g, i)' # 0
    BY <2>1, <2>2 DEF Raised
  <2>4. \A k \in mh : RefOf(k[1], k[2]) # 0 => RefOf(k[1], k[2])' # 0
    BY <1>3, <2>1, <2>3 DEF Raised, Others
  <2> QED
    BY <1>4, <2>1, <2>4, SameSdb
<1>9. CASE Cleared
  <2>1. pc = "mfdb_clear" /\ UNCHANGED <<sdb, fault>>
    BY <1>9 DEF Cleared, NoMfdbDel
  <2>2. mh = {}
    BY <2>1 DEF IgscInv, DisablePhase
  <2> QED
    BY <1>4, <2>1, <2>2, SameSdb
<1> QED
  BY <1>1, <1>5, <1>6, <1>7, <1>8, <1>9 DEF Shape

\* So it is an invariant.
LEMMA SdbInvariance ==
  ASSUME NoMfdbDel
  PROVE  IgscSpec => []SdbInv
<1>1. IgscInit => SdbInv
  <2> SUFFICES ASSUME IgscInit PROVE SdbInv
    OBVIOUS
  <2>1. mh = {} /\ \A g \in Group, i \in Iface : HostsOn(g, i) = {}
    BY DEF IgscInit, HostsOn
  <2> QED
    BY <2>1 DEF IgscInit, SdbInv, TimersPending, RefsAreHosts, SdbNoFault
<1>2. IgscInv /\ SdbInv /\ [IgscNext]_vars => SdbInv'
  BY SdbInvStep
<1> QED
  BY <1>1, <1>2, IgscInvariance, PTL DEF IgscSpec

\* No host entry is without its timer, unless references are taken from the
\* MFDB by command.
THEOREM TimersCorrect ==
  ASSUME NoMfdbDel
  PROVE  IgscSpec => []TimersPending
<1>1. SdbInv => TimersPending
  BY DEF SdbInv
<1> QED
  BY <1>1, SdbInvariance, PTL

\* mi_ref of an IGSDB interface entry counts its hosts.
THEOREM RefsCorrect ==
  ASSUME NoMfdbDel
  PROVE  IgscSpec => []RefsAreHosts
<1>1. SdbInv => RefsAreHosts
  BY DEF SdbInv
<1> QED
  BY <1>1, SdbInvariance, PTL

\* Every member gets its group's data, at any number of groups, interfaces and
\* hosts, and with static entries added beside the snooped ones.
THEOREM MembersServed ==
  ASSUME NoMfdbDel
  PROVE  IgscSpec => []MembersForwarded
<1>1. IgscInv /\ SdbInv => MembersForwarded
  <2> SUFFICES ASSUME IgscInv, SdbInv, NEW m \in mh
               PROVE  m[2] \in DataPorts(m[1], NULL)
    BY DEF MembersForwarded
  <2>1. m[1] \in Group /\ m[2] \in Iface
    BY DEF IgscInv, IgscTypeOK, Member
  <2>2. group_find(m[1]) # NULL /\ mi_ref[group_find(m[1])][m[2]] # 0
    BY DEF SdbInv, RefOf
  <2> QED
    BY <2>1, <2>2, IgscAssumption DEF DataPorts, Members
<1> QED
  BY <1>1, IgscInvariance, SdbInvariance, PTL

\* No join, leave, expiry, clear or removal of a station meets a host entry
\* without its timer or an interface entry without a reference.
THEOREM SdbFaultFree ==
  ASSUME NoMfdbDel
  PROVE  IgscSpec => []SdbNoFault
<1>1. SdbInv => SdbNoFault
  BY DEF SdbInv
<1> QED
  BY <1>1, SdbInvariance, PTL

-----------------------------------------------------------------------------
(***************************************************************************)
(* Without static entries: the promise of McastFwd.                        *)
(***************************************************************************)

\* A step that leaves the host entries and the counts alone.
LEMMA ExactKept ==
  ASSUME RefsExact, UNCHANGED mh, Kept
  PROVE  RefsExact'
<1>1. \A g \in Group, i \in Iface : HostsOn(g, i)' = HostsOn(g, i)
  BY DEF HostsOn
<1> QED
  BY <1>1 DEF RefsExact, Kept

\* The snooper holds one reference for all the hosts of an interface.
LEMMA ExactStep ==
  ASSUME NoStatic, IgscInv, SdbInv, RefsExact, [IgscNext]_vars
  PROVE  RefsExact'
<1>1. Shape
  BY StepShape DEF IgscInv, EmfcInv
<1>2. \A k \in mh : k \in Member
  BY DEF IgscInv, IgscTypeOK
<1>3. CASE Quiet
  BY <1>3, ExactKept DEF Quiet, sdb
<1>4. ASSUME NEW m \in Member, Joined(m) PROVE RefsExact'
  <2>1. m[1] \in Group /\ m[2] \in Iface /\ mh' = mh \cup {m}
    BY <1>4 DEF Member, Joined
  <2>2. sdb_ref[m[1]][m[2]] = IF HostsOn(m[1], m[2]) = {} THEN NoMi
                              ELSE Cardinality(HostsOn(m[1], m[2]))
    BY <2>1 DEF SdbInv, RefsAreHosts
  <2>3. Cardinality(HostsOn(m[1], m[2])) \in Nat
    BY <2>1, HostsFinite DEF IgscInv
  <2>4. IF HostsOn(m[1], m[2]) = {} THEN Raised(m[1], m[2]) ELSE Kept
    BY <1>4, <2>2, <2>3 DEF Joined, NoMi
  <2> SUFFICES ASSUME NEW g \in Group, NEW i \in Iface
               PROVE  RefOf(g, i)' = IF HostsOn(g, i)' = {} THEN 0 ELSE 1
    BY DEF RefsExact
  <2>5. HostsOn(g, i)' = IF m[1] = g /\ m[2] = i THEN HostsOn(g, i) \cup {m}
                                                 ELSE HostsOn(g, i)
    BY <2>1, JoinedHosts
  <2>6. RefOf(g, i) = IF HostsOn(g, i) = {} THEN 0 ELSE 1
    BY DEF RefsExact
  <2>7. CASE m[1] = g /\ m[2] = i
    BY <2>4, <2>5, <2>6, <2>7 DEF Raised, Kept
  <2>8. CASE ~(m[1] = g /\ m[2] = i)
    BY <2>1, <2>4, <2>5, <2>6, <2>8 DEF Raised, Others, Kept
  <2> QED
    BY <2>7, <2>8
<1>5. ASSUME NEW m \in mh, Parted(m) PROVE RefsExact'
  <2>1. /\ mh' = mh \ {m}
        /\ IF HostsOn(m[1], m[2]) = {m} THEN Lowered(m[1], m[2]) ELSE Kept
    BY <1>5, PartedSdb
  <2>2. m \in Member /\ m[1] \in Group /\ m[2] \in Iface /\ m \in HostsOn(m[1], m[2])
    BY <1>2 DEF Member, HostsOn
  <2> SUFFICES ASSUME NEW g \in Group, NEW i \in Iface
               PROVE  RefOf(g, i)' = IF HostsOn(g, i)' = {} THEN 0 ELSE 1
    BY DEF RefsExact
  <2>3. HostsOn(g, i)' = IF m[1] = g /\ m[2] = i THEN HostsOn(g, i) \ {m}
                                                 ELSE HostsOn(g, i)
    BY <2>1, <2>2, PartedHosts
  <2>4. RefOf(g, i) = IF HostsOn(g, i) = {} THEN 0 ELSE 1
    BY DEF RefsExact
  <2>5. CASE m[1] = g /\ m[2] = i
    <3>1. CASE HostsOn(g, i) = {m}
      BY <2>1, <2>2, <2>3, <2>4, <2>5, <3>1 DEF Lowered
    <3>2. CASE HostsOn(g, i) # {m}
      BY <2>1, <2>2, <2>3, <2>4, <2>5, <3>2 DEF Kept
    <3> QED
      BY <3>1, <3>2
  <2>6. CASE ~(m[1] = g /\ m[2] = i)
    BY <2>1, <2>2, <2>3, <2>4, <2>6 DEF Lowered, Others, Kept
  <2> QED
    BY <2>5, <2>6
<1>6. ASSUME NEW g \in Group, NEW i \in Iface, Static(g, i) PROVE RefsExact'
  BY <1>6 DEF Static, NoStatic, NoMfdbDel
<1>7. CASE Cleared
  <2>1. pc = "mfdb_clear" /\ UNCHANGED mh /\ Zeroed
    BY <1>7 DEF Cleared, NoStatic, NoMfdbDel, sdb
  <2>2. mh = {}
    BY <2>1 DEF IgscInv, DisablePhase
  <2>3. \A g \in Group, i \in Iface : HostsOn(g, i)' = {}
    BY <2>1, <2>2 DEF HostsOn
  <2> QED
    BY <2>1, <2>3 DEF RefsExact, Zeroed
<1> QED
  BY <1>1, <1>3, <1>4, <1>5, <1>6, <1>7 DEF Shape

\* So the reference is exact in every state.
LEMMA ExactInvariance ==
  ASSUME NoStatic
  PROVE  IgscSpec => []RefsExact
<1>1. IgscInit => RefsExact
  <2> SUFFICES ASSUME IgscInit PROVE RefsExact
    OBVIOUS
  <2>1. \A g \in Group, i \in Iface : HostsOn(g, i) = {}
    BY DEF IgscInit, HostsOn
  <2>2. MfdbInv /\ \A g \in Group : \A p \in MgrpPtr : mgrp_ip[p] # g
    BY InitInv, EmfcAssumption DEF IgscInit, Init, emfc_init, EmfcInv
  <2>3. \A g \in Group, i \in Iface : RefOf(g, i) = 0
    BY <2>2, RefOfValue DEF RefInEntry
  <2> QED
    BY <2>1, <2>3 DEF RefsExact
<1>2. IgscInv /\ SdbInv /\ RefsExact /\ [IgscNext]_vars => RefsExact'
  BY ExactStep
<1>3. IgscSpec => []SdbInv
  BY SdbInvariance DEF NoStatic
<1> QED
  BY <1>1, <1>2, <1>3, IgscInvariance, PTL DEF IgscSpec

\* The refinement mapping of Promise.
Fwd == [g \in Group |-> SnoopedPorts(g)]

\* A group has hosts behind an interface, or one of them is a member.
LEMMA HostsAreMembers ==
  ASSUME NEW M \in SUBSET Member, NEW g \in Group, NEW i \in Iface
  PROVE  {m \in M : m[1] = g /\ m[2] = i} # {} <=> \E h \in Host : <<g, i, h>> \in M
<1>1. ASSUME NEW m \in M, m[1] = g, m[2] = i PROVE \E h \in Host : <<g, i, h>> \in M
  <2>1. m \in Group \X Iface \X Host
    BY DEF Member
  <2>2. m = <<m[1], m[2], m[3]>> /\ m[3] \in Host
    BY <2>1
  <2> QED
    BY <1>1, <2>2
<1>2. ASSUME NEW h \in Host, <<g, i, h>> \in M
      PROVE  {m \in M : m[1] = g /\ m[2] = i} # {}
  BY <1>2
<1> QED
  BY <1>1, <1>2

\* What is forwarded to follows from who is a member.
LEMMA FwdOfMembers ==
  ASSUME mh \in SUBSET Member, RefsExact
  PROVE  Fwd = Promise!WithMember(mh)
<1>1. ASSUME NEW g \in Group, NEW i \in Iface
      PROVE  HostsOn(g, i) # {} <=> \E h \in Host : <<g, i, h>> \in mh
  BY HostsAreMembers DEF HostsOn
<1>2. ASSUME NEW g \in Group
      PROVE  SnoopedPorts(g) = {i \in Iface : \E h \in Host : <<g, i, h>> \in mh}
  BY <1>1 DEF SnoopedPorts, RefsExact
<1> QED
  BY <1>2 DEF Fwd, Promise!WithMember

\* The same after a step.
LEMMA FwdOfMembersNext ==
  ASSUME mh' \in SUBSET Member, RefsExact'
  PROVE  Fwd' = Promise!WithMember(mh')
<1>1. ASSUME NEW g \in Group, NEW i \in Iface
      PROVE  HostsOn(g, i)' # {} <=> \E h \in Host : <<g, i, h>> \in mh'
  BY HostsAreMembers DEF HostsOn
<1>2. ASSUME NEW g \in Group
      PROVE  SnoopedPorts(g)' = {i \in Iface : \E h \in Host : <<g, i, h>> \in mh'}
  BY <1>1 DEF SnoopedPorts, RefsExact
<1> QED
  BY <1>2 DEF Fwd, Promise!WithMember

\* Every step is a change of one member with its forwarding, or a stutter.
LEMMA PromiseStep ==
  ASSUME IgscInv, IgscInv', RefsExact, RefsExact', [IgscNext]_vars
  PROVE  [Promise!FNext]_<<mh, Fwd>>
<1>1. Shape
  BY StepShape DEF IgscInv, EmfcInv
<1>2. Fwd = Promise!WithMember(mh) /\ Fwd' = Promise!WithMember(mh')
  BY FwdOfMembers, FwdOfMembersNext DEF IgscInv, IgscTypeOK
<1>3. CASE mh' = mh
  BY <1>2, <1>3
<1>4. ASSUME NEW m \in Member, mh' = mh \cup {m} \/ mh' = mh \ {m}
      PROVE  Promise!FNext
  BY <1>2, <1>4 DEF Promise!FNext, Promise!Change, Fwd, Member
<1>5. ASSUME NEW m \in Member, Joined(m) PROVE Promise!FNext
  BY <1>4, <1>5 DEF Joined
<1>6. ASSUME NEW m \in mh, Parted(m) PROVE mh' = mh \/ Promise!FNext
  <2>1. m \in Member
    BY DEF IgscInv, IgscTypeOK
  <2> QED
    BY <1>4, <1>6, <2>1 DEF Parted
<1> QED
  BY <1>1, <1>3, <1>5, <1>6 DEF Shape, Quiet, Static, Cleared, sdb

\* Both databases together implement McastFwd: the ports a group's data goes
\* to are at every moment those with a member behind them.
THEOREM PromiseKept ==
  ASSUME NoStatic
  PROVE  IgscSpec => KeepsPromise
<1>1. IgscInit /\ IgscInv /\ RefsExact => Promise!FInit
  BY FwdOfMembers DEF IgscInit, IgscInv, IgscTypeOK, Promise!FInit, Fwd
<1>2. IgscInv /\ IgscInv' /\ RefsExact /\ RefsExact' /\ [IgscNext]_vars
        => [Promise!FNext]_<<mh, Fwd>>
  BY PromiseStep
<1> QED
  BY <1>1, <1>2, IgscInvariance, ExactInvariance, PTL
     DEF IgscSpec, KeepsPromise, Promise!FSpec, Fwd

-----------------------------------------------------------------------------
(***************************************************************************)
(* Without IF_DEL: nothing is snooped on an interface that is not there.   *)
(***************************************************************************)

\* Every step keeps what is snooped on attached interfaces.
LEMMA SnoopedStep ==
  ASSUME "IF_DEL" \notin Cmds, IgscInv, SnoopedOnPorts, [IgscNext]_vars
  PROVE  SnoopedOnPorts'
<1>1. Shape
  BY StepShape DEF IgscInv, EmfcInv
<1>2. IgscTypeOK
  BY DEF IgscInv
<1>3. CASE SdbStep
  <2>1. UNCHANGED <<ports, pc, sta, rtlist>>
    BY <1>3, SdbStepKeeps
  <2>2. CASE mh' \subseteq mh
    BY <2>1, <2>2 DEF SnoopedOnPorts
  <2>3. ASSUME NEW m \in Member, m[2] \in ports, pc \notin Locked, mh' = mh \cup {m}
        PROVE  SnoopedOnPorts'
    BY <2>1, <2>3 DEF SnoopedOnPorts, Locked
  <2> QED
    BY <1>1, <2>2, <2>3, HostsGrow
<1>4. CASE IfStep
  <2>1. UNCHANGED <<mh, sta>>
    BY <1>4 DEF IfStep, Query, RtTimer, RtlistClearLoop, StaRtportLoop, CfgIfAdd,
                CfgIfDel, CfgRefs, DisableIflistClear, sdb, cfg
  <2>2. ASSUME NEW i \in Iface, NEW r \in Router, Query(i, r)
        PROVE  /\ UNCHANGED <<pc, ports>> /\ i \in ports
               /\ rtlist' \subseteq rtlist \cup {<<i, r>>}
    BY <2>2 DEF Query, IgmpInput, rt, cfg
  <2>3. ASSUME NEW i \in Iface, NEW r \in Router,
               \/ RtTimer(i, r) \/ RtlistClearLoop(i, r)
               \/ sta = i /\ StaRtportLoop(r)
        PROVE  UNCHANGED <<pc, ports>> /\ rtlist' \subseteq rtlist
    BY <2>3 DEF RtTimer, RtlistClearLoop, StaRtportLoop, cfg
  <2>4. ASSUME NEW i \in Iface, CfgIfAdd(i) \/ CfgIfDel(i) \/ CfgRefs(i)
        PROVE  UNCHANGED <<pc, rtlist>> /\ ports \subseteq ports'
    BY <2>4 DEF CfgIfAdd, CfgIfDel, Idle, CfgRefs, rt, cfg
  <2>5. CASE DisableIflistClear
    BY <2>1, <2>5 DEF DisableIflistClear, rt, SnoopedOnPorts
  <2> QED
    BY <1>4, <2>1, <2>2, <2>3, <2>4, <2>5 DEF IfStep, SnoopedOnPorts
<1>5. CASE CfgStep
  <2>1. UNCHANGED <<mh, rtlist>>
    BY <1>5 DEF CfgStep, EmfEnable, EmfDisable, Goto, StaAdd, StaDel, StaGone, sdb, rt
  <2>2. CASE EmfEnable \/ EmfDisable
    BY <2>1, <2>2 DEF EmfEnable, EmfDisable, cfg, SnoopedOnPorts
  <2>3. CASE \/ Goto("sdb_clear", "sdb_clear_loop")
             \/ Goto("sdb_clear_loop", "rtlist_clear")
             \/ Goto("rtlist_clear", "rtlist_clear_loop")
             \/ Goto("rtlist_clear_loop", "mfdb_clear")
             \/ (\A m \in mh : m[2] # sta) /\ Goto("sta_sdb", "sta_rtport")
    BY <2>1, <2>3 DEF Goto, SnoopedOnPorts
  <2>4. ASSUME NEW i \in Iface, StaAdd(i) \/ StaDel(i) PROVE SnoopedOnPorts'
    BY <2>1, <2>4 DEF StaAdd, StaDel, SnoopedOnPorts
  <2>5. CASE StaGone
    <3>1. /\ pc = "sta_rtport" /\ pc' = "idle" /\ ports' = ports \ {sta}
          /\ \A r \in Router : <<sta, r>> \notin rtlist
      BY <2>5 DEF StaGone, At
    <3>2. \A e \in rtlist : e[1] # sta
      BY <1>2, <3>1 DEF IgscTypeOK, RtPort
    <3> QED
      BY <2>1, <3>1, <3>2 DEF SnoopedOnPorts
  <2> QED
    BY <1>5, <2>2, <2>3, <2>4, <2>5 DEF CfgStep
<1>6. CASE DisableMfdbClear
  BY <1>6 DEF DisableMfdbClear, sdb, rt, SnoopedOnPorts
<1>7. CASE UNCHANGED vars
  BY <1>7 DEF vars, sdb, rt, cfg, SnoopedOnPorts
<1> QED
  BY <1>2, <1>3, <1>4, <1>5, <1>6, <1>7, StepCases

\* After wlc_wmf_sta_del() no database refers to the station, for any number
\* of stations and whatever they had joined.
THEOREM StationForgotten ==
  ASSUME NoStatic, "IF_DEL" \notin Cmds
  PROVE  IgscSpec => []DetachedForgotten
<1>1. IgscInit => SnoopedOnPorts
  BY DEF IgscInit, SnoopedOnPorts
<1>2. IgscInv /\ SnoopedOnPorts /\ [IgscNext]_vars => SnoopedOnPorts'
  BY SnoopedStep
<1>3. SnoopedOnPorts /\ RefsExact => DetachedForgotten
  BY DEF SnoopedOnPorts, RefsExact, HostsOn, DetachedForgotten
<1> QED
  BY <1>1, <1>2, <1>3, IgscInvariance, ExactInvariance, PTL DEF IgscSpec

-----------------------------------------------------------------------------
(***************************************************************************)
(* Without IF_DEL and RTPORT_DEL, and with memory for the interface list:  *)
(* the counts of the router ports.                                         *)
(***************************************************************************)

\* What RtInv says of one interface.
RtOK(i) ==
  /\ Cardinality(RoutersOn(i)) <= rtport_ref[i]
  /\ rtport_ref[i] <= MaxRef
  /\ rtport_ref[i] # 0 => i \in iflist

\* The routers of an interface are finitely many.
LEMMA RoutersFinite ==
  ASSUME IsFiniteSet(rtlist), NEW i
  PROVE  /\ IsFiniteSet(RoutersOn(i))
         /\ Cardinality(RoutersOn(i)) \in Nat
         /\ Cardinality(RoutersOn(i)) = 0 <=> RoutersOn(i) = {}
<1>1. RoutersOn(i) \in SUBSET rtlist
  BY DEF RoutersOn
<1>2. IsFiniteSet(RoutersOn(i))
  BY <1>1, FS_Subset
<1> QED
  BY <1>2, FS_CardinalityType, FS_EmptySet

\* A router is entered ...
LEMMA RouterAdded ==
  ASSUME IsFiniteSet(rtlist), NEW i, NEW r, <<i, r>> \notin rtlist,
         rtlist' = rtlist \cup {<<i, r>>}
  PROVE  /\ IsFiniteSet(rtlist')
         /\ Cardinality(RoutersOn(i)') = Cardinality(RoutersOn(i)) + 1
         /\ \A j : j # i => RoutersOn(j)' = RoutersOn(j)
<1>1. RoutersOn(i)' = RoutersOn(i) \cup {<<i, r>>} /\ <<i, r>> \notin RoutersOn(i)
  BY DEF RoutersOn
<1>2. \A j : j # i => RoutersOn(j)' = RoutersOn(j)
  BY DEF RoutersOn
<1>3. IsFiniteSet(RoutersOn(i))
  BY RoutersFinite
<1> QED
  BY <1>1, <1>2, <1>3, FS_AddElement

\* ... or removed.
LEMMA RouterRemoved ==
  ASSUME IsFiniteSet(rtlist), NEW i, NEW r, <<i, r>> \in rtlist,
         rtlist' = rtlist \ {<<i, r>>}
  PROVE  /\ IsFiniteSet(rtlist')
         /\ Cardinality(RoutersOn(i)) \in Nat
         /\ Cardinality(RoutersOn(i)) # 0
         /\ Cardinality(RoutersOn(i)') = Cardinality(RoutersOn(i)) - 1
         /\ \A j : j # i => RoutersOn(j)' = RoutersOn(j)
<1>1. RoutersOn(i)' = RoutersOn(i) \ {<<i, r>>} /\ <<i, r>> \in RoutersOn(i)
  BY DEF RoutersOn
<1>2. \A j : j # i => RoutersOn(j)' = RoutersOn(j)
  BY DEF RoutersOn
<1>3. /\ IsFiniteSet(RoutersOn(i)) /\ Cardinality(RoutersOn(i)) \in Nat
      /\ Cardinality(RoutersOn(i)) # 0
  BY <1>1, RoutersFinite
<1> QED
  BY <1>1, <1>2, <1>3, FS_RemoveElement

\* A step that concerns one interface.
LEMMA OneIface ==
  ASSUME RtInv, NEW i \in Iface, IsFiniteSet(rtlist'), RtOK(i)',
         \A j \in Iface : j # i => /\ RoutersOn(j)' = RoutersOn(j)
                                   /\ rtport_ref'[j] = rtport_ref[j]
                                   /\ j \in iflist => j \in iflist'
  PROVE  RtInv'
  BY DEF RtInv, RtOK

\* A step that leaves the router list and the counts of router ports alone and
\* takes no counted interface off the list.
LEMMA SameRouters ==
  ASSUME RtInv, UNCHANGED <<rtlist, rtport_ref>>,
         \A j \in Iface : j \in iflist /\ rtport_ref[j] # 0 => j \in iflist'
  PROVE  RtInv'
<1>1. \A j : RoutersOn(j)' = RoutersOn(j)
  BY DEF RoutersOn
<1> QED
  BY <1>1 DEF RtInv

\* emfc_rtport_add(), for a router or not.
LEMMA RtportAddStep ==
  ASSUME "emfc_iflist" \notin AllocFail, RtInv, IflTypeOK, NEW i \in Iface, rtport_add(i),
         IsFiniteSet(rtlist'),
         \/ UNCHANGED rtlist
         \/ Cardinality(RoutersOn(i)') = Cardinality(RoutersOn(i)) + 1,
         \A j \in Iface : j # i => RoutersOn(j)' = RoutersOn(j)
  PROVE  RtInv'
<1>1. rtport_ref \in [Iface -> Ref] /\ rtport_ref[i] \in Ref
  BY DEF IflTypeOK
<1>2. /\ rtport_ref[i] # MaxRef /\ iflist' = iflist \cup {i}
      /\ rtport_ref' = [rtport_ref EXCEPT ![i] = Incr(rtport_ref[i])]
  BY DEF rtport_add
<1>3. RtOK(i)
  BY DEF RtInv, RtOK
<1>4. rtport_ref[i] < MaxRef /\ Incr(rtport_ref[i]) = rtport_ref[i] + 1
  BY <1>1, <1>2, <1>3, RefArith, EmfcAssumption DEF RtOK, Ref
<1>5. rtport_ref'[i] = rtport_ref[i] + 1 /\ \A j \in Iface : j # i => rtport_ref'[j] = rtport_ref[j]
  BY <1>1, <1>2, <1>4
<1>6. Cardinality(RoutersOn(i)) \in Nat
  BY RoutersFinite DEF RtInv
<1>7. RoutersOn(i)' = RoutersOn(i) \/ Cardinality(RoutersOn(i)') = Cardinality(RoutersOn(i)) + 1
  BY DEF RoutersOn
<1>8. RtOK(i)'
  <2>1. Cardinality(RoutersOn(i)') <= rtport_ref'[i]
    BY <1>1, <1>3, <1>5, <1>6, <1>7 DEF RtOK, Ref
  <2>2. rtport_ref'[i] <= MaxRef
    BY <1>1, <1>4, <1>5, EmfcAssumption DEF Ref
  <2> QED
    BY <1>2, <2>1, <2>2 DEF RtOK
<1> QED
  BY <1>2, <1>5, <1>8, OneIface

\* emfc_rtport_del() for a router that goes.
LEMMA RtportDelStep ==
  ASSUME RtInv, IflTypeOK, NEW i \in Iface, NEW r \in Router, <<i, r>> \in rtlist,
         rtlist' = rtlist \ {<<i, r>>}, rtport_del(i)
  PROVE  RtInv'
<1>1. rtport_ref \in [Iface -> Ref] /\ rtport_ref[i] \in Ref
  BY DEF IflTypeOK
<1>2. /\ IsFiniteSet(rtlist')
      /\ Cardinality(RoutersOn(i)) \in Nat
      /\ Cardinality(RoutersOn(i)) # 0
      /\ Cardinality(RoutersOn(i)') = Cardinality(RoutersOn(i)) - 1
      /\ \A j : j # i => RoutersOn(j)' = RoutersOn(j)
  BY RouterRemoved DEF RtInv
<1>3. RtOK(i)
  BY DEF RtInv, RtOK
<1>4. rtport_ref[i] # 0 /\ i \in iflist
  BY <1>1, <1>2, <1>3 DEF RtOK, Ref
<1>5. Decr(rtport_ref[i]) = rtport_ref[i] - 1
  BY <1>1, <1>4, RefArith
<1>6. /\ rtport_ref' = [rtport_ref EXCEPT ![i] = rtport_ref[i] - 1]
      /\ iflist' = IF rtport_ref[i] - 1 = 0 /\ uffp_ref[i] = 0 THEN iflist \ {i} ELSE iflist
  BY <1>4, <1>5 DEF rtport_del
<1>7. /\ rtport_ref'[i] = rtport_ref[i] - 1
      /\ \A j \in Iface : j # i => rtport_ref'[j] = rtport_ref[j]
  BY <1>1, <1>6
<1>8. RtOK(i)'
  <2>1. Cardinality(RoutersOn(i)') <= rtport_ref'[i] /\ rtport_ref'[i] <= MaxRef
    BY <1>1, <1>2, <1>3, <1>7, EmfcAssumption DEF RtOK, Ref
  <2>2. rtport_ref'[i] # 0 => i \in iflist'
    BY <1>4, <1>6, <1>7
  <2> QED
    BY <2>1, <2>2 DEF RtOK
<1> QED
  BY <1>2, <1>6, <1>7, <1>8, OneIface

\* Every step keeps the counts of the router ports.
LEMMA RtInvStep ==
  ASSUME "emfc_iflist" \notin AllocFail, "IF_DEL" \notin Cmds, "RTPORT_DEL" \notin Cmds,
         IgscInv, RtInv, [IgscNext]_vars
  PROVE  RtInv'
<1>1. IgscTypeOK /\ IflTypeOK
  BY DEF IgscInv, EmfcInv
<1>2. CASE UNCHANGED <<rtlist, iflist, rtport_ref>>
  BY <1>2, SameRouters
<1>3. CASE SdbStep
  BY <1>2, <1>3, SdbStepKeeps
<1>4. CASE IfStep
  <2>1. ASSUME NEW i \in Iface, NEW r \in Router, Query(i, r) PROVE RtInv'
    <3>1. CASE UNCHANGED <<ifl, rt>>
      BY <1>2, <3>1 DEF ifl, rt
    <3>2. CASE <<i, r>> \notin rtlist /\ rtport_add(i) /\ rtlist' = rtlist \cup {<<i, r>>}
      <4>1. /\ IsFiniteSet(rtlist')
            /\ Cardinality(RoutersOn(i)') = Cardinality(RoutersOn(i)) + 1
            /\ \A j : j # i => RoutersOn(j)' = RoutersOn(j)
        BY <3>2, RouterAdded DEF RtInv
      <4> QED
        BY <1>1, <3>2, <4>1, RtportAddStep
    <3>3. CASE rtport_add_then_del(i) /\ UNCHANGED rt
      BY <3>3, SameRouters DEF rtport_add_then_del, rt
    <3> QED
      BY <2>1, <3>1, <3>2, <3>3 DEF Query
  <2>2. ASSUME NEW i \in Iface, NEW r \in Router, RtTimer(i, r) PROVE RtInv'
    <3>1. <<i, r>> \in rtlist /\ rtlist' = rtlist \ {<<i, r>>}
      BY <2>2 DEF RtTimer
    <3>2. CASE UNCHANGED ifl
      <4>1. /\ IsFiniteSet(rtlist')
            /\ Cardinality(RoutersOn(i)) \in Nat
            /\ Cardinality(RoutersOn(i)') = Cardinality(RoutersOn(i)) - 1
            /\ \A j : j # i => RoutersOn(j)' = RoutersOn(j)
        BY <3>1, RouterRemoved DEF RtInv
      <4>2. rtport_ref[i] \in Ref /\ RtOK(i)
        BY <1>1 DEF IflTypeOK, RtInv, RtOK
      <4>3. Cardinality(RoutersOn(i)') <= rtport_ref[i]
        BY <4>1, <4>2 DEF RtOK, Ref
      <4>4. RtOK(i)'
        BY <3>2, <4>2, <4>3 DEF RtOK, ifl
      <4> QED
        BY <3>2, <4>1, <4>4, OneIface DEF ifl
    <3>3. CASE rtport_del(i)
      BY <1>1, <3>1, <3>3, RtportDelStep
    <3> QED
      BY <2>2, <3>2, <3>3 DEF RtTimer
  <2>3. ASSUME NEW i \in Iface, NEW r \in Router,
               RtlistClearLoop(i, r) \/ (sta = i /\ StaRtportLoop(r))
        PROVE  RtInv'
    <3>1. <<i, r>> \in rtlist /\ rtlist' = rtlist \ {<<i, r>>} /\ rtport_del(i)
      BY <2>3 DEF RtlistClearLoop, StaRtportLoop
    <3> QED
      BY <1>1, <3>1, RtportDelStep
  <2>4. ASSUME NEW i \in Iface, CfgIfAdd(i) PROVE RtInv'
    BY <2>4, SameRouters DEF CfgIfAdd, iflist_add, rt
  <2>5. ASSUME NEW i \in Iface, CfgIfDel(i) PROVE FALSE
    BY <2>5 DEF CfgIfDel, Idle
  <2>6. ASSUME NEW i \in Iface, CfgRefs(i) PROVE RtInv'
    <3>1. UNCHANGED rtlist
      BY <2>6 DEF CfgRefs, rt
    <3>2. CASE rtport_add(i)
      <4>1. IsFiniteSet(rtlist') /\ \A j : RoutersOn(j)' = RoutersOn(j)
        BY <3>1 DEF RtInv, RoutersOn
      <4> QED
        BY <1>1, <3>1, <3>2, <4>1, RtportAddStep
    <3>3. CASE uffp_add(i) \/ uffp_del(i)
      BY <3>1, <3>3, SameRouters DEF uffp_add, uffp_del, ifl
    <3> QED
      BY <2>6, <3>2, <3>3 DEF CfgRefs, Idle
  <2>7. CASE DisableIflistClear
    <3>1. rtlist = {} /\ rtlist' = {}
      BY <2>7 DEF DisableIflistClear, At, rt, IgscInv, DisablePhase
    <3>2. rtport_ref' = [i \in Iface |-> 0]
      BY <2>7 DEF DisableIflistClear, iflist_clear
    <3>3. \A i : RoutersOn(i)' = {}
      BY <3>1 DEF RoutersOn
    <3>4. IsFiniteSet(rtlist') /\ \A i : Cardinality(RoutersOn(i)') = 0
      BY <3>1, <3>3, FS_EmptySet
    <3> QED
      BY <3>2, <3>4, EmfcAssumption DEF RtInv
  <2> QED
    BY <1>4, <2>1, <2>2, <2>3, <2>4, <2>5, <2>6, <2>7 DEF IfStep
<1>5. CASE CfgStep
  BY <1>2, <1>5 DEF CfgStep, EmfEnable, EmfDisable, Goto, StaAdd, StaDel, StaGone,
                    evars, ifl, rt
<1>6. CASE DisableMfdbClear
  BY <1>2, <1>6 DEF DisableMfdbClear, ifl, rt
<1>7. CASE UNCHANGED vars
  BY <1>2, <1>7 DEF vars, evars, rt
<1> QED
  BY <1>1, <1>3, <1>4, <1>5, <1>6, <1>7, StepCases

\* Reports are passed on to every router that has been heard, however many
\* share a port and in whatever order they fall silent.
THEOREM RoutersServed ==
  ASSUME "emfc_iflist" \notin AllocFail, "IF_DEL" \notin Cmds, "RTPORT_DEL" \notin Cmds
  PROVE  IgscSpec => []RoutersHear
<1>1. IgscInit => RtInv
  <2> SUFFICES ASSUME IgscInit PROVE RtInv
    OBVIOUS
  <2>1. rtlist = {} /\ rtport_ref = [i \in Iface |-> 0]
    BY DEF IgscInit, emfc_init
  <2>2. \A i : RoutersOn(i) = {}
    BY <2>1 DEF RoutersOn
  <2> QED
    BY <2>1, <2>2, FS_EmptySet, EmfcAssumption DEF RtInv
<1>2. IgscInv /\ RtInv /\ [IgscNext]_vars => RtInv'
  BY RtInvStep
<1>3. IgscInv /\ RtInv => RoutersHear
  <2> SUFFICES ASSUME IgscInv, RtInv, NEW e \in rtlist,
                      NEW from \in (Iface \ {e[1]}) \cup {NULL}
               PROVE  e[1] \in UnregPorts("igmp", from)
    BY DEF RoutersHear
  <2>1. e[1] \in Iface
    BY DEF IgscInv, IgscTypeOK, RtPort
  <2>2. e \in RoutersOn(e[1])
    BY DEF RoutersOn
  <2>3. Cardinality(RoutersOn(e[1])) \in Nat /\ Cardinality(RoutersOn(e[1])) # 0
    BY <2>2, RoutersFinite DEF RtInv
  <2>4. rtport_ref[e[1]] \in Ref
    BY <2>1 DEF IgscInv, EmfcInv, IflTypeOK
  <2>5. rtport_ref[e[1]] # 0
    BY <2>1, <2>3, <2>4 DEF RtInv, Ref
  <2>6. e[1] \in iflist /\ e[1] # from
    BY <2>1, <2>5, IgscAssumption DEF RtInv
  <2> QED
    BY <2>5, <2>6 DEF UnregPorts
<1> QED
  BY <1>1, <1>2, <1>3, IgscInvariance, PTL DEF IgscSpec
=============================================================================
