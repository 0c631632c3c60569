-------------------------------- MODULE IGSC --------------------------------
(***************************************************************************)
(* IGMP snooping on top of the forwarding layer, for one instance: the     *)
(* snooping database IGSDB (emf/igs/igsc_sdb.c), the multicast router list *)
(* and the IGMP input (emf/igs/igsc.c), their timers, and the commands of  *)
(* the configuration thread (emf_linux.c for a bridge, wlc_wmf.c for the   *)
(* stations of a BSS).                                                     *)
(*                                                                         *)
(* Frames and timers run in softirq context, one at a time and each to its *)
(* end: an action each.  The configuration thread runs in process context. *)
(* Softirqs interleave with it wherever it holds no lock, so a command that*)
(* takes several locks in turn is several steps, and a loop under one lock *)
(* takes one entry per step while its program counter shuts softirqs out.  *)
(***************************************************************************)
EXTENDS EMFC

CONSTANTS
  Host,      \* unicast addresses of group members
  Router,    \* nonzero source addresses of IGMP queries
  MaxStat,   \* bound: a report is not taken while a statistic is at MaxStat
  Cmds,      \* the configuration commands in use
  Reused,    \* memory that was just freed may be in use again when it is read
  Wds        \* interfaces named "wds...", which need not be attached

ASSUME IgscAssumption == Wds \subseteq Iface /\ NULL \notin Iface /\ Reused \in BOOLEAN

VARIABLES
  mh,           \* host entries: <<group, interface, host>>
  mh_timer,     \* host entries whose group timer is pending
  sdb_ref,      \* mi_ref of an IGSDB interface entry, or NoMi
  rtlist,       \* router entries <<interface, router>>; each has its timer
  stale_timer,  \* pending router timers whose entry has been freed
  stats,        \* igmp_mcast_groups and igmp_mcast_members
  ports,        \* interfaces attached to the instance
  pc,           \* where the configuration thread is
  sta,          \* the station a STA_DEL is removing
  fault         \* the first use of freed memory or failed ASSERT, or "none"

sdb  == <<mh, mh_timer, sdb_ref>>
rt   == <<rtlist, stale_timer>>
cfg  == <<ports, pc, sta>>
vars == <<evars, sdb, rt, stats, cfg, fault>>

NoMi   == -1
Member == Group \X Iface \X Host
RtPort == Iface \X Router

\* Program counters at which the configuration thread holds a lock.
Locked == {"sdb_clear_loop", "rtlist_clear_loop", "sta_sdb", "sta_rtport"}

\* The instance is past its last defined step once fault is set.
Softirq == pc \notin Locked /\ fault = "none"
Idle(c) == pc = "idle" /\ fault = "none" /\ c \in Cmds
At(l)   == pc = l /\ fault = "none"

\* igsc_init() on a new emfc instance.
IgscInit ==
  /\ emfc_init
  /\ mh = {} /\ mh_timer = {}
  /\ sdb_ref = [g \in Group |-> [i \in Iface |-> NoMi]]
  /\ rtlist = {} /\ stale_timer = {}
  /\ stats = [groups |-> 0, members |-> 0]
  /\ ports = {} /\ pc = "idle" /\ sta = NULL
  /\ fault = "none"

-----------------------------------------------------------------------------
(***************************************************************************)
(* The snooping database.                                                  *)
(***************************************************************************)

Hosts(g)      == {m \in mh : m[1] = g}
HostsOn(g, i) == {m \in mh : m[1] = g /\ m[2] = i}

\* IGSC_STATS_INCR of igmp_mcast_groups happens with the group entry, that of
\* igmp_mcast_members with the host entry.
GroupCounted(g) == IF Hosts(g) = {} THEN stats.groups + 1 ELSE stats.groups

\* igsc_sdb_member_add() for a known host: refresh its timer, through a
\* pointer that is dangling if the timer is gone.
member_refresh(m) ==
  /\ m \in mh
  /\ fault' = IF m \in mh_timer THEN fault ELSE "timer"
  /\ UNCHANGED <<sdb, stats, mfdb>>

\* Fault: the host entry of a second host is not counted.
member_new_uncounted(g, i, h) ==
  LET m == <<g, i, h>> IN
  /\ m \notin mh
  /\ mh' = mh \cup {m}
  /\ mh_timer' = mh_timer \cup {m}
  /\ stats' = [groups |-> GroupCounted(g), members |-> stats.members + 1]
  /\ UNCHANGED fault
  /\ \/ sdb_ref[g][i] # NoMi /\ UNCHANGED <<sdb_ref, mfdb>>
     \/ /\ sdb_ref[g][i] = NoMi
        /\ membership_add(g, i)
        /\ sdb_ref' = [sdb_ref EXCEPT ![g][i] = 1]

\* Fault: the timer of a new host is set up but not added.
member_new_untimed(g, i, h) ==
  LET m == <<g, i, h>> IN
  /\ m \notin mh
  /\ mh' = mh \cup {m}
  /\ stats' = [groups |-> GroupCounted(g), members |-> stats.members + 1]
  /\ UNCHANGED <<mh_timer, fault>>
  /\ \/ /\ sdb_ref[g][i] # NoMi
        /\ sdb_ref' = [sdb_ref EXCEPT ![g][i] = @ + 1]
        /\ UNCHANGED mfdb
     \/ /\ sdb_ref[g][i] = NoMi
        /\ membership_add(g, i)
        /\ sdb_ref' = [sdb_ref EXCEPT ![g][i] = 1]

\* igsc_sdb_member_add() for a new host: its entry and timer, and either one
\* more reference to the interface entry (ASSERT(mi->mi_ref > 0)) or a new
\* interface entry with its MFDB membership.
member_new(g, i, h) ==
  LET m == <<g, i, h>> IN
  /\ m \notin mh
  /\ mh' = mh \cup {m}
  /\ mh_timer' = mh_timer \cup {m}
  /\ stats' = [groups |-> GroupCounted(g), members |-> stats.members + 1]
  /\ \/ /\ sdb_ref[g][i] # NoMi
        /\ sdb_ref' = [sdb_ref EXCEPT ![g][i] = @ + 1]
        /\ fault' = IF sdb_ref[g][i] > 0 THEN fault ELSE "mi_ref"
        /\ UNCHANGED mfdb
     \/ /\ sdb_ref[g][i] = NoMi
        /\ membership_add(g, i)
        /\ sdb_ref' = [sdb_ref EXCEPT ![g][i] = 1]
        /\ UNCHANGED fault

\* igsc_sdb_member_add() returning FAILURE, by the label it jumps to.  What is
\* undone is all but the statistics.
member_add_fails(g, i, h) ==
  /\ <<g, i, h>> \notin mh
  /\ UNCHANGED <<sdb, fault>>
  /\ \/ /\ "igs_mgrp" \in AllocFail /\ Hosts(g) = {}           \* sdb_add_exit0
        /\ UNCHANGED <<stats, mfdb>>
     \/ /\ "igs_mh" \in AllocFail                              \* sdb_add_exit1
        /\ stats' = [stats EXCEPT !.groups = GroupCounted(g)]
        /\ UNCHANGED mfdb
     \/ /\ stats' = [groups |-> GroupCounted(g), members |-> stats.members + 1]
        /\ \/ "igs_timer" \in AllocFail /\ UNCHANGED mfdb      \* sdb_add_exit2
           \/ /\ sdb_ref[g][i] = NoMi
              /\ \/ membership_add_fails(g, i)                 \* sdb_add_exit3
                 \/ "igs_mi" \in AllocFail /\ add_then_del(g, i)  \* sdb_add_exit4

\* Fault: the MFDB membership goes with every host, not with the last.
mh_delete_each(m) ==
  LET g == m[1]  i == m[2]  n == sdb_ref[g][i] - 1 IN
  /\ membership_del(g, i) \/ membership_del_fails(g, i)
  /\ sdb_ref' = [sdb_ref EXCEPT ![g][i] = IF n = 0 THEN NoMi ELSE n]
  /\ mh' = mh \ {m}
  /\ stats' = [groups  |-> IF Hosts(g) = {m} THEN stats.groups - 1 ELSE stats.groups,
               members |-> stats.members - 1]

\* Fault: the host entry is not unlinked while its interface has others.
mh_delete_unlinked(m) ==
  LET g == m[1]  i == m[2]  n == sdb_ref[g][i] - 1 IN
  /\ IF n = 0 THEN membership_del(g, i) /\ mh' = mh \ {m}
              ELSE UNCHANGED <<mfdb, mh>>
  /\ sdb_ref' = [sdb_ref EXCEPT ![g][i] = IF n = 0 THEN NoMi ELSE n]
  /\ UNCHANGED stats

\* Fault: the group is uncounted with every host, not with the last.
mh_delete_uncounts(m) ==
  LET g == m[1]  i == m[2]  n == sdb_ref[g][i] - 1 IN
  /\ IF n = 0 THEN membership_del(g, i) ELSE UNCHANGED mfdb
  /\ sdb_ref' = [sdb_ref EXCEPT ![g][i] = IF n = 0 THEN NoMi ELSE n]
  /\ mh' = mh \ {m}
  /\ stats' = [groups |-> stats.groups - 1, members |-> stats.members - 1]

\* igsc_sdb_mh_delete(): one reference less; with the last one the MFDB
\* membership goes first, and if that fails the host entry stays, holding an
\* interface entry of reference 0.
mh_delete(m) ==
  LET g == m[1]  i == m[2]  n == sdb_ref[g][i] - 1 IN
  \/ /\ n = 0 /\ ~HasMembership(g, i)
     /\ membership_del_fails(g, i)
     /\ sdb_ref' = [sdb_ref EXCEPT ![g][i] = 0]
     /\ UNCHANGED <<mh, stats>>
  \/ /\ IF n = 0 THEN membership_del(g, i) ELSE UNCHANGED mfdb
     /\ sdb_ref' = [sdb_ref EXCEPT ![g][i] = IF n = 0 THEN NoMi ELSE n]
     /\ mh' = mh \ {m}
     /\ stats' = [groups  |-> IF Hosts(g) = {m} THEN stats.groups - 1 ELSE stats.groups,
                  members |-> stats.members - 1]

\* igsc_sdb_member_del(): the timer, then the host entry.
member_del(m) ==
  /\ m \in mh
  /\ \/ /\ m \in mh_timer
        /\ mh_timer' = mh_timer \ {m}
        /\ mh_delete(m)
        /\ UNCHANGED fault
     \/ /\ m \notin mh_timer
        /\ fault' = "timer"
        /\ UNCHANGED <<sdb, stats, mfdb>>

\* One turn of the loop of igsc_sdb_clear() and igsc_sdb_interface_del(): the
\* result of the MFDB delete is ignored and the statistics are left alone.
sdb_drop(m) ==
  LET g == m[1]  i == m[2]  n == sdb_ref[g][i] - 1 IN
  /\ m \in mh
  /\ IF n = 0 THEN membership_del(g, i) \/ membership_del_fails(g, i)
              ELSE UNCHANGED mfdb
  /\ sdb_ref' = [sdb_ref EXCEPT ![g][i] = IF n = 0 THEN NoMi ELSE n]
  /\ mh' = mh \ {m}
  /\ mh_timer' = mh_timer \ {m}
  /\ fault' = IF m \in mh_timer THEN fault ELSE "timer"
  /\ UNCHANGED stats

-----------------------------------------------------------------------------
(***************************************************************************)
(* IGMP and data frames, and the timers (softirq context).                 *)
(***************************************************************************)

\* emfc_input() hands an IGMP frame of an attached interface to igsc_input().
\* Frames from the IP stack, reports to reserved addresses, version 1 reports
\* and queries without a source address change nothing and are flooded.
IgmpInput(i) == Softirq /\ emf_enable /\ i \in ports

\* IGMPV2_HOST_NEW_MEMBERSHIP_REPORT
Report(g, i, h) ==
  /\ IgmpInput(i)
  /\ stats.groups < MaxStat /\ stats.members < MaxStat
  /\ \/ member_refresh(<<g, i, h>>)
     \/ member_new(g, i, h)
     \/ member_add_fails(g, i, h)
  /\ UNCHANGED <<emf_enable, ifl, rt, cfg>>

\* IGMPV2_LEAVE_GROUP_MESSAGE
Leave(g, i, h) ==
  /\ IgmpInput(i)
  /\ member_del(<<g, i, h>>)
  /\ UNCHANGED <<emf_enable, ifl, rt, cfg>>

\* Fault: an add that fails takes back a count it had not yet made.
QueryTakesBack(i, r) ==
  /\ IgmpInput(i)
  /\ \/ <<i, r>> \in rtlist /\ UNCHANGED <<ifl, rt>>
     \/ /\ <<i, r>> \notin rtlist
        /\ \/ rtport_add(i) /\ rtlist' = rtlist \cup {<<i, r>>}
           \/ "igs_rtlist_timer" \in AllocFail /\ rtport_del(i) /\ UNCHANGED rtlist
        /\ UNCHANGED stale_timer
  /\ UNCHANGED <<emf_enable, mfdb, sdb, stats, cfg, fault>>

\* IGMPV2_HOST_MEMBERSHIP_QUERY: igsc_rtlist_add().  A known router only has
\* its timer refreshed.  A new one counts a router port, every one of them.
Query(i, r) ==
  /\ IgmpInput(i)
  /\ \/ /\ <<i, r>> \in rtlist
        /\ UNCHANGED <<ifl, rt>>
     \/ /\ <<i, r>> \notin rtlist
        /\ rtport_add(i)
        /\ rtlist' = rtlist \cup {<<i, r>>}
        /\ UNCHANGED stale_timer
     \/ /\ "igs_rtlist_timer" \in AllocFail
        /\ <<i, r>> \notin rtlist
        /\ rtport_add_then_del(i)
        /\ UNCHANGED rt
  /\ UNCHANGED <<emf_enable, mfdb, sdb, stats, cfg, fault>>

\* A multicast data frame, from a port or from the IP stack.
Data(g) ==
  /\ Softirq
  /\ data_frame(g)
  /\ UNCHANGED <<emf_enable, ifl, sdb, rt, stats, cfg, fault>>

\* Fault: the timer is periodic.
MhTimerPeriodic(m) ==
  /\ Softirq
  /\ m \in mh_timer
  /\ mh_delete(m)
  /\ UNCHANGED <<emf_enable, ifl, rt, mh_timer, cfg, fault>>

\* Fault: the timer is set again and the host stays.
MhTimerRearmed(m) ==
  /\ Softirq
  /\ m \in mh_timer
  /\ UNCHANGED vars

\* igsc_sdb_timer(): no report within the group membership interval.  The
\* timer itself is freed by osl_timer() after this.
MhTimer(m) ==
  /\ Softirq
  /\ m \in mh_timer
  /\ mh_timer' = mh_timer \ {m}
  /\ mh_delete(m)
  /\ UNCHANGED <<emf_enable, ifl, rt, cfg, fault>>

\* igsc_rtlist_timer(): no query within the interval.  The router port is
\* deleted once, with the last router of the interface.
RtTimer(i, r) ==
  /\ Softirq
  /\ <<i, r>> \in rtlist
  /\ rtlist' = rtlist \ {<<i, r>>}
  /\ IF \E s \in Router \ {r} : <<i, s>> \in rtlist THEN UNCHANGED ifl
                                                    ELSE rtport_del(i)
  /\ UNCHANGED <<emf_enable, mfdb, sdb, stale_timer, stats, cfg, fault>>

\* The same, for a timer that outlived its entry: it reads freed memory.
StaleRtTimer ==
  /\ Softirq
  /\ stale_timer # {}
  /\ fault' = "rtlist"
  /\ UNCHANGED <<evars, sdb, rt, stats, cfg>>

-----------------------------------------------------------------------------
(***************************************************************************)
(* The configuration thread.                                               *)
(***************************************************************************)

\* EMF_ENABLE TRUE.  The flag is set before the hooks are registered and stays
\* set if that fails; the snooper's query that follows changes nothing here.
EmfEnable ==
  /\ Idle("EMF_ENABLE") /\ ~emf_enable
  /\ emf_enable' = TRUE
  /\ UNCHANGED <<mfdb, ifl, sdb, rt, stats, cfg, fault>>

\* Fault: the snooper is not told to clear its members.
EmfDisableKeepsSdb ==
  /\ Idle("EMF_ENABLE") /\ emf_enable
  /\ emf_enable' = FALSE
  /\ pc' = "rtlist_clear"
  /\ UNCHANGED <<mfdb, ifl, sdb, rt, stats, ports, sta, fault>>

\* EMF_ENABLE FALSE: no more frames, then the snooper's igsc_emf_disabled()
\* (igsc_sdb_clear() and igsc_rtlist_clear()), then the MFDB, then the
\* interface list, each under its own lock.
EmfDisable ==
  /\ Idle("EMF_ENABLE") /\ emf_enable
  /\ emf_enable' = FALSE
  /\ pc' = "sdb_clear"
  /\ UNCHANGED <<mfdb, ifl, sdb, rt, stats, ports, sta, fault>>

\* Steps of a command that only move the program counter.
Goto(from, to) ==
  /\ At(from)
  /\ pc' = to
  /\ UNCHANGED <<evars, sdb, rt, stats, ports, sta, fault>>

SdbClearLoop(m) ==
  /\ At("sdb_clear_loop")
  /\ sdb_drop(m)
  /\ UNCHANGED <<emf_enable, ifl, rt, cfg>>

\* Fault: an entry is passed over and the loop starts again.
RtlistClearStuck(i, r) ==
  /\ At("rtlist_clear_loop")
  /\ <<i, r>> \in rtlist
  /\ UNCHANGED vars

\* One turn of igsc_rtlist_clear(): the timer, the router port, the entry, whose
\* next pointer is read after it was freed.  That is as it was, or it is not.
RtlistClearLoop(i, r) ==
  /\ At("rtlist_clear_loop")
  /\ <<i, r>> \in rtlist
  /\ rtlist' = rtlist \ {<<i, r>>}
  /\ rtport_del(i)
  /\ fault' = fault \/ (Reused /\ fault' = "rtlist_next")
  /\ UNCHANGED <<emf_enable, mfdb, sdb, stale_timer, stats, cfg>>

DisableMfdbClear ==
  /\ At("mfdb_clear")
  /\ mfdb_clear
  /\ pc' = "iflist_clear"
  /\ UNCHANGED <<emf_enable, ifl, sdb, rt, stats, ports, sta, fault>>

DisableIflistClear ==
  /\ At("iflist_clear")
  /\ iflist_clear
  /\ pc' = "idle"
  /\ UNCHANGED <<emf_enable, mfdb, sdb, rt, stats, ports, sta, fault>>

DisableStep ==
  \/ Goto("sdb_clear", "sdb_clear_loop")
  \/ \E m \in mh : SdbClearLoop(m)
  \/ mh = {} /\ Goto("sdb_clear_loop", "rtlist_clear")
  \/ Goto("rtlist_clear", "rtlist_clear_loop")
  \/ \E e \in rtlist : RtlistClearLoop(e[1], e[2])
  \/ rtlist = {} /\ Goto("rtlist_clear_loop", "mfdb_clear")
  \/ DisableMfdbClear
  \/ DisableIflistClear

\* MFDB_ADD, MFDB_DEL: static entries, on attached or WDS interfaces only.
\* The bound leaves room for the snooper's own reference.
CfgMfdbAdd(g, i) ==
  /\ Idle("MFDB_ADD") /\ i \in ports \cup Wds
  /\ group_find(g) # NULL => mi_ref[group_find(g)][i] < MaxRef - 1
  /\ membership_add(g, i) \/ membership_add_fails(g, i)
  /\ UNCHANGED <<emf_enable, ifl, sdb, rt, stats, cfg, fault>>

CfgMfdbDel(g, i) ==
  /\ Idle("MFDB_DEL") /\ i \in ports \cup Wds
  /\ membership_del(g, i) \/ membership_del_fails(g, i)
  /\ UNCHANGED <<emf_enable, ifl, sdb, rt, stats, cfg, fault>>

CfgMfdbClear ==
  /\ Idle("MFDB_CLEAR")
  /\ mfdb_clear
  /\ UNCHANGED <<emf_enable, ifl, sdb, rt, stats, cfg, fault>>

\* IF_ADD: emf_iflist_add(), then emfc_iflist_add(); if the second fails on an
\* entry that is still there the first is undone.
CfgIfAdd(i) ==
  /\ Idle("IF_ADD") /\ i \notin ports
  /\ iflist_add(i)
  /\ ports' = ports \cup {i}
  /\ UNCHANGED <<emf_enable, mfdb, sdb, rt, stats, pc, sta, fault>>

\* IF_DEL: emf_iflist_del(), then emfc_iflist_del(), which may find nothing.
CfgIfDel(i) ==
  /\ Idle("IF_DEL") /\ i \in ports
  /\ ports' = ports \ {i}
  /\ IF i \in iflist THEN iflist_del(i) ELSE UNCHANGED ifl
  /\ UNCHANGED <<emf_enable, mfdb, sdb, rt, stats, pc, sta, fault>>

\* RTPORT_ADD, RTPORT_DEL, UFFP_ADD and UFFP_DEL.
CfgRefs(i) ==
  /\ i \in ports
  /\ \/ Idle("RTPORT_ADD") /\ rtport_add(i)
     \/ Idle("RTPORT_DEL") /\ rtport_del(i)
     \/ Idle("UFFP_ADD") /\ uffp_add(i)
     \/ Idle("UFFP_DEL") /\ uffp_del(i)
  /\ UNCHANGED <<emf_enable, mfdb, sdb, rt, stats, cfg, fault>>

\* WMF: a station associates; nothing is entered anywhere for it.
StaAdd(i) ==
  /\ Idle("STA") /\ i \notin ports
  /\ ports' = ports \cup {i}
  /\ UNCHANGED <<evars, sdb, rt, stats, pc, sta, fault>>

\* Fault: only the router ports of the station are deleted.
StaDelKeepsSdb(i) ==
  /\ Idle("STA") /\ i \in ports
  /\ pc' = "sta_rtport"
  /\ sta' = i
  /\ UNCHANGED <<evars, sdb, rt, stats, ports, fault>>

\* WMF: wlc_wmf_sta_del() when the station's control block is freed.  The
\* driver's lock keeps softirqs out from the first loop to the last.
StaDel(i) ==
  /\ Idle("STA") /\ i \in ports
  /\ pc' = "sta_sdb"
  /\ sta' = i
  /\ UNCHANGED <<evars, sdb, rt, stats, ports, fault>>

\* igsc_sdb_interface_del()
StaSdbLoop(m) ==
  /\ At("sta_sdb") /\ m[2] = sta
  /\ sdb_drop(m)
  /\ UNCHANGED <<emf_enable, ifl, rt, cfg>>

\* igsc_interface_rtport_del(): the entry is freed, its timer is not deleted.
StaRtportLoop(r) ==
  /\ At("sta_rtport")
  /\ <<sta, r>> \in rtlist
  /\ rtlist' = rtlist \ {<<sta, r>>}
  /\ stale_timer' = stale_timer \cup {<<sta, r>>}
  /\ rtport_del(sta)
  /\ UNCHANGED <<emf_enable, mfdb, sdb, stats, cfg, fault>>

StaGone ==
  /\ At("sta_rtport")
  /\ \A r \in Router : <<sta, r>> \notin rtlist
  /\ ports' = ports \ {sta}
  /\ pc' = "idle"
  /\ sta' = NULL
  /\ UNCHANGED <<evars, sdb, rt, stats, fault>>

StaStep ==
  \/ \E m \in mh : StaSdbLoop(m)
  \/ (\A m \in mh : m[2] # sta) /\ Goto("sta_sdb", "sta_rtport")
  \/ \E r \in Router : StaRtportLoop(r)
  \/ StaGone

-----------------------------------------------------------------------------
Frame ==
  \/ \E g \in Group, i \in Iface, h \in Host : Report(g, i, h) \/ Leave(g, i, h)
  \/ \E i \in Iface, r \in Router : Query(i, r)
  \/ \E g \in Group : Data(g)

Timer ==
  \/ \E m \in mh_timer : MhTimer(m)
  \/ \E e \in rtlist : RtTimer(e[1], e[2])
  \/ StaleRtTimer

Command ==
  \/ EmfEnable \/ EmfDisable \/ CfgMfdbClear
  \/ \E g \in Group, i \in Iface : CfgMfdbAdd(g, i) \/ CfgMfdbDel(g, i)
  \/ \E i \in Iface : CfgIfAdd(i) \/ CfgIfDel(i) \/ CfgRefs(i)
  \/ \E i \in Iface : StaAdd(i) \/ StaDel(i)

IgscNext == Frame \/ Timer \/ Command \/ DisableStep \/ StaStep

IgscSpec == IgscInit /\ [][IgscNext]_vars

\* A pending timer runs when the lock that kept softirqs out is released, so
\* it is not starved by locks that come and go; the configuration thread runs
\* its command to the end.
IgscFairSpec ==
  /\ IgscSpec
  /\ SF_vars(\E m \in mh_timer : MhTimer(m))
  /\ SF_vars(\E e \in rtlist : RtTimer(e[1], e[2]))
  /\ WF_vars(DisableStep)
  /\ WF_vars(StaStep)

-----------------------------------------------------------------------------
(***************************************************************************)
(* Properties.                                                             *)
(***************************************************************************)

PcLabel == Locked \cup {"idle", "sdb_clear", "rtlist_clear", "mfdb_clear", "iflist_clear"}

IgscTypeOK ==
  /\ TypeOK
  /\ mh \in SUBSET Member
  /\ mh_timer \in SUBSET mh
  /\ sdb_ref \in [Group -> [Iface -> Int]]
  /\ rtlist \in SUBSET RtPort
  /\ stale_timer \in SUBSET RtPort
  /\ stats \in [groups : Int, members : Int]
  /\ ports \in SUBSET Iface
  /\ pc \in PcLabel
  /\ sta \in Iface \cup {NULL}
  /\ fault \in {"none", "timer", "mi_ref", "rtlist", "rtlist_next"}

\* The lookup path of emfc_input() sends a group's data to the interface of
\* every host entry of the IGSDB: no order of joins, leaves, expiries, failed
\* allocations, cache moves and disables leaves a member without its stream.
MembersForwarded == \A m \in mh : m[2] \in DataPorts(m[1], NULL)

\* mi_ref of an IGSDB interface entry is the number of hosts behind it, and
\* there is an entry exactly when there is a host.
RefsAreHosts ==
  \A g \in Group, i \in Iface :
    sdb_ref[g][i] = IF HostsOn(g, i) = {} THEN NoMi ELSE Cardinality(HostsOn(g, i))

\* Every host entry has its timer pending: it will age out, and its
\* mgrp_timer pointer is good.
TimersPending == mh_timer = mh

\* The unsigned totals of groups and members never fall below the entries they
\* count, so no decrement wraps them; disables and failed adds leave them high.
StatsCoverEntries ==
  /\ stats.members >= Cardinality(mh)
  /\ stats.groups >= Cardinality({g \in Group : Hosts(g) # {}})

\* Joins, leaves and expiries while stations come and go or an instance is
\* disabled never meet a host entry whose timer is freed, nor an interface entry
\* that fails ASSERT(mi->mi_ref > 0).  Freed memory is used in the router list
\* only: by igsc_rtlist_clear() and by the timer of a station that is gone.
SdbNoFault == fault \notin {"timer", "mi_ref"}

\* A membership report that arrives on another port is passed on to every
\* port behind which a multicast router has been heard.
RoutersHear ==
  \A e \in rtlist : \A from \in (Iface \ {e[1]}) \cup {NULL} :
    e[1] \in UnregPorts("igmp", from)

\* Once the disable command has returned nothing snooped is left, and no timer
\* that could touch it, although softirqs ran between its locks.
DisabledIsEmpty ==
  ~emf_enable /\ pc = "idle" => mh = {} /\ mh_timer = {} /\ rtlist = {}

\* WMF: after wlc_wmf_sta_del() neither database nor the router list refers
\* to the station, whose control block is freed next.
DetachedForgotten ==
  \A i \in Iface \ ports :
    /\ \A g \in Group : RefOf(g, i) = 0 /\ HostsOn(g, i) = {}
    /\ \A r \in Router : <<i, r>> \notin rtlist

SnoopedPorts(g) == {i \in Iface : RefOf(g, i) # 0}

Promise == INSTANCE McastFwd
             WITH member <- mh, fwd <- [g \in Group |-> SnoopedPorts(g)]

\* The databases together keep the promise of McastFwd, when no static
\* entries are configured.
KeepsPromise == Promise!FSpec

\* When the hosts fall silent their groups' data stops: every host entry ages
\* out and takes its MFDB membership along.
SilentHostsAgeOut ==
  (<>[][~ \E g \in Group, i \in Iface, h \in Host : Report(g, i, h)]_vars)
     => <>[](mh = {})

\* A disable command that has begun ends, whatever softirqs do meanwhile.
DisableReturns == (pc = "sdb_clear") ~> (pc = "idle")

-----------------------------------------------------------------------------
(***************************************************************************)
(* What a comment of the code says that does not hold in all its states.   *)
(***************************************************************************)

\* igsc_rtlist_timer(): "It deletes the router port entry from the list."  The
\* entry a router timer runs for is on the list.
RtTimerHasEntry == fault # "rtlist"
=============================================================================
