------------------------------- MODULE Iflist -------------------------------
(***************************************************************************)
(* The interface list of one enabled instance at the grain of its locks    *)
(* (emf/emf/emfc.c, with the commands of router/emf/emf/emf_linux.c).      *)
(*                                                                         *)
(* EMFC takes an operation on the list as one step.  In the code the       *)
(* search, emfc_iflist_find(), takes and releases iflist_lock by itself.   *)
(* A command that searches and then inserts or unlinks can be interrupted  *)
(* in between by a softirq that changes the list: an IGMP query that makes *)
(* a router port, or the expiry of a router.  Only commands can: softirqs  *)
(* do not interrupt one another.                                           *)
(*                                                                         *)
(* One multicast router per interface is enough to make the softirqs act   *)
(* on the list; the databases are left out.                                *)
(***************************************************************************)
EXTENDS Integers, Sequences, SequencesExt

CONSTANTS
  Iface,   \* interfaces
  Ptr,     \* heap addresses of list entries (emfc_iflist_t)
  NULL,
  RefMod,  \* counts are unsigned, modulo RefMod
  MaxRef,  \* bound: a count at MaxRef is not raised further
  Cmds,    \* the configuration commands in use
  NoMem    \* contexts in which MALLOC may return NULL: "softirq", "command"

ASSUME IflistAssumption ==
  NULL \notin Iface \cup Ptr /\ MaxRef \in Nat \ {0} /\ RefMod \in Nat /\ MaxRef < RefMod

VARIABLES
  list,    \* the entries from iflist_head on, by address
  ent,     \* contents of the entry at each address; Freed if there is none
  ports,   \* interfaces on the bridge's own list (emf_iflist_t)
  router,  \* interfaces with an entry in the snooper's router list
  cmd,     \* the command in progress, or "none"
  cif,     \* its interface
  pc,      \* where it is
  ptr,     \* the entry its search found
  prev,    \* the entry before that one
  fault    \* a freed entry was used

vars == <<list, ent, ports, router, cmd, cif, pc, ptr, prev, fault>>
cfg  == <<cmd, cif, pc, ptr, prev>>

Freed == [ifp |-> NULL, uffp |-> 0, rtport |-> 0]
New(i, u, r) == [ifp |-> i, uffp |-> u, rtport |-> r]
Free  == {p \in Ptr : ent[p] = Freed}
Count == 0 .. RefMod - 1

Incr(n) == IF n = RefMod - 1 THEN 0 ELSE n + 1
\* Fault: the count goes below zero.
DecrNoWrap(n) == n - 1
Decr(n) == IF n = 0 THEN RefMod - 1 ELSE n - 1

IflInit ==
  /\ list = <<>> /\ ent = [p \in Ptr |-> Freed]
  /\ ports = {} /\ router = {}
  /\ cmd = "none" /\ cif = NULL /\ pc = "idle" /\ ptr = NULL /\ prev = NULL
  /\ fault = FALSE

-----------------------------------------------------------------------------
(***************************************************************************)
(* The list.                                                               *)
(***************************************************************************)

\* The position where a walk of the list stops; 0 if it runs to the end.
First(S) == IF S = {} THEN 0 ELSE Min(S)

\* emfc_iflist_find(): position of the first entry of interface i, 0 if none.
find(i) == First({n \in DOMAIN list : ent[list[n]].ifp = i})
Found(i) == IF find(i) = 0 THEN NULL ELSE list[find(i)]
Before(i) == IF find(i) < 2 THEN NULL ELSE list[find(i) - 1]

\* An address that the command still holds is not given out again.  What the
\* command does with a freed entry is UseFreed, whatever is at its address, so
\* the choice takes away no behaviour up to there.
Fresh == Free \ {ptr, prev}

\* A new entry becomes the head of the list.
insert(p, e) ==
  /\ list' = <<p>> \o list
  /\ ent' = [ent EXCEPT ![p] = e]

\* The entries after p, and those up to p; all and none if p is not linked.
place(p) == First({n \in DOMAIN list : list[n] = p})
After(p) == SubSeq(list, place(p) + 1, Len(list))
Until(p) == SubSeq(list, 1, place(p))

\* Fault: the entry is freed where it is.
unlink_not(e, p, before) ==
  /\ ent' = [e EXCEPT ![p] = Freed]
  /\ UNCHANGED list

\* Fault: the entry before it goes as well.
unlink_two(e, p, before) ==
  /\ list' = SelectSeq(list, LAMBDA q : q \notin {p, before})
  /\ ent' = [e EXCEPT ![p] = Freed]

\* prev->next = ptr->next, or iflist_head = ptr->next: whatever has come
\* between the two since the search goes as well.  The entry is then freed;
\* e has the contents of the entries before that.
unlink(e, p, before) ==
  /\ list' = Until(before) \o After(p)
  /\ ent' = [e EXCEPT ![p] = Freed]

\* emfc_rtport_add() or emfc_uffp_add() from the point where the lock is taken
\* and the entry searched for.
ref_add(i, c) ==
  IF find(i) = 0 THEN UNCHANGED <<list, ent>>
  ELSE /\ ent[Found(i)][c] # MaxRef
       /\ ent' = [ent EXCEPT ![Found(i)][c] = Incr(@)]
       /\ UNCHANGED list

\* emfc_rtport_del() or emfc_uffp_del() on the entry p once the lock is taken:
\* one less, and if both counts are zero emfc_iflist_del() of the interface,
\* whose search and unlinking are under the same lock.
ref_del(p, i, c) ==
  LET n == Decr(ent[p][c])
      e == [ent EXCEPT ![p][c] = n]
  IN IF e[p].uffp = 0 /\ e[p].rtport = 0 /\ find(i) # 0
     THEN unlink(e, Found(i), Before(i))
     ELSE ent' = e /\ UNCHANGED list

-----------------------------------------------------------------------------
(***************************************************************************)
(* Softirqs: they run between the locks of a command, each to its end.     *)
(***************************************************************************)

\* igsc_rtlist_add() for a new router: emfc_rtport_add(), which reports success
\* without an entry too.
Query(i) ==
  /\ ~fault
  /\ i \in ports /\ i \notin router
  /\ router' = router \cup {i}
  /\ IF find(i) = 0
     THEN \/ \E p \in Fresh : insert(p, New(i, 0, 1))
          \/ "softirq" \in NoMem /\ UNCHANGED <<list, ent>>
     ELSE ref_add(i, "rtport")
  /\ UNCHANGED <<ports, cfg, fault>>

\* igsc_rtlist_timer(): emfc_rtport_del().
RtTimer(i) ==
  /\ ~fault
  /\ i \in router
  /\ router' = router \ {i}
  /\ IF find(i) = 0 THEN UNCHANGED <<list, ent>> ELSE ref_del(Found(i), i, "rtport")
  /\ UNCHANGED <<ports, cfg, fault>>

-----------------------------------------------------------------------------
(***************************************************************************)
(* Commands.                                                               *)
(***************************************************************************)

AddCmds == {"IF_ADD", "UFFP_ADD", "RTPORT_ADD"}
Counter(c) == IF c \in {"UFFP_ADD", "UFFP_DEL"} THEN "uffp" ELSE "rtport"

At(l) == pc = l /\ ~fault

\* The command returns; P is the bridge's list then.
Return(P) ==
  /\ cmd' = "none" /\ cif' = NULL /\ pc' = "idle" /\ ptr' = NULL /\ prev' = NULL
  /\ ports' = P

Continue(l) == pc' = l /\ UNCHANGED <<cmd, cif, ptr, prev, ports>>

\* emf_cfg_request_process() up to its call into emfc.c: IF_ADD and IF_DEL
\* change the bridge's own list first, the others need the interface on it.
\* The bound leaves room for the softirqs' own count.
Begin(c, i) ==
  /\ At("idle") /\ c \in Cmds
  /\ (i \in ports) = (c # "IF_ADD")
  /\ c \in AddCmds => \A p \in Ptr : ent[p].ifp = i =>
                         ent[p][Counter(c)] \notin {MaxRef - 1, MaxRef}
  /\ ports' = CASE c = "IF_ADD" -> ports \cup {i}
                [] c = "IF_DEL" -> ports \ {i}
                [] OTHER -> ports
  /\ cmd' = c /\ cif' = i
  /\ pc' = IF c \in AddCmds THEN "add_find" ELSE "del_find"
  /\ UNCHANGED <<list, ent, router, ptr, prev, fault>>

\* emfc_iflist_add(): the search for a duplicate ...
AddFind ==
  /\ At("add_find")
  /\ IF find(cif) = 0 THEN Continue("add_insert")
     ELSE IF cmd = "IF_ADD" THEN Return(ports \ {cif})
     ELSE Continue("ref_add")
  /\ UNCHANGED <<list, ent, router, fault>>

\* ... and the insertion.  Without memory IF_ADD is undone; the others go on.
AddInsert ==
  /\ At("add_insert")
  /\ \/ /\ \E p \in Fresh : insert(p, New(cif, 0, 0))
        /\ IF cmd = "IF_ADD" THEN Return(ports) ELSE Continue("ref_add")
     \/ /\ "command" \in NoMem
        /\ UNCHANGED <<list, ent>>
        /\ IF cmd = "IF_ADD" THEN Return(ports \ {cif}) ELSE Continue("ref_add")
  /\ UNCHANGED <<router, fault>>

RefAdd ==
  /\ At("ref_add")
  /\ ref_add(cif, Counter(cmd))
  /\ Return(ports)
  /\ UNCHANGED <<router, fault>>

\* The search of emfc_iflist_del(), emfc_rtport_del() and emfc_uffp_del().
DelFind ==
  /\ At("del_find")
  /\ IF find(cif) = 0 THEN Return(ports)
     ELSE /\ ptr' = Found(cif)
          /\ prev' = Before(cif)
          /\ pc' = IF cmd = "IF_DEL" THEN "del_unlink" ELSE "ref_del"
          /\ UNCHANGED <<cmd, cif, ports>>
  /\ UNCHANGED <<list, ent, router, fault>>

\* What they do with its result, under the lock again.
DelUnlink ==
  /\ At("del_unlink")
  /\ ptr \notin Free /\ prev \notin Free
  /\ unlink(ent, ptr, prev)
  /\ Return(ports)
  /\ UNCHANGED <<router, fault>>

RefDel ==
  /\ At("ref_del")
  /\ ptr \notin Free
  /\ ref_del(ptr, cif, Counter(cmd))
  /\ Return(ports)
  /\ UNCHANGED <<router, fault>>

\* The predecessor has been freed meanwhile: prev->next is written to memory
\* that is on no list, and the entry is freed where it stays linked.
FreedPrev ==
  /\ At("del_unlink")
  /\ prev \in Free
  /\ ent' = [ent EXCEPT ![ptr] = Freed]
  /\ UNCHANGED list

\* The entry itself has been freed: the list goes on with whatever its next
\* pointer holds, and the entry is freed again.
FreedPtr ==
  /\ At("del_unlink")
  /\ ptr \in Free /\ prev \notin Free
  /\ \E rest \in {<<>>} \cup {<<q>> : q \in Ptr}
                    \cup {SubSeq(list, n, Len(list)) : n \in DOMAIN list} :
       list' = Until(prev) \o rest
  /\ UNCHANGED ent

\* A count of a freed entry is lowered; if both then read zero, the entry that
\* the interface may have by now goes.
FreedRef ==
  /\ At("ref_del")
  /\ ptr \in Free
  /\ \/ UNCHANGED <<list, ent>>
     \/ find(cif) # 0 /\ unlink(ent, Found(cif), Before(cif))

\* After these there is no telling what the code does.
UseFreed ==
  /\ FreedPrev \/ FreedPtr \/ FreedRef
  /\ fault' = TRUE
  /\ UNCHANGED <<ports, router, cfg>>

IflNext ==
  \/ \E i \in Iface : Query(i) \/ RtTimer(i)
  \/ \E c \in Cmds, i \in Iface : Begin(c, i)
  \/ AddFind \/ AddInsert \/ RefAdd \/ DelFind \/ DelUnlink \/ RefDel \/ UseFreed

IflSpec == IflInit /\ [][IflNext]_vars

-----------------------------------------------------------------------------
(***************************************************************************)
(* Properties.                                                             *)
(***************************************************************************)

IflistTypeOK ==
  /\ list \in Seq(Ptr)
  /\ ent \in [Ptr -> [ifp : Iface \cup {NULL}, uffp : Count, rtport : Count]]
  /\ ports \in SUBSET Iface /\ router \in SUBSET Iface
  /\ ptr \in Ptr \cup {NULL} /\ prev \in Ptr \cup {NULL}
  /\ cif \in Iface \cup {NULL}
  /\ fault \in BOOLEAN

\* No freed entry is on the list and no entry is on it twice, so that the walk
\* of emfc_unreg_frame_handle() stays in allocated memory and ends.
WellLinked ==
  /\ ToSet(list) \cap Free = {}
  /\ \A m, n \in DOMAIN list : list[m] = list[n] => m = n

\* Of all the races of commands with softirqs only one spoils the list: IF_DEL
\* with an entry, or a predecessor, that a router's expiry freed between its
\* search and its unlinking.  Duplicates, lost entries and a count lowered in a
\* freed entry leave the list sound.
OnlyIfDelSpoils == WellLinked \/ (fault /\ cmd = "IF_DEL")

\* What a step takes off the list it frees, and it is an entry of the step's
\* own interface, whatever a softirq did since the search and however many
\* duplicates it made: the router port or flooding port of another interface
\* is not lost.  IF_DEL, which unlinks with a stale predecessor, is apart.
UnlinkFreesOwn ==
  [][pc # "del_unlink" =>
       \A p \in ToSet(list) : p \notin ToSet(list') =>
         /\ ent'[p] = Freed
         /\ \/ ent[p].ifp \in router /\ ent[p].ifp \notin router'
            \/ pc = "ref_del" /\ ent[p].ifp = cif]_vars
=============================================================================
