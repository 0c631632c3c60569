------------------------------ MODULE Instances ------------------------------
(***************************************************************************)
(* The life of EMF and IGS instances on Linux bridges: their creation and  *)
(* deletion by commands (router/emf/emf/emf_linux.c, igs/igs_linux.c), the *)
(* registration of the snooper with the forwarding layer (emfc.c, igsc.c), *)
(* and the packet hooks that all EMF instances share.                      *)
(*                                                                         *)
(* Commands come in any order.  They do not sleep, so only softirqs, that  *)
(* is frames and timers, run inside one, and see nothing new there except  *)
(* in the middle of igsc_init().                                           *)
(***************************************************************************)
EXTENDS Naturals, Sequences, FiniteSets

CONSTANTS
  Bridge,        \* bridge names, the instance identifiers
  Dev,           \* addresses of bridge devices
  EmfPtr,        \* addresses of EMF instances
  IgsPtr,        \* addresses of IGS instances
  EMF_MAX_INST,
  IGS_MAX_INST,
  Fails,         \* what may fail: "emf", "hooks", "igs", "igs_rtlist_lock"
  NULL

EmfInst == [br : Bridge, dev : Dev, enable : BOOLEAN, snooper : IgsPtr \cup {NULL}]
IgsInst == [br : Bridge, handle : EmfPtr, ready : BOOLEAN, entries : BOOLEAN]

ASSUME InstAssumption ==
  /\ EMF_MAX_INST \in Nat /\ IGS_MAX_INST \in Nat
  /\ NULL \notin EmfPtr \cup IgsPtr /\ NULL \notin EmfInst /\ NULL \notin IgsInst

VARIABLES
  dev,        \* the device of each bridge
  emf,        \* EMF instances: br_dev, name, emf_enable, snooper; NULL if free
  emf_list,   \* emf->list_head
  emfc_list,  \* emfc_list_head
  emf_count,  \* emf->inst_count
  hooks_reg,  \* emf->hooks_reg; the hooks are in place while it is not 0
  igs,        \* IGS instances: name, emf_handle, router list initialised,
              \* entries with timers; NULL if free
  igs_list,   \* igs.list_head
  igs_count,  \* igs.inst_count
  starting,   \* the IGS instance that igsc_init() is working on
  misuse,     \* a command has come in an order that the code does not stand
  fault       \* the first use of freed or uninitialised memory, or "none"

evars == <<emf, emf_list, emfc_list, emf_count, hooks_reg>>
gvars == <<igs, igs_list, igs_count, starting>>
vars  == <<dev, evars, gvars, misuse, fault>>

Live(objs)   == {p \in DOMAIN objs : objs[p] # NULL}
Listed(list) == {list[i] : i \in DOMAIN list}

\* The first entry of a list that is among those looked for.
Leads(p, list, hits) ==
  \E i \in DOMAIN list : list[i] = p /\ \A j \in 1..(i - 1) : list[j] \notin hits

First(list, hits) ==
  IF \E p \in hits : Leads(p, list, hits)
  THEN CHOOSE p \in hits : Leads(p, list, hits)
  ELSE NULL

\* emf_instance_find_by_brptr(), emfc_instance_find() and igs_instance_find()
EmfOf(b)              == First(emf_list, {p \in Live(emf) : emf[p].dev = dev[b]})
emfc_instance_find(b) == First(emfc_list, {p \in Live(emf) : emf[p].br = b})
igs_instance_find(b)  == First(igs_list, {q \in Live(igs) : igs[q].br = b})

\* An entry is taken off a list that holds it.
Without(list, p) ==
  LET i == CHOOSE i \in DOMAIN list : list[i] = p
  IN  [j \in 1..(Len(list) - 1) |-> IF j < i THEN list[j] ELSE list[j + 1]]

\* emf_instance_del() and igs_instance_del() unlink the first entry by setting
\* the head to NULL: the rest of the list is lost.
Unlinked(list, p) == IF list[1] = p THEN <<>> ELSE Without(list, p)

\* Fault: a command may sleep, and another one come in.
IdleAsleep == fault = "none"

\* A command may be given; a softirq may run.
Idle    == starting = NULL /\ fault = "none"
Softirq == fault = "none"

InstInit ==
  /\ dev \in [Bridge -> Dev] /\ \A a, b \in Bridge : dev[a] = dev[b] => a = b
  /\ emf = [p \in EmfPtr |-> NULL] /\ igs = [q \in IgsPtr |-> NULL]
  /\ emf_list = <<>> /\ emfc_list = <<>> /\ igs_list = <<>>
  /\ emf_count = 0 /\ igs_count = 0 /\ hooks_reg = 0
  /\ starting = NULL /\ misuse = FALSE /\ fault = "none"

-----------------------------------------------------------------------------
(***************************************************************************)
(* EMF instances.                                                          *)
(***************************************************************************)

\* The limit lets one instance more than EMF_MAX_INST through.
EmfRoom == emf_count <= EMF_MAX_INST

\* EMFCFG_CMD_BR_ADD: emf_instance_add() and emfc_init().  An attempt counts
\* even if it fails, and the limit is exceeded by one.
EmfBrAdd(b) ==
  /\ Idle /\ EmfOf(b) = NULL /\ EmfRoom
  /\ emf_count' = emf_count + 1
  /\ \/ \E p \in EmfPtr :
          /\ emf[p] = NULL
          /\ emf' = [emf EXCEPT ![p] = [br |-> b, dev |-> dev[b], enable |-> FALSE,
                                        snooper |-> NULL]]
          /\ emf_list' = <<p>> \o emf_list
          /\ emfc_list' = <<p>> \o emfc_list
     \/ "emf" \in Fails /\ UNCHANGED <<emf, emf_list, emfc_list>>
  /\ UNCHANGED <<dev, hooks_reg, gvars, misuse, fault>>

\* Fault: the hooks are registered although they are in place.
hooks_register_again(n) == n + 1

\* emf_hooks_register(), emf_hooks_unregister()
hooks_register(n)   == IF n = 0 THEN 1 ELSE n
hooks_unregister(n) == IF n = 0 THEN 0 ELSE n - 1

\* Some snooper holds instance p as its emf_handle.
Held(p) == \E q \in IgsPtr : igs[q] # NULL /\ igs[q].handle = p

\* Fault: the instance is freed before it is off the list of the hooks.
EmfBrDelListed(b) ==
  LET p == EmfOf(b) IN
  /\ Idle /\ p # NULL
  /\ emfc_list' = Without(emfc_list, p)
  /\ emf_count' = emf_count - 1
  /\ emf' = [emf EXCEPT ![p] = NULL]
  /\ UNCHANGED <<dev, emf_list, hooks_reg, gvars, misuse, fault>>

\* EMFCFG_CMD_BR_DEL: emf_instance_del() and emfc_exit(), which unregisters the
\* hooks once more.  It is out of order while a snooper holds the instance.
EmfBrDel(b) ==
  LET p == EmfOf(b) IN
  /\ Idle /\ p # NULL
  /\ emf_list' = Unlinked(emf_list, p)
  /\ emfc_list' = Without(emfc_list, p)
  /\ emf_count' = emf_count - 1
  /\ hooks_reg' = hooks_unregister(hooks_unregister(hooks_reg))
  /\ emf' = [emf EXCEPT ![p] = NULL]
  /\ misuse' = (misuse \/ Held(p))
  /\ UNCHANGED <<dev, gvars, fault>>

\* EMFCFG_CMD_EMF_ENABLE TRUE.  The hooks are registered once for all, not
\* counted; if that fails the instance stays enabled.
EmfEnable(b) ==
  LET p == EmfOf(b) IN
  /\ Idle /\ p # NULL /\ ~emf[p].enable
  /\ emf' = [emf EXCEPT ![p].enable = TRUE]
  /\ \/ hooks_reg' = hooks_register(hooks_reg)
     \/ "hooks" \in Fails /\ hooks_reg = 0 /\ UNCHANGED hooks_reg
  /\ UNCHANGED <<dev, emf_list, emfc_list, emf_count, gvars, misuse, fault>>

\* EMFCFG_CMD_EMF_ENABLE FALSE: the snooper's igsc_emf_disabled() clears its
\* entries, then the hooks go.
EmfDisable(b) ==
  LET p == EmfOf(b)  q == emf[p].snooper IN
  /\ Idle /\ p # NULL /\ emf[p].enable
  /\ emf' = [emf EXCEPT ![p].enable = FALSE]
  /\ hooks_reg' = hooks_unregister(hooks_reg)
  /\ \/ q = NULL /\ UNCHANGED igs
     \/ q # NULL /\ igs' = [igs EXCEPT ![q].entries = FALSE]
  /\ UNCHANGED <<dev, emf_list, emfc_list, emf_count, igs_list, igs_count, starting, misuse,
                 fault>>

-----------------------------------------------------------------------------
(***************************************************************************)
(* IGS instances.                                                          *)
(***************************************************************************)

\* IGSCFG_CMD_BR_ADD: igs_instance_add() and igsc_init() to the point where the
\* snooper is registered.  Every attempt counts, for good.  It is out of order
\* if EMF is enabled: frames reach the snooper from here on.
IgsBrAdd(b) ==
  LET p == emfc_instance_find(b) IN
  /\ Idle /\ igs_instance_find(b) = NULL /\ igs_count <= IGS_MAX_INST
  /\ igs_count' = igs_count + 1
  /\ \/ /\ p = NULL \/ "igs" \in Fails
        /\ UNCHANGED <<emf, igs, starting, misuse>>
     \/ /\ p # NULL
        /\ \E q \in IgsPtr :
             /\ igs[q] = NULL
             /\ igs' = [igs EXCEPT ![q] = [br |-> b, handle |-> p, ready |-> FALSE,
                                           entries |-> FALSE]]
             /\ emf' = [emf EXCEPT ![p].snooper = q]
             /\ starting' = q
        /\ misuse' = (misuse \/ emf[p].enable)
  /\ UNCHANGED <<dev, emf_list, emfc_list, emf_count, hooks_reg, igs_list, fault>>

\* Fault: nobody tells the forwarding layer.
igsc_free_registered(q) ==
  /\ igs' = [igs EXCEPT ![q] = NULL]
  /\ UNCHANGED <<emf, fault>>

\* emfc_igmp_snooper_unregister() through the handle, whoever is registered
\* there; the entries and the instance are freed.
igsc_free(q) ==
  LET p == igs[q].handle IN
  /\ igs' = [igs EXCEPT ![q] = NULL]
  /\ \/ emf[p] # NULL /\ emf' = [emf EXCEPT ![p].snooper = NULL] /\ UNCHANGED fault
     \/ emf[p] = NULL /\ fault' = "handle" /\ UNCHANGED emf

\* The rest of igsc_init(): the router list and its lock; and the list of
\* instances.
IgsReady ==
  /\ starting # NULL /\ Softirq
  /\ starting' = NULL
  /\ \/ /\ igs' = [igs EXCEPT ![starting].ready = TRUE]
        /\ igs_list' = <<starting>> \o igs_list
        /\ UNCHANGED <<emf, fault>>
     \/ /\ "igs_rtlist_lock" \in Fails
        /\ igsc_free(starting)
        /\ UNCHANGED igs_list
  /\ UNCHANGED <<dev, emf_list, emfc_list, emf_count, hooks_reg, igs_count, misuse>>

\* IGSCFG_CMD_BR_DEL: igs_instance_del() and igsc_exit().
IgsBrDel(b) ==
  LET q == igs_instance_find(b) IN
  /\ Idle /\ q # NULL
  /\ igs_list' = Unlinked(igs_list, q)
  /\ igsc_free(q)
  /\ UNCHANGED <<dev, emf_list, emfc_list, emf_count, hooks_reg, igs_count, starting, misuse>>

-----------------------------------------------------------------------------
(***************************************************************************)
(* Softirqs, and the bridge itself.                                        *)
(***************************************************************************)

\* emf_br_pre_hook(), emfc_input(): an IGMP frame on an interface of instance p
\* reaches its snooper q.
Reaches(p, q) ==
  /\ Softirq /\ hooks_reg # 0
  /\ p \in Listed(emf_list)
  /\ emf[p].enable /\ emf[p].snooper = q

\* igsc_input(): a report enters a host, a query a router, into a list that
\* must have been initialised.
Report(p, q) ==
  /\ Reaches(p, q)
  /\ igs' = [igs EXCEPT ![q].entries = TRUE]
  /\ UNCHANGED <<dev, evars, igs_list, igs_count, starting, misuse, fault>>

Query(p, q) ==
  /\ Reaches(p, q)
  /\ \/ ~igs[q].ready /\ fault' = "rtlist" /\ UNCHANGED igs
     \/ igs[q].ready /\ igs' = [igs EXCEPT ![q].entries = TRUE] /\ UNCHANGED fault
  /\ UNCHANGED <<dev, evars, igs_list, igs_count, starting, misuse>>

\* igsc_sdb_timer(), igsc_rtlist_timer(): an entry goes, and with it what the
\* forwarding layer holds for it.
Timer(q) ==
  /\ Softirq /\ igs[q] # NULL /\ igs[q].entries
  /\ \E e \in BOOLEAN : igs' = [igs EXCEPT ![q].entries = e]
  /\ fault' = IF emf[igs[q].handle] = NULL THEN "handle" ELSE fault
  /\ UNCHANGED <<dev, evars, igs_list, igs_count, starting, misuse>>

\* The LAN is restarted (stop_lan(), start_lan() of rc): a bridge of the same
\* name has another device.
BridgeRenewed(b) ==
  /\ Idle
  /\ \E d \in Dev \ {dev[a] : a \in Bridge} : dev' = [dev EXCEPT ![b] = d]
  /\ UNCHANGED <<evars, gvars, misuse, fault>>

-----------------------------------------------------------------------------
InstNext ==
  \/ \E b \in Bridge : \/ EmfBrAdd(b) \/ EmfBrDel(b) \/ EmfEnable(b) \/ EmfDisable(b)
                       \/ IgsBrAdd(b) \/ IgsBrDel(b) \/ BridgeRenewed(b)
  \/ IgsReady
  \/ \E p \in EmfPtr, q \in IgsPtr : Report(p, q) \/ Query(p, q)
  \/ \E q \in IgsPtr : Timer(q)

InstSpec == InstInit /\ [][InstNext]_vars

-----------------------------------------------------------------------------
(***************************************************************************)
(* Properties.                                                             *)
(***************************************************************************)

\* An entry is on a list once.
Distinct(list) == \A i, j \in DOMAIN list : list[i] = list[j] => i = j

\* Types; the hooks are registered at most once.
InstTypeOK ==
  /\ dev \in [Bridge -> Dev]
  /\ emf \in [EmfPtr -> EmfInst \cup {NULL}] /\ igs \in [IgsPtr -> IgsInst \cup {NULL}]
  /\ emf_list \in Seq(EmfPtr) /\ emfc_list \in Seq(EmfPtr) /\ igs_list \in Seq(IgsPtr)
  /\ emf_count \in Nat /\ igs_count \in Nat /\ hooks_reg \in {0, 1}
  /\ starting \in IgsPtr \cup {NULL} /\ misuse \in BOOLEAN
  /\ fault \in {"none", "rtlist", "handle"}

\* "The snooper parameter needs to global or persistent": no EMF instance has
\* a snooper that is freed, in whatever order the commands come, whichever of
\* them fail, and although two snoopers may have registered with it in turn.
SnooperLives ==
  \A p \in Live(emf) : emf[p].snooper # NULL => emf[p].snooper \in Live(igs)

\* What the hooks and the commands find on their lists has not been freed and
\* is there once; the common code's list has all EMF instances.
ListsLive ==
  /\ Listed(emf_list) \subseteq Live(emf) /\ Distinct(emf_list)
  /\ Listed(igs_list) \subseteq Live(igs) /\ Distinct(igs_list)
  /\ Listed(emfc_list) = Live(emf) /\ Distinct(emfc_list)

\* If IGS is added to bridges where EMF is not enabled, and EMF is not deleted
\* before IGS, no frame meets a router list that is not initialised and no
\* timer a freed EMF instance; failures on the way do no harm.
OrderSuffices == fault # "none" => misuse

-----------------------------------------------------------------------------
(***************************************************************************)
(* What has to be added to make these inductive.                           *)
(***************************************************************************)

\* A snooper that is registered is alive and holds that EMF instance, so that
\* no other instance is left with it when it is freed.
Registered ==
  \A p \in Live(emf) : emf[p].snooper # NULL =>
    emf[p].snooper \in Live(igs) /\ igs[emf[p].snooper].handle = p

\* The snooper that igsc_init() is working on is alive, is not on the list yet,
\* and is the only one that is not ready.
StartingAlone ==
  /\ starting # NULL => starting \in Live(igs) /\ starting \notin Listed(igs_list)
  /\ \A q \in Live(igs) : ~igs[q].ready => q = starting

\* If nothing was done out of order, every handle is alive and every snooper that
\* frames reach is ready.
Ordered ==
  ~misuse =>
    /\ fault = "none"
    /\ \A q \in Live(igs) : igs[q].handle \in Live(emf)
    /\ \A p \in Live(emf) :
         emf[p].enable /\ emf[p].snooper # NULL => igs[emf[p].snooper].ready

\* The counter of instances covers those that are lost from the list too, so
\* that taking an instance off never makes it negative.
CountCovers == Cardinality(Live(emf)) <= emf_count

InstInv ==
  /\ InstTypeOK /\ ListsLive /\ Registered /\ StartingAlone /\ Ordered
  /\ IsFiniteSet(Live(emf)) /\ CountCovers

-----------------------------------------------------------------------------
(***************************************************************************)
(* What a comment of the code says that does not hold in all its states.   *)
(***************************************************************************)

\* emf_struct: "EMF hooks registration ref count".  The hooks are in place as
\* long as an instance whose hooks could be registered is enabled.
HooksCounted ==
  "hooks" \notin Fails =>
    \A p \in Listed(emf_list) : emf[p].enable => hooks_reg # 0
=============================================================================
