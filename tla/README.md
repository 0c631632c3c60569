# Verification of wifi-bcm: multicast forwarding and WPA key management

wifi-bcm is a Broadcom router firmware tree (release 0.2.6): a wireless driver,
an Ethernet and a switch driver, boot loader, Linux kernel, and the user-space
daemons around them. Most of its twelve million lines are vendored. This project
holds TLA+ models of the parts that carry logic of their own, TLC configurations
that check them on small instances, and TLAPS proofs that hold for every instance.

Paths below are relative to `src/0.2.6/src/`.

## Inventory

### Efficient Multicast Forwarding (EMF) and IGMP snooping (IGS): modelled

| Part | Source | State | Operations |
|---|---|---|---|
| EMFC, forwarding database | `emf/emf/emfc.c` | hash table of group entries, each with its interfaces and their reference counts; a lookup cache of one entry (`mgrp_cache_ip`, `mgrp_cache`); list of interfaces with members | membership add and delete, clear, lookup |
| EMFC, interface list | `emf/emf/emfc.c` | one entry per interface with `uffp_ref` and `rtport_ref` | add, delete, router port add/delete, UFFP add/delete, clear |
| EMFC, input | `emf/emf/emfc.c` | `emf_enable` | where a multicast frame goes; handing IGMP to the snooper |
| IGSC, snooping database | `emf/igs/igsc_sdb.c` | groups, their interfaces with `mi_ref`, their hosts with a timer each, statistics | member add/delete, expiry, clear, interface delete |
| IGSC, router list | `emf/igs/igsc.c` | routers heard, with a timer each | add on a query, expiry, clear, interface delete |
| EMF on a bridge | `router/emf/emf/emf_linux.c` | the bridge's interface list, instance list, hooks | netlink commands, packet hooks |
| WMF | `wl/sys/wlc_wmf.c` | one EMF and IGS instance per BSS; stations are the interfaces | frames of stations, station removal, start, stop |
| Instances | `router/emf/emf/emf_linux.c`, `router/emf/igs/igs_linux.c`, `emfc_init()`, `igsc_init()` and their exits | two lists of EMF instances, one of IGS instances, counters, the snooper registered with each EMF instance, one registration of the packet hooks for all | BR_ADD, BR_DEL, enable, disable |
| OSL | `emf/igs/osl_linux.c`, `include/emf/igs/osl_linux.h` | kernel timers and locks | |

How they interact. A packet hook calls `emfc_input()`. For an IGMP frame that
calls the snooper's `igsc_input()`, which calls back into
`emfc_mfdb_membership_add()`, `emfc_mfdb_membership_del()`, `emfc_rtport_add()`
and `emfc_rtport_del()`. The snooper's timers make the same calls. The
configuration thread calls the same functions from process context, and on a
disable calls the snooper (`igsc_emf_disabled()`), which again calls EMFC. So three kinds
of actors change the same lists, and two databases have to agree: the reference
an interface has in the MFDB is held on behalf of the hosts in the IGSDB.

What is hard in it:

- the cache is a pointer into freed memory most of its life, kept harmless by
  one word next to it;
- five exits of `igsc_sdb_member_add()` that undo different amounts of work;
- counts kept by one side "per router" and by the other "per interface";
- a disable that takes four locks in turn while timers run between them;
- searches of the interface list that release the lock before the result is used;
- entries, timers and control blocks that must be freed together.

The hazards, each at its line, are in `PROJECT.json`.

What correct means: data of a group goes to exactly the interfaces with a member
(`KeepsPromise`, `MembersForwarded`); the lookup through the cache is the lookup
without it (`LookupExact`, `ImplementsCounts`); a router hears reports
(`RoutersHear`); what should age out does (`SilentHostsAgeOut`); a disabled
instance or a departed station leaves nothing behind (`DisabledIsEmpty`,
`DetachedForgotten`); the host entries and their timers go together (`TimersPending`,
`SdbNoFault`); races on the interface list do no more harm than the one of IF_DEL
(`OnlyIfDelSpoils`, `UnlinkFreesOwn`).

### NAS, the WPA authenticator (`router/nas/wpa.c`, `nas.c`, `nas_wl.c`): modelled for pre-shared keys

| Part | State | Operations |
|---|---|---|
| table of stations (`nas->sta[]`) | per address: mode, 802.1X state, handshake state and state to retry, retries, timer, replay counter, nonces, pairwise key | look up with aging out, toss, clean up |
| 4-way handshake | the same | association, key frames, key requests, retransmission, fall-through |
| group key | key, whether it is plumbed, rekey timer, nonce counter | initialise, rekey by timer or request |
| TKIP countermeasures | on or off, timer and its handle, time of the last failure | MIC failure from the driver or a station, end of the period |
| supplicant (same file) | nonce, pairwise key, group key, which message it expects | messages 1 and 3, group message |
| driver (`wl/sys/wlc_ap.c`, `wlc.c`) | key and authorization of each station, events on their way to NAS | (re)association, leaving; for NAS: set key, authorize, deauthorize, deauthenticate |

NAS is one thread around `select()`; every frame, driver event and timer is
handled to its end. What is hard is outside: frames lost, delayed and repeated,
stations that associate again or leave in the middle, which the driver acts on at
once and NAS learns of later from an event, timers that race with the answer
they wait for, a table that ages out a station in any state, and one group key
shared by handshakes at different points. Correct means: both ends agree on the
key when the handshake is over (`Agreement`), no key of an earlier association
outlives the event of the next one (`KeyOfAssociation`), a station is
authorized only on proof that it has the key (`AuthorizedOnProof`), whom NAS
drops of its own accord the driver drops too (`DropsReachDriver`), countermeasures keep TKIP
out (`CountermeasuresHold`), there is one rekey timer if there is an interval (`OneGtkTimer`), and a
station is settled or lost in the end (`HandshakeEnds`).

### Not modelled

- NAS beyond pre-shared keys: 802.1X with RADIUS (`pae_state()`, the watchdog,
  preauthentication), PMK caching, WEP, WDS links, management frame protection.
  A send that fails is a frame that is lost.
- Module load and unload of EMF and IGS (`emf_instances_clear()`,
  `igs_instances_clear()`; nothing in `rc` calls `unload_emf()`), and WMF instance
  add and delete.
- WPS (`wps`), EAPD (`router/eapd`): the AP's EAP state machine with
  retransmission, push-button session; possible later.
- IGMP proxy daemon (`router/igmp`) and the daemons' timer list
  (`router/shared/linux_timer.c`): possible later.
- NVRAM (`shared/nvram.c`, `shared/nvram_rw.c`), DMA rings (`shared/hnddma.c`):
  possible later, small.
- Wireless driver core and PHY (`wl/sys`, apart from WMF and from what NAS sees of
  associations), Ethernet and switch
  drivers (`et`, `bcm57xx`, `shared/bcmrobo.c`): bound to hardware registers.
- Crypto (`bcmcrypto`, `ses`): arithmetic on large values, not for a model checker.
- `rc` (but for the restart of the LAN under the instances), `httpd`, `acsd` and
  the command line tools: sequential configuration.
- Kernel, boot loader, third-party programs: vendored.

## Plan

1. EMFC with its abstract specification MFDB. Done, proved.
2. IGSC on top of it, with its promise McastFwd, for bridges and WMF. Done,
   checked and proved.
3. The interface list at the grain of its locks. Done, checked and proved.
4. `Instances`: instances that come and go, with the shared hooks. Done,
   checked and proved.
5. `WPA`: the handshakes of NAS with their timers and the table of stations. Done
   for pre-shared keys, checked and proved.
6. Left: `HandshakeEnds` and the other liveness properties stay with TLC; a proof
   that `Iflist` without interleavings is the interface list of `EMFC`; more of the
   parts listed as possible above.

## Modules

| Module | What it is |
|---|---|
| `MFDB` | abstract: a reference count per group and interface |
| `EMFC` | `emfc.c` for one instance, called by anyone in any order |
| `MCEMFC` | the model for TLC |
| `EMFC_proofs` | type correctness and the safety invariants of `EMFC` |
| `MFDB_proofs` | `EMFC` implements `MFDB` |
| `McastFwd` | abstract: the forwarded interfaces are those with members |
| `IGSC` | extends `EMFC`: snooping, timers, the commands of a bridge and of WMF |
| `MCIGSC` | the model for TLC |
| `IGSC_proofs` | snooping: invariants, refinement of `McastFwd`, and `IGSC` as a caller of `EMFC` |
| `Iflist` | the interface list of `emfc.c` at the grain of its locks |
| `MCIflist` | the model for TLC |
| `Iflist_proofs` | the safety properties of `Iflist` |
| `Instances` | EMF and IGS instances of the bridges, snooper registration, shared hooks |
| `MCInstances` | the model for TLC |
| `Instances_proofs` | the safety invariants of `Instances` |
| `WPA` | NAS: authenticator, table of stations, countermeasures, supplicant and air |
| `MCWPA` | the stations and requests for TLC |
| `WPA_proofs` | the safety properties of `WPA` |

Operators that change a definition the way a bug would have a comment that
begins with "Fault:" and are used by no specification.

### EMFC

Group entries live at heap addresses (`MgrpPtr`), because the question is about a
cached address that outlives its entry and is used again: `mgrp_ip` gives the
group at each address, `mi_ref` the counts of its interfaces. Hash buckets are
left out: the entries of one group are in one chain, and a walk finds the group's
entry or none. `mgrp_cache` keeps its value when an entry is freed, as in the
code. A malloc site named in `AllocFail` may fail. Counts are modulo `RefMod`,
because `emfc_rtport_del()` and `emfc_uffp_del()` decrement without a test.

`emfc.c` functions map to the operators of the same name without their prefix;
those are conjoined by callers. `add_then_del` and `rtport_add_then_del` are two
calls the snooper makes in a row under its own lock when it backs out. `Spec`
is the layer under an arbitrary caller.

### IGSC

The IGSDB is a set of host entries `<<group, interface, host>>`, the set of those
whose timer is pending, and `mi_ref` of the interface entries, kept apart because
it may disagree with the hosts. `stale_timer` are router timers whose entry is
gone. `fault` records the first use of freed memory or a failed `ASSERT`; after
it behaviour is undefined and the model stops.

Concurrency. The kernel of this firmware is configured for one processor with
preemption (`CONFIG_PREEMPT=y`, no SMP), and `OSL_LOCK` is `spin_lock_bh`
(`include/emf/igs/osl_linux.h:55`). So a frame or a timer runs to its end once it
has begun, and a command is interrupted only where it holds no lock. A lock taken
again inside itself (`iflist_lock` in `emfc_rtport_del()`) is harmless on one
processor; it would deadlock on an SMP kernel, which is not this build. Commands
come one at a time from one netlink socket. The disable command is split at its
locks: `sdb_clear`, `rtlist_clear`, `mfdb_clear`, `iflist_clear`. Its loops take
an entry per step with softirqs shut out. Under WMF the driver lock is held
throughout a station's removal.

Left out because they change no state of these lists: reports to reserved
addresses, IGMPv1 reports, queries without a source, frames from the IP stack
other than for the cache, query transmission, the listing commands. Compiled out
in this build: `SUPPORT_IGMP_V3`, `MEDIAROOM_IGMP_WAR`. Times are
left out: a pending timer may run at any moment.

`igsc_rtlist_clear()` reads the `next` field of an entry it has just freed
(`emf/igs/igsc.c:251-258`), in every disable with a router. What it reads depends
on whether the memory is in use again. With `Reused` the model has both outcomes:
the field is intact and the loop goes on (`RtlistClearLoop`), or it is not, which is
recorded as `fault = "rtlist_next"` and ends the behaviour. Without it the
field is intact, and what is then checked is what the code does if nobody
allocates between the two statements. `Reused` is TRUE in `wmf`, `commands`
and `sta_timer`, FALSE in `snoop` and `live`, where a disable has to come to its end. The
proofs do not depend on it.

### Iflist

`emfc_iflist_find()` takes and releases `iflist_lock` by itself, so a command
searches, lets go, and then inserts, counts or unlinks with what it found. Here
the list is a sequence of heap addresses and a command is a step for the search
and a step for the update, with the pointer `ptr` and its predecessor `prev` kept in
between. Softirqs (a query, a router's expiry) run in the gap. The unlinking takes
away whatever has come between `prev` and `ptr` meanwhile, as the pointer
assignment does. Both databases are left out.

An address that the command holds is not given out again while it holds it
(`Fresh`), so that a held address that is allocated is the entry that the search
found. A command that goes on with an entry that was freed meanwhile uses freed
memory whether or not the allocator has reused it. `UseFreed` has what the code
does then: with a freed predecessor it writes `prev->next` into nowhere and frees
the entry, which stays linked (`FreedPrev`); with a freed entry it links whatever
the entry's `next` holds and frees it again (`FreedPtr`); a count of a freed entry
is lowered, and the interface's present entry may go with it (`FreedRef`). After
the step `fault` is set and the behaviour ends; the properties hold of the state it
leaves.

### Instances

An instance is a record at a heap address, or `NULL`; what EMFC and IGSC keep
inside one is reduced to whether EMF is enabled, who the snooper is, whether the
snooper's router list is initialised, and whether it has entries with timers.
Three lists are kept apart, because the code does: EMF instances are found by
bridge device (`emf->list_head`), by name in the common code (`emfc_list_head`), and
IGS instances by name (`igs.list_head`). Deleting the first entry of the two outer
lists sets their head to NULL (`Unlinked`), so that the rest is lost to commands
while its memory, counters and registrations stay.

Commands come one at a time and do not sleep; softirqs run inside them. They
see a state of their own only in `igsc_init()`, between the registration of the
snooper and the initialisation of its router list, so this command alone is two steps
(`IgsBrAdd`, `IgsReady`). `misuse` becomes true when a command comes in an order
that the code does not stand: IGS added while EMF is enabled, or EMF deleted while a
snooper holds it. `fault` records a use of freed or uninitialised memory.
`BridgeRenewed` is what a restart of the LAN by `rc` does under the instances
(`router/rc/network.c`, `stop_lan()`, `start_lan()`): same name, new device.
`Fails` names what may fail.

### WPA

Driver and daemon are apart. `AssocReq` and `Leave` are the driver's: a station
that is associated already loses its authorization at once
(`wl/sys/wlc_ap.c:2648`), one that leaves its key as well, and an event goes to the
daemon's socket (`ev`). `AssocInd` and `DisassocInd` are the daemon's handling of the
event, after any frame that came before it: message 4 of the earlier association
may be handled in between and authorize the station with the old key, after which
`wpa_driver_assoc_msg()` clears the key only (`StaleKeyCleared`). An association whose
IE does not suit (`IeFails`) is dropped before that line, and `cleanup_sta()` is told not
to tell the driver; so is the entry of a station that leaves. `GtkRekey` is
`gtk_rekey_secs # 0`: without an interval, which is how the firmware is shipped
(`wl_wpa_gtk_rekey` is 0, `router/shared/defaults.c:352`), `wpa_set_gtk_timer()`
sets no timer. When the table is full and every entry was used in the same second
`lookup_sta()` finds none: the disassociation handler returns (`NoneOlder`), a frame
or MIC failure is dropped, and the association handler dereferences NULL,
which is not modelled.

What is still one step: the 802.11 authentication and association of a station, a
command of the daemon to the driver and its effect, and a deauthentication, which
the driver carries out when its frame is sent. A MIC failure is not queued: the
driver changes nothing with it, so its event may come at any time. The two
kinds of messages reach the daemon through different sockets, hence in any order;
events keep theirs. An association that the driver refuses is left out: it
sends no event, although it may have cleared the authorization already, and the
daemon's entry then outlives it until the station associates again or a timer or
the table drops it.

An entry of the table is a record per address, with `used` as in the code. A nonce is
the value of `global_key_counter` it was taken from; a pairwise key is the pair
of its nonces, a group key its nonce, a MIC the key it was made with. The station's
own nonce counts its associations, so that "the key of this association" can be
said. The last key frame of each direction stays on the air, where the receiver
may take it at any time and any number of times until the next one replaces it: frames
are lost, delayed and repeated, not reordered. Key requests are made
by stations at will, with any of the flag sets in `Requests`, since no replay counter or
MIC is checked on them. Times are left out: a pending timer may run at any
moment, and any entry may be the least recently used one. In the order they are tried:
countermeasures keep a TKIP station out (`Barred`), then the state selects the handler
(`PtkInitNegotiating`, `PtkInitDone`, `RekeyNeg`, `KeyRequest`). `Retransmission`
includes the fall-through of WPA, which installs the key when message 4 never
came and goes on with the group key; the timer that this sets is stopped
again by `wpa_retransmission()`, which is modelled as it is.

## Runs

| Run | Configuration | Shows |
|---|---|---|
| `emfc` | 2 groups, 2 interfaces, 3 addresses | `TypeOK`, `LookupExact`, `NoEmptyGroup`, `OneEntryPerGroup`, refinement of `MFDB` (`ImplementsCounts`) with failing allocations |
| `snoop` | 2 groups, 2 interfaces, 2 hosts | `IgscTypeOK`, `RefsAreHosts`, `TimersPending`, `StatsCoverEntries`, refinement of `McastFwd` (`KeepsPromise`) with enable and disable and failing allocations |
| `commands` | all bridge commands | `DisabledIsEmpty` whatever was configured before |
| `wmf` | 2 groups, 2 stations, 2 hosts, 1 router | `DetachedForgotten`, `SdbNoFault` |
| `live` | 1 group, 2 interfaces, 2 hosts, 2 routers, no symmetry; EMF_ENABLE, IF_ADD, MFDB_ADD, RTPORT_ADD | `MembersForwarded`, `RoutersHear` when static entries and router ports are added as well; `SilentHostsAgeOut`, `DisableReturns` |
| `iflist` | all commands, 3 interfaces, 3 addresses, counts modulo 4 | `IflistTypeOK`, `OnlyIfDelSpoils`, `UnlinkFreesOwn` |
| `wpa` | a WPA and a WPA2 station, table of 2, no retry, no rekey interval, 1 waiting event | `WpaTypeOK`, `Agreement` |
| `wpa_live` | a WPA2 station with TKIP and a stray address, table of 1, 2 associations, 1 retry, a rekey interval, 2 waiting events, 2 countermeasure timers, unsuitable IEs, rejected keys, error requests | `Agreement`, `KeyOfAssociation`, `CountermeasuresHold`, `OneGtkTimer`, `AuthorizedOnProof`, `DropsReachDriver`, `HandshakeEnds` |
| `instances` | 2 bridges, 3 devices, 2 instances of each kind, everything may fail | `InstTypeOK`, `SnooperLives`, `ListsLive`, `OrderSuffices` |

Deadlock is checked where the instance can always go on. It is not checked in
`commands`, `wmf`, `iflist`, `sta_timer`, `instances` and `hooks`, because
behaviours that reach `fault` end there, nor in the `wpa` runs, where the bounds on
nonces and replay counters end a behaviour.

Bounds. Two of each of groups, interfaces and hosts give every case the
code distinguishes: same or other group in the cache, first or further interface
of a group, last or not last host. The two routers of `live` are what the router list
distinguishes: a second router on a port, last or not last, on the same port or on
the other one. The other runs of `IGSC` have one router: their properties do not tell two
from one. The third address in
`emfc` lets a freed address be reused while the cache holds another one; three
interfaces and addresses in `Iflist` are an entry, its predecessor and one that comes
between them, of different interfaces or a duplicate.
`MaxRef` caps the counts that are raised: two is enough to tell "last reference"
from "one of several"; the commands stop one below so that a softirq is never
blocked by the bound. `RefMod` is larger than `MaxRef` + 1, so a wrapped count is
distinct from every count reached by raising. `MaxStat` stops new reports once a
total reaches it: the totals only grow across disables, and with fewer than
`MaxStat` losses every combination of hosts in the configuration still occurs.

In `instances` the third device lets a bridge be renewed while its old device is
still known to an instance, and two instances of each kind over limits of two
let a failed attempt use up the limit. In `wpa_live` and `wpa_gtk` one retry (`WPA_RETRY`) tells
"again" from "too often", in `wpa` the first retry is one too many already, so that the fall-through
is reached sooner; two waiting events (`MaxEvents`) let a station leave and come back
before the daemon has heard of either; `MaxReplay` leaves room for a handshake to be
run in full, retried at each message, after another was cut short, and an event that
would start one beyond it does not occur (`Room`); `MaxKey` gives every event of
two associations and a rekeying a nonce; two associations are enough to have keys and
frames of an earlier one; two timers (`MaxCm`) let countermeasures begin again
while they are on. A table of one makes any two addresses put each other out.

Fairness of `WpaFairSpec`. Weak fairness of each station's retransmission timer and of the
countermeasures timer: they are interval timers of the daemon, which run as long as
they are set. No frame is assumed to arrive, no event to be handled. A message 2 with a bad
MIC sets the retransmission timer anew (`wpa.c:2586`, `2610`), and weak fairness takes
the timer to run nevertheless: a peer that sends such frames faster than the
timeout for ever is outside what `HandshakeEnds` says.

Fairness (`IgscFairSpec`). Strong fairness of the two kinds of timers: a pending
kernel timer runs when the lock that shut softirqs out is released, so locks that
come and go do not starve it. Weak fairness of the steps of a disable and of a
station's removal: the thread has been scheduled and loops over finite lists.
Nothing is assumed of frames or of commands being issued.

Restrictions on the commands in a passing run are part of what it says.
`MembersForwarded` holds only without MFDB_DEL and MFDB_CLEAR, which take
away entries under the snooper; `KeepsPromise` only without static entries, which
forward without a member. `UnlinkFreesOwn` is about every operation but IF_DEL.

## Findings

Each is a run whose only property states what a comment or a description of the
code says, and TLC finds a behaviour that contradicts it.

| Run | What happens |
|---|---|
| `sta_timer` | a station behind which a router was heard goes: the router's timer runs on freed memory |
| `wpa_gtk` | the group key changes while a WPA2 station is between message 3 and message 4: it is settled with the old one |
| `hooks` | disabling EMF on one bridge unregisters the hooks of another that is enabled |

More departures from what the code says of itself are visible in the models and
have no run of their own:

- two routers on a port count it twice (`Query`), the last expiry uncounts it once
  (`RtTimer`): a router port for ever;
- IF_DEL and IF_ADD under a live router: its expiry wraps `rtport_ref` (`Decr`);
- MFDB_CLEAR under a snooped member: its expiry fails half way and the next
  report finds `mi_ref` 0, which an `ASSERT` excludes (`mh_delete`, `member_new`);
- a query between search and unlinking of IF_DEL loses the entry of another
  interface (`DelUnlink`);
- the disassociation of an unknown station makes an entry, and may age out another
  station, because the mode of the lookup is chosen by `type == (A || B)` (`DisassocInd`);
- between the driver's handling of a reassociation and the daemon's, an old message 4 or
  group answer authorizes the station with its old key; the event then takes the key
  away and leaves the authorization (`AssocReq`, `PtkInitDone`, `AssocInd`);
- after an association whose IE does not suit, or an old answer handled after the
  station left, the driver may keep a key and an authorization of a station that has no
  entry, since `nas.c:934` and `nas.c:944` do not tell it (`AssocInd`, `DisassocInd`);
- IF_DEL whose predecessor is freed by a router's expiry leaves a freed entry
  linked (`FreedPrev`), and one whose entry is freed frees it twice (`FreedPtr`);
- every disable with a router reads freed memory (`RtlistClearLoop`);
- after the fall-through of WPA no timer is set for the group message, so that
  the station may wait in REKEYNEGOTIATING for ever (`Retransmission`); `HandshakeEnds` is
  stated for WPA2 for this reason;
- a MIC failure during countermeasures leaves a timer without a handle, which ends
  the next countermeasures early (`wpa_mic_error`, `CountermeasuresTimer`);
- the instance counters are not lowered when an attempt fails, that of IGS
  not even on deletion, and one instance more than the limit is let in (`EmfBrAdd`, `IgsBrAdd`);
- deleting the first instance of a list loses the others (`Unlinked`).

Four more departures from what the code says of itself are visible in the models
and have no run: a query between the search and the insertion of IF_ADD makes a
second entry of the interface (`AddFind`, `AddInsert`; the `iflist` properties
hold in spite of it); an interface entry is linked with a null `mi_mhif` if that
allocation fails (`mhif_add`), and `emfc_input()` follows it; IF_DEL leaves the interface's entries in both databases (`CfgIfDel`); and
the totals of groups and members are not lowered by a disable, a station's
removal or a failed add (`sdb_drop`, `member_add_fails`), so that they are upper
bounds only (`StatsCoverEntries`).

## Proofs

Assumptions (`EmfcAssumption`): `NULL` is neither a group nor an address, and
`1 <= MaxRef < RefMod - 1`. The sets of groups, interfaces and addresses are
arbitrary, finite or not.

`EMFC_proofs`. None of the properties is inductive as it stands. That the lookup is exact
after an entry is freed needs that a cached address holds the cached group
(`CacheCoherent`) and that no other entry has the group (`OneEntryPerGroup`). That an
add makes no second entry needs the lookup to be exact. That freeing an
entry frees nothing else needs that a free address has no counts left
(`NoEmptyGroup`, which is an equivalence for that reason). `MfdbInv` is the conjunction
of these with the types, `EmfcInv` adds the interface list. There is one lemma per
operation of the database, stating that it preserves `MfdbInv`, and one for the
interface list; `NextInv` puts them together.

- `TypeCorrect`: `Spec => []TypeOK`
- `LookupCorrect`: `Spec => []LookupExact`
- `EntriesCorrect`: `Spec => []NoEmptyGroup`
- `EntryUnique`: `Spec => []OneEntryPerGroup`

`MFDB_proofs`. `CountsImplemented`: `Spec => ImplementsCounts`. The refinement
mapping is the count the next lookup of a caller would find. Under `MfdbInv` it
does not depend on the cache (`RefInEntry`), so lookups, failed adds and
add-then-delete are stutters, and each of the other steps is the abstract step
on the same pair.

`Instances_proofs`. Assumptions (`InstAssumption`): the limits are natural numbers and
`NULL` is neither an address nor an instance. `InstInv` adds to the properties what
makes them inductive. A freed snooper is registered nowhere only because a registered
snooper has that EMF instance as its handle, the one through which it unregisters
(`Registered`). That a second `BR_DEL` cannot meet an instance again needs the lists
to hold each entry once, and that the common list has every instance (`ListsLive`). That
frames meet a ready snooper needs that only the one `igsc_init()` works on is not ready
(`StartingAlone`), and that in the absence of misuse every handle is alive (`Ordered`).
`CountCovers` says that the counter of EMF instances is at least the number of live ones, so
that it does not become negative when one is deleted.
`Pushed`, `Removed` and `UnlinkedFacts` say what the list operations do, `FreedFacts`
what both ends of a snooper (`igsc_exit()` and a failing `igsc_init()`) leave; then there is
one lemma per action.

- `InstTypeCorrect`: `InstSpec => []InstTypeOK`
- `SnoopersCorrect`: `InstSpec => []SnooperLives`
- `ListsCorrect`: `InstSpec => []ListsLive`
- `OrderCorrect`: `InstSpec => []OrderSuffices`

`IGSC_proofs`. Assumptions (`IgscAssumption`, beside `EmfcAssumption`): WDS links are
interfaces, `NULL` is none, and `Reused` is a Boolean. Every set of commands (`Cmds`) and of failing
allocations (`AllocFail`) is allowed unless a theorem says otherwise. `LayerStep` shows
that each step uses the forwarding layer through one of its operations, so that
`IgscSpec => Spec` (`SnooperIsCaller`) and `EmfcInv` comes for nothing. For the snooping
database a step is first reduced to its `Shape`: it leaves hosts and counts alone
(`Quiet`), adds a host (`Joined`), takes one away (`Parted`), is a static command
(`Static`) or clears (`Cleared`); the invariants are then shown shape by shape
instead of action by action.

- For all commands and failures, from `IgscInv`, which adds to the types that the sets
  of hosts are finite, how far a disable has come (`DisablePhase`) and where timers
  without an entry come from (`StaleFromSta`): `IgscTypeCorrect`, `StatsCorrect`,
  `DisableEmpties`. Where no station is removed also `RtTimerCorrect`
  (`RtTimerHasEntry`): station removal is the only way to the violation of run
  `sta_timer`.
- Without MFDB_DEL and MFDB_CLEAR (`NoMfdbDel`), from `SdbInv`, which says that every
  pair of a group and an interface with a host has its reference in the MFDB, so that
  the delete of the last host cannot fail half way: `TimersCorrect`, `RefsCorrect`,
  `MembersServed`, `SdbFaultFree` (`SdbNoFault`). The two commands take
  references away under the snooper; with them the properties are false, as described
  under Findings. `SdbNoFault` leaves out the router list, where freed memory is
  used.
- Also without MFDB_ADD (`NoStatic`), from `RefsExact`, that the snooper's references
  are all there are: the refinement `PromiseKept`, and without IF_DEL
  `StationForgotten`. A static entry forwards to an interface without a member, and
  IF_DEL leaves the entries of an interface.
- If entries of the interface list can be allocated, without IF_DEL and RTPORT_DEL:
  `RoutersServed`, from `RtInv`. The count of a port is not the number of its routers
  (it drifts upwards), so the invariant only says that it is at least that number, and
  that a port with a count has an entry: no expiry brings it to zero too early.

`Iflist_proofs`. Assumptions (`IflistAssumption`): `NULL` is neither an interface nor an
address, and `1 <= MaxRef < RefMod`. The list may have duplicates and IF_DEL may lose
entries, so it is not described by what is on it. `OnlyIfDelSpoils` says that the list is
well linked (`WellLinked`) unless IF_DEL has met freed memory. Up to a fault `LinkInv` says that linked entries are
allocated, are linked once and belong to an interface; `Held` says that what IF_DEL
holds when it has the lock again is freed or still linked, the predecessor somewhere
before the entry. The lemmas on `Cut`, `Precedes` and `Distinct` say what unlinking
does to a sequence; every step counts (`Counted`), inserts (`Inserted`) or unlinks one
entry (`Unlinked`), except the unlinking of IF_DEL. For the step that uses freed memory
`SpoiledStep` shows that the list stays sound unless the command is IF_DEL, and `FaultStops`
that no step follows it.

- `IflistTypeCorrect`: `IflSpec => []IflistTypeOK`
- `ListCorrect`: `IflSpec => []OnlyIfDelSpoils`
- `UnlinkCorrect`: `IflSpec => UnlinkFreesOwn`

`WPA_proofs`. Assumptions (`WpaAssumption`): stations and stray addresses are disjoint,
every station has a mode, the limits are natural numbers, `None` is neither an address
nor a key. `Requests`, the size of the table and the number of retries are arbitrary; the
bounds of the model may be arbitrarily large. The argument is local to a station.
`EntryInv(s)` is about the entry of an address: one without a mode has no handshake and no
timer; the state determines which message a retransmission repeats; the
handler that runs without message 4 is set only in WPA; from message 3 on in WPA2 a
group key is plumbed. `ExchangeInv(s)` relates it to the supplicant and the air: once the
key is derived it is made of the nonce of the entry, and no
message 1 is on the air any more that could make the supplicant change its key.
What relates entry, driver and supplicant is `Current(s)`: the key is of the present
association, the driver uses it, and, the heart of it, an answer whose MIC contains the nonce
of the entry was made with the supplicant's present key. `Current(s)` holds while no event
about the station waits (`UpToDate`): the driver spoils it with an association or a
departure, and the handler of the last waiting event restores it, because the nonce
it takes is fresh, all those on the air being below `global_key_counter`, or because the entry
is gone. `OneStation` says that a step on one station, which
may put others out, keeps the invariant of all; there is one lemma per handler and
event.

- `WpaTypeCorrect`: `WpaSpec => []WpaTypeOK`
- `GtkTimerUnique`: `WpaSpec => []OneGtkTimer`
- `CountermeasuresCorrect`: `WpaSpec => []CountermeasuresHold`
- `DropsCorrect`: `WpaSpec => DropsReachDriver`
- `KeyCorrect`: `WpaSpec => []KeyOfAssociation`
- `KeysAgree`: `WpaSpec => []Agreement`
- `AuthorizedCorrect`: `WpaSpec => AuthorizedOnProof`

The inductive invariants were checked with TLC on the configurations of the runs before
they were proved.

Only model-checked: `SilentHostsAgeOut`, `DisableReturns` and `HandshakeEnds`, because
liveness under fairness is outside the prover's reach. `GtkSentToAll` and `HooksCounted`
are not satisfied by the code, `RtTimerHasEntry` only where no station is removed.
