----------------------------- MODULE WPA_proofs -----------------------------
(***************************************************************************)
(* The safety properties of the key management of the NAS daemon, for any  *)
(* number of stations, any table size, retry limit and requests.           *)
(*                                                                         *)
(* The argument is local to a station.  EntryInv(s) is about its entry in  *)
(* nas->sta[] and the group key, ExchangeInv(s) relates the entry to the   *)
(* supplicant and to the frames on the air.  What relates it to the driver *)
(* is Current(s), which holds while no event about the station waits: the  *)
(* driver spoils it when it sees the station leave or associate, and the   *)
(* handler of the event restores it.  The nonce of an association or of a  *)
(* new handshake is fresh, so an answer whose MIC has the nonce of the     *)
(* entry was made with the supplicant's present key.                       *)
(***************************************************************************)
EXTENDS WPA, TLAPS

Keyed == {"PTKINITDONE", "REKEYNEGOTIATING", "SETKEYSDONE"}

\* The address has no key management: no handshake and no timer.  Gone: it has no
\* entry at all.
Bare(s) ==
  /\ ap[s].mode = "none" /\ ap[s].state \in {"AUTHENTICATION2", "PTKSTART"}
  /\ ap[s].retry_state \in {"AUTHENTICATION2", "PTKSTART"}
  /\ ~ap[s].td /\ ~ap[s].hndlr /\ ap[s].anonce = 0

Gone(s) == ap[s] = Unused

\* The entry of an address, and the group key.
EntryInv(s) ==
  /\ ~ap[s].used => ap[s] = Unused
  /\ \/ Bare(s)
     \/ s \in Sta /\ ap[s].mode = ModeOf[s] /\ ap[s].anonce > 0
  /\ ap[s].hndlr => ap[s].state = "PTKINITDONE" /\ ap[s].mode = "WPA_PSK"
  /\ ap[s].state = "PTKINITNEGOTIATING" => ap[s].retry_state = "PTKSTART"
  /\ ap[s].state = "PTKINITDONE" => ap[s].retry_state = "PTKINITNEGOTIATING"
  /\ ap[s].state = "REKEYNEGOTIATING" => ap[s].retry_state = "REKEYNEGOTIATING"
  /\ ap[s].td /\ ap[s].state # "SETKEYSDONE" =>
       ap[s].retry_state \in {"PTKSTART", "PTKINITNEGOTIATING", "REKEYNEGOTIATING"}
  /\ ap[s].retry_state \in {"PTKINITNEGOTIATING", "REKEYNEGOTIATING"} => ap[s].ptk # None
  /\ ap[s].state \in {"REKEYNEGOTIATING", "SETKEYSDONE"} => grp.plumbed
  /\ ap[s].state = "PTKINITDONE" /\ ap[s].mode = "WPA2_PSK" => grp.plumbed
  /\ ap[s].anonce < grp.gkc

\* The entry, the driver and the supplicant agree on the pairwise key as far as
\* the handshake has come, and an answer to the entry's message 1 is of now.
Current(s) ==
  /\ ap[s].state \in Keyed => ap[s].ptk[2] = sup[s].snonce
  /\ ap[s].state \in {"REKEYNEGOTIATING", "SETKEYSDONE"} => key[s] = ap[s].ptk
  /\ ap[s].state = "SETKEYSDONE" => s \in auth /\ sup[s].ptk = ap[s].ptk
  /\ ap[s].mode # "none" /\ key[s] # None => key[s][2] = sup[s].snonce
  /\ up[s].msg # "none" /\ up[s].mic[1] = ap[s].anonce => sup[s].ptk = up[s].mic

\* The two ends of the exchange with a station, and the frames between them.
ExchangeInv(s) ==
  /\ ap[s].state \in Keyed =>
       /\ ap[s].ptk # None /\ ap[s].ptk[1] = ap[s].anonce
       /\ down[s].msg \in {"M3", "G1"}
  /\ sup[s].ptk # None =>
       sup[s].ptk[2] = sup[s].snonce /\ sup[s].ptk[1] > 0 /\ sup[s].ptk[1] < grp.gkc
  /\ sup[s].pk = "MSG3" => sup[s].ptk # None
  /\ down[s].msg = "M1" => down[s].anonce > 0 /\ down[s].anonce < grp.gkc
  /\ down[s].msg \in {"M3", "G1"} => down[s].mic # None
  /\ up[s].msg # "none" =>
       up[s].mic # None /\ up[s].mic[1] > 0 /\ up[s].mic[1] < grp.gkc
  /\ UpToDate(s) => Current(s)

WpaInv ==
  /\ WpaTypeOK /\ OneGtkTimer /\ CountermeasuresHold
  /\ \A s \in Addr : EntryInv(s)
  /\ \A s \in Sta : ExchangeInv(s)

-----------------------------------------------------------------------------
(***************************************************************************)
(* What a step leaves alone.                                               *)
(***************************************************************************)

GroupSet == [gtk : Nat, plumbed : BOOLEAN, td : Nat, gkc : Nat \ {0}]
SupSet == [snonce : Nat, pk : {"UNKNOWN", "MSG3", "DONE"}, ptk : PTK, gtk : Nat]

\* A group state that may follow: nonces are not given out again, and a plumbed
\* key stays plumbed.
Later(g) ==
  /\ g \in GroupSet
  /\ g.gkc >= grp.gkc
  /\ grp.plumbed => g.plumbed
  /\ g.td = IF g.plumbed /\ GtkRekey THEN 1 ELSE 0

SameEntry(s) ==
  /\ ap'[s] = ap[s] /\ key'[s] = key[s] /\ (s \in auth' <=> s \in auth)
  /\ UpToDate(s)' => UpToDate(s)
SameAir(s) == sup'[s] = sup[s] /\ down'[s] = down[s] /\ up'[s] = up[s]

LEMMA EventsStay ==
  ASSUME UNCHANGED ev
  PROVE  \A s \in Addr : UpToDate(s)' <=> UpToDate(s)
BY DEF UpToDate

LEMMA GroupStays ==
  ASSUME WpaInv
  PROVE  /\ Later(grp)
         /\ Later(WithGtk(grp)) /\ WithGtk(grp).plumbed
         /\ Later([grp EXCEPT !.gkc = @ + 1])
<1>1. /\ grp \in GroupSet /\ grp.gkc \in Nat /\ grp.gkc + 1 \in Nat \ {0}
      /\ grp.td = IF grp.plumbed /\ GtkRekey THEN 1 ELSE 0
  BY DEF WpaInv, WpaTypeOK, OneGtkTimer, GroupSet
<1>2. Later(grp)
  BY <1>1 DEF Later, GroupSet
<1>3. Later([grp EXCEPT !.gkc = @ + 1])
  BY <1>1 DEF Later, GroupSet
<1>4. CASE grp.plumbed
  <2>1. WithGtk(grp) = grp
    BY <1>4 DEF WithGtk
  <2> QED
    BY <1>2, <1>4, <1>3, <2>1
<1>5. CASE ~grp.plumbed
  <2> DEFINE h == [grp EXCEPT !.gtk = grp.gkc, !.plumbed = TRUE, !.gkc = @ + 1]
  <2>1. h \in GroupSet /\ h.plumbed /\ h.gkc = grp.gkc + 1 /\ h.td = 0
    BY <1>1, <1>5 DEF GroupSet
  <2>2. WithGtk(grp) = IF GtkRekey THEN [h EXCEPT !.td = @ + 1] ELSE h
    BY <1>5 DEF WithGtk, wpa_init_gtk, wpa_set_gtk_timer
  <2> HIDE DEF h
  <2>3. CASE GtkRekey
    <3>1. WithGtk(grp) = [h EXCEPT !.td = 1]
      BY <2>1, <2>2, <2>3
    <3> QED
      BY <1>1, <1>5, <1>3, <2>1, <2>3, <3>1 DEF Later, GroupSet
  <2>4. CASE ~GtkRekey
    <3>1. WithGtk(grp) = h
      BY <2>2, <2>4
    <3> QED
      BY <1>1, <1>5, <1>3, <2>1, <2>4, <3>1 DEF Later
  <2> QED
    BY <2>3, <2>4
<1> QED
  BY <1>2, <1>3, <1>4, <1>5

LEMMA EntryKept ==
  ASSUME WpaInv, NEW s \in Addr, SameEntry(s), Later(grp')
  PROVE  EntryInv(s)'
BY DEF WpaInv, WpaTypeOK, EntryInv, Bare, SameEntry, Later, GroupSet, EntrySet

LEMMA ExchangeKept ==
  ASSUME WpaInv, NEW s \in Sta, SameEntry(s), SameAir(s), Later(grp')
  PROVE  ExchangeInv(s)'
<1>1. /\ ExchangeInv(s) /\ sup[s].ptk \in PTK /\ up[s] \in Answers \cup {NoFrame}
      /\ down[s] \in KeyFrames \cup {NoFrame}
      /\ grp.gkc \in Nat /\ grp'.gkc \in Nat /\ grp'.gkc >= grp.gkc
  BY DEF WpaInv, WpaTypeOK, Later, GroupSet, SupSet
<1>2. sup[s].ptk # None => sup[s].ptk[1] \in Nat
  BY <1>1 DEF PTK
<1>3. up[s].msg # "none" => up[s].mic # None /\ up[s].mic[1] \in Nat
  BY <1>1 DEF Answers, NoFrame, PTK, ExchangeInv
<1>4. down[s].msg = "M1" => down[s].anonce \in Nat
  BY <1>1 DEF KeyFrames, NoFrame
<1> QED
  BY <1>1, <1>2, <1>3, <1>4 DEF ExchangeInv, Current, SameEntry, SameAir

LEMMA BareEntry ==
  ASSUME NEW s \in Addr, Bare(s)', Later(grp'), ~ap'[s].used => ap'[s] = Unused
  PROVE  EntryInv(s)'
BY DEF EntryInv, Bare, Later, GroupSet

\* Without a handshake nothing is owed to the supplicant, even if it has been
\* reset.
LEMMA BareExchange ==
  ASSUME WpaInv, NEW s \in Sta, Bare(s)', Later(grp'),
         down'[s] = down[s], up'[s] = up[s],
         sup'[s] = sup[s] \/ (sup'[s].ptk = None /\ sup'[s].pk = "UNKNOWN")
  PROVE  ExchangeInv(s)'
<1>1. /\ ExchangeInv(s) /\ sup[s].ptk \in PTK /\ up[s] \in Answers \cup {NoFrame}
      /\ down[s] \in KeyFrames \cup {NoFrame}
      /\ grp.gkc \in Nat /\ grp'.gkc \in Nat /\ grp'.gkc >= grp.gkc
  BY DEF WpaInv, WpaTypeOK, Later, GroupSet, SupSet
<1>2. sup[s].ptk # None => sup[s].ptk[1] \in Nat
  BY <1>1 DEF PTK
<1>3. up[s].msg # "none" => up[s].mic # None /\ up[s].mic[1] \in Nat /\ up[s].mic[1] > 0
  BY <1>1 DEF Answers, NoFrame, PTK, ExchangeInv
<1>4. down[s].msg = "M1" => down[s].anonce \in Nat
  BY <1>1 DEF KeyFrames, NoFrame
<1> QED
  BY <1>1, <1>2, <1>3, <1>4 DEF ExchangeInv, Current, Bare, Keyed

LEMMA GoneBare ==
  ASSUME NEW s \in Addr, Gone(s)'
  PROVE  Bare(s)' /\ (~ap'[s].used => ap'[s] = Unused)
BY DEF Gone, Bare, Unused

\* A step that concerns one station, and may put others out.
LEMMA OneStation ==
  ASSUME WpaInv, WpaTypeOK', NEW s \in Addr, Later(grp'),
         tkip'.on => tkip.on,
         tkip'.on /\ s \in Tkip => ap'[s].mode = "none",
         \A t \in Addr \ {s} : SameEntry(t) \/ Gone(t)',
         \A t \in Sta \ {s} : SameAir(t),
         EntryInv(s)', s \in Sta => ExchangeInv(s)'
  PROVE  WpaInv'
<1>1. ASSUME NEW t \in Addr PROVE EntryInv(t)'
  BY EntryKept, GoneBare, BareEntry
<1>2. ASSUME NEW t \in Sta PROVE ExchangeInv(t)'
  <2>1. t \in Addr
    BY DEF Addr
  <2> QED
    BY <2>1, ExchangeKept, GoneBare, BareExchange DEF SameAir
<1>3. OneGtkTimer'
  BY DEF OneGtkTimer, Later
<1>4. ASSUME tkip'.on, NEW t \in Tkip PROVE ap'[t].mode = "none"
  <2>1. t \in Addr /\ tkip.on
    BY <1>4, WpaAssumption DEF Addr
  <2>2. ap[t].mode = "none"
    BY <2>1 DEF WpaInv, CountermeasuresHold
  <2> QED
    BY <1>4, <2>1, <2>2 DEF SameEntry, Gone, Unused
<1> QED
  BY <1>1, <1>2, <1>3, <1>4 DEF WpaInv, CountermeasuresHold

-----------------------------------------------------------------------------
(***************************************************************************)
(* The table of stations.                                                  *)
(***************************************************************************)

LEMMA StateNames ==
  /\ {"AUTHENTICATION2", "PTKSTART", "PTKINITNEGOTIATING", "PTKINITDONE",
      "REKEYNEGOTIATING", "SETKEYSDONE"} = State
  /\ 0 \in 0 .. WPA_RETRY
BY WpaAssumption DEF State, Waiting

LEMMA UnusedType == Unused \in EntrySet /\ Entered \in EntrySet
BY StateNames DEF Unused, Entered, EntrySet, PTK

\* wpa_stop_retx() and message 1, on an entry.
LEMMA StopType ==
  ASSUME NEW e \in EntrySet
  PROVE  /\ wpa_stop_retx(e) \in EntrySet /\ ~wpa_stop_retx(e).td /\ ~wpa_stop_retx(e).hndlr
         /\ \A f \in {"used", "mode", "pae", "state", "retry_state", "retries", "replay",
                      "anonce", "ptk"} : wpa_stop_retx(e)[f] = e[f]
BY DEF EntrySet, wpa_stop_retx

LEMMA Message1Entry ==
  ASSUME NEW e \in EntrySet
  PROVE  /\ Message1Sent(e) \in EntrySet
         /\ Message1Sent(e).mode = e.mode /\ Message1Sent(e).anonce = e.anonce
         /\ Message1Sent(e).state = "PTKINITNEGOTIATING"
         /\ Message1Sent(e).retry_state = "PTKSTART" /\ ~Message1Sent(e).hndlr
         /\ e.used => Message1Sent(e).used
<1>1. {"PTKSTART", "PTKINITNEGOTIATING"} \subseteq State /\ 0 \in 0 .. WPA_RETRY
  BY StateNames
<1> QED
  BY <1>1 DEF EntrySet, Message1Sent, Timed, wpa_stop_retx

\* lookup_sta(): the address has an entry; at most one other has lost its own.
LEMMA Lookup ==
  ASSUME WpaInv, NEW s \in Addr, NEW v \in Victims(s)
  PROVE  /\ v # s
         /\ lookup_sta(s, v) \in [Addr -> EntrySet]
         /\ lookup_sta(s, v)[s] = IF ap[s].used THEN ap[s] ELSE Entered
         /\ \A t \in Addr \ {s} : lookup_sta(s, v)[t] = IF t = v THEN Unused ELSE ap[t]
<1>1. v # s
  BY WpaAssumption DEF Victims, Used
<1>2. ap \in [Addr -> EntrySet]
  BY DEF WpaInv, WpaTypeOK
<1> QED
  BY <1>1, <1>2, UnusedType DEF lookup_sta, Used

\* The driver removes keys and authorization, as far as the types go.
LEMMA DeauthType ==
  ASSUME WpaTypeOK, NEW S
  PROVE  /\ KeyRemoved(S) => key' \in [Addr -> PTK]
         /\ \A t \in Addr \ S : KeyRemoved(S) => key'[t] = key[t]
         /\ Deauthenticated(S) => key' \in [Addr -> PTK] /\ auth' \in SUBSET Sta
BY DEF WpaTypeOK, Deauthenticated, KeyRemoved, PTK

\* The station is put out, with a victim or without; whatever the driver keeps of
\* it, the entry is bare.
LEMMA PutOut ==
  ASSUME WpaInv, NEW s \in Addr, Later(grp'), UNCHANGED <<tkip, sup, down, up>>,
         ev' \in Seq([type : {"ASSOC_IND", "DISASSOC_IND"}, addr : Addr]),
         key' \in [Addr -> PTK], auth' \in SUBSET Sta,
         ap' \in [Addr -> EntrySet], Gone(s)',
         \A t \in Addr \ {s} : SameEntry(t) \/ Gone(t)'
  PROVE  WpaInv'
<1>3. WpaTypeOK'
  BY DEF WpaInv, WpaTypeOK, Later, GroupSet
<1>4. EntryInv(s)' /\ (s \in Sta => ExchangeInv(s)')
  BY GoneBare, BareEntry, BareExchange
<1>5. tkip'.on /\ s \in Tkip => ap'[s].mode = "none"
  BY DEF Gone, Unused
<1> QED
  BY <1>3, <1>4, <1>5, OneStation DEF SameAir

LEMMA CleanupInv ==
  ASSUME WpaInv, NEW s \in Addr, cleanup_sta(s), UNCHANGED <<grp, tkip, ev, sup, down, up>>
  PROVE  WpaInv'
<1>1. /\ ap \in [Addr -> EntrySet] /\ key \in [Addr -> PTK] /\ auth \in SUBSET Sta
      /\ ev' \in Seq([type : {"ASSOC_IND", "DISASSOC_IND"}, addr : Addr])
  BY DEF WpaInv, WpaTypeOK
<1>2. ap' = Tossed(ap, {s}) /\ Deauthenticated({s})
  BY DEF cleanup_sta
<1>3. key' \in [Addr -> PTK] /\ auth' \in SUBSET Sta
  BY <1>2, DeauthType DEF WpaInv
<1>4. ap' \in [Addr -> EntrySet] /\ Gone(s)'
  BY <1>1, <1>2, UnusedType DEF Tossed, Gone
<1>5. \A t \in Addr \ {s} : SameEntry(t)
  BY <1>1, <1>2, EventsStay DEF Tossed, SameEntry, Deauthenticated, KeyRemoved
<1>6. Later(grp')
  BY GroupStays
<1> QED
  BY <1>1, <1>3, <1>4, <1>5, <1>6, PutOut

-----------------------------------------------------------------------------
(***************************************************************************)
(* The driver and its events.                                              *)
(***************************************************************************)

\* An event that is queued is pending for its address, and for no other.
LEMMA Indicated ==
  ASSUME WpaInv, NEW s \in Addr, NEW type \in {"ASSOC_IND", "DISASSOC_IND"}, Indicate(s, type)
  PROVE  /\ ev' \in Seq([type : {"ASSOC_IND", "DISASSOC_IND"}, addr : Addr])
         /\ ~UpToDate(s)'
         /\ \A t \in Addr \ {s} : UpToDate(t)' => UpToDate(t)
<1> DEFINE E == [type : {"ASSOC_IND", "DISASSOC_IND"}, addr : Addr]
           x == [type |-> type, addr |-> s]
<1>1. ev \in Seq(E) /\ x \in E /\ ev' = Append(ev, x)
  BY DEF WpaInv, WpaTypeOK, Indicate
<1>2. /\ ev' \in Seq(E) /\ Len(ev') = Len(ev) + 1 /\ ev'[Len(ev) + 1] = x
      /\ \A i \in 1 .. Len(ev) : ev'[i] = ev[i]
  BY <1>1
<1>3. Len(ev) \in Nat /\ DOMAIN ev = 1 .. Len(ev) /\ DOMAIN ev' = 1 .. Len(ev')
  BY <1>1, <1>2
<1>4. x.addr = s
  OBVIOUS
<1> HIDE DEF x, E
<1>5. Len(ev) + 1 \in DOMAIN ev' /\ \A i \in DOMAIN ev : i \in DOMAIN ev' /\ ev'[i] = ev[i]
  BY <1>2, <1>3
<1>6. ~UpToDate(s)'
  BY <1>2, <1>4, <1>5 DEF UpToDate
<1>7. \A t \in Addr \ {s} : UpToDate(t)' => UpToDate(t)
  BY <1>5 DEF UpToDate
<1> QED
  BY <1>2, <1>6, <1>7 DEF E

\* An event that is taken out leaves those of the other addresses.
LEMMA Received ==
  ASSUME WpaInv, NEW s \in Addr, NEW type, Receive(s, type)
  PROVE  /\ ev' \in Seq([type : {"ASSOC_IND", "DISASSOC_IND"}, addr : Addr])
         /\ \A t \in Addr \ {s} : UpToDate(t)' => UpToDate(t)
<1> DEFINE E == [type : {"ASSOC_IND", "DISASSOC_IND"}, addr : Addr]
           x == [type |-> type, addr |-> s]
<1>1. ev \in Seq(E) /\ ev # <<>> /\ Head(ev) = x /\ ev' = Tail(ev)
  BY DEF WpaInv, WpaTypeOK, Receive
<1>2. x.addr = s
  OBVIOUS
<1> HIDE DEF x, E
<1>3. /\ ev' \in Seq(E) /\ Len(ev) \in Nat \ {0} /\ Len(ev') = Len(ev) - 1 /\ ev[1] = x
      /\ \A i \in 1 .. Len(ev') : ev'[i] = ev[i + 1]
  BY <1>1
<1>4. DOMAIN ev = 1 .. Len(ev) /\ DOMAIN ev' = 1 .. Len(ev')
  BY <1>1, <1>3
<1>5. ASSUME NEW t \in Addr \ {s}, UpToDate(t)', NEW i \in DOMAIN ev PROVE ev[i].addr # t
  <2>1. CASE i = 1
    BY <1>2, <1>3, <2>1
  <2>2. CASE i # 1
    <3>1. i - 1 \in DOMAIN ev' /\ ev'[i - 1] = ev[i]
      BY <1>3, <1>4, <2>2
    <3> QED
      BY <1>5, <3>1 DEF UpToDate
  <2> QED
    BY <2>1, <2>2
<1> QED
  BY <1>3, <1>5 DEF UpToDate, E

\* The driver sees a station associate or leave: nothing is claimed of what it
\* has of it until the daemon has handled the event.
LEMMA DriverInv ==
  ASSUME WpaInv, NEW s \in Addr, (s \in Sta /\ AssocReq(s)) \/ Leave(s)
  PROVE  WpaInv'
<1>1. /\ key \in [Addr -> PTK] /\ auth \in SUBSET Sta /\ sup \in [Sta -> SupSet]
      /\ Sta \subseteq Addr
  BY DEF WpaInv, WpaTypeOK, SupSet, Addr
<1>2. UNCHANGED <<ap, grp, tkip, down, up>>
  BY DEF AssocReq, Leave
<1>3. /\ key' \in [Addr -> PTK] /\ auth' \in SUBSET Sta
      /\ \A t \in Addr \ {s} : key'[t] = key[t] /\ (t \in auth' <=> t \in auth)
  <2>1. CASE AssocReq(s)
    BY <1>1, <2>1 DEF AssocReq, KeyRemoved, PTK
  <2>2. CASE Leave(s)
    BY <1>1, <2>2 DEF Leave, Deauthenticated, KeyRemoved, PTK
  <2> QED
    BY <2>1, <2>2
<1>4. /\ sup' \in [Sta -> SupSet] /\ \A t \in Sta \ {s} : sup'[t] = sup[t]
      /\ s \in Sta => sup'[s].ptk = None /\ sup'[s].pk = "UNKNOWN"
  <2>1. \A n \in Nat : Fresh(n) \in SupSet /\ Fresh(n).ptk = None /\ Fresh(n).pk = "UNKNOWN"
    BY DEF Fresh, SupSet, PTK
  <2>2. s \in Sta => sup[s].snonce \in Nat /\ sup[s].snonce + 1 \in Nat
    BY <1>1 DEF SupSet
  <2>3. CASE s \in Sta /\ AssocReq(s)
    BY <1>1, <2>1, <2>2, <2>3 DEF AssocReq
  <2>4. CASE Leave(s)
    BY <1>1, <2>1, <2>2, <2>4 DEF Leave
  <2> QED
    BY <2>3, <2>4
<1>5. /\ ev' \in Seq([type : {"ASSOC_IND", "DISASSOC_IND"}, addr : Addr])
      /\ ~UpToDate(s)' /\ \A t \in Addr \ {s} : UpToDate(t)' => UpToDate(t)
  BY Indicated DEF AssocReq, Leave
<1>6. WpaTypeOK'
  BY <1>2, <1>3, <1>4, <1>5 DEF WpaInv, WpaTypeOK, SupSet
<1>7. Later(grp')
  BY <1>2, GroupStays
<1>8. \A t \in Addr \ {s} : SameEntry(t)
  BY <1>2, <1>3, <1>5 DEF SameEntry
<1>9. \A t \in Sta \ {s} : SameAir(t)
  BY <1>2, <1>4 DEF SameAir
<1>10. EntryInv(s)'
  BY <1>2 DEF WpaInv, EntryInv, Bare
<1>11. s \in Sta => ExchangeInv(s)'
  <2>1. s \in Sta => ExchangeInv(s)
    BY DEF WpaInv
  <2> QED
    BY <1>2, <1>4, <1>5, <2>1 DEF ExchangeInv
<1>12. tkip'.on /\ s \in Tkip => ap'[s].mode = "none"
  BY <1>2 DEF WpaInv, CountermeasuresHold
<1> QED
  BY <1>2, <1>6, <1>7, <1>8, <1>9, <1>10, <1>11, <1>12, OneStation

LEMMA DisassocInv ==
  ASSUME WpaInv, NEW s \in Addr, DisassocInd(s)
  PROVE  WpaInv'
<1>1. UNCHANGED <<grp, tkip, sup, down, up>> /\ Receive(s, "DISASSOC_IND") /\ Later(grp')
  BY GroupStays DEF DisassocInd
<1>2. /\ ev' \in Seq([type : {"ASSOC_IND", "DISASSOC_IND"}, addr : Addr])
      /\ \A t \in Addr \ {s} : UpToDate(t)' => UpToDate(t)
  BY <1>1, Received
<1>3. /\ ap \in [Addr -> EntrySet] /\ key \in [Addr -> PTK] /\ auth \in SUBSET Sta
      /\ EntryInv(s)
  BY DEF WpaInv, WpaTypeOK
<1>4. CASE NoneOlder(s) /\ UNCHANGED <<ap, drv>>
  <2>1. Gone(s)' /\ \A t \in Addr \ {s} : SameEntry(t)
    BY <1>2, <1>3, <1>4 DEF NoneOlder, Used, EntryInv, Gone, SameEntry, drv
  <2> QED
    BY <1>1, <1>2, <1>3, <1>4, <2>1, PutOut DEF drv
<1>5. ASSUME NEW v \in Victims(s), ap' = Tossed(lookup_sta(s, v), {s}), Deauthenticated({v})
      PROVE  WpaInv'
  <2>1. /\ ap' \in [Addr -> EntrySet] /\ Gone(s)'
        /\ \A t \in Addr \ {s} : ap'[t] = IF t = v THEN Unused ELSE ap[t]
    BY <1>5, Lookup, UnusedType DEF Tossed, Gone
  <2>2. key' \in [Addr -> PTK] /\ auth' \in SUBSET Sta
    BY <1>5, DeauthType DEF WpaInv
  <2>3. \A t \in Addr \ {s} : SameEntry(t) \/ Gone(t)'
    BY <1>2, <1>3, <1>5, <2>1 DEF SameEntry, Gone, Deauthenticated, KeyRemoved
  <2> QED
    BY <1>1, <1>2, <2>1, <2>2, <2>3, PutOut
<1> QED
  BY <1>4, <1>5 DEF DisassocInd

\* The station has the entry of a new handshake, and the driver no key of an
\* earlier one: message 1 is sent.
LEMMA AssocInv ==
  ASSUME WpaInv, NEW s \in Sta, AssocInd(s)
  PROVE  WpaInv'
<1>a. s \in Addr
  BY DEF Addr
<1>b. /\ ap \in [Addr -> EntrySet] /\ grp \in GroupSet
      /\ key \in [Addr -> PTK] /\ auth \in SUBSET Sta
      /\ down \in [Sta -> KeyFrames \cup {NoFrame}]
  BY DEF WpaInv, WpaTypeOK, GroupSet
<1>c. UNCHANGED <<tkip, sup, up>> /\ Receive(s, "ASSOC_IND")
  BY DEF AssocInd
<1>d. /\ ev' \in Seq([type : {"ASSOC_IND", "DISASSOC_IND"}, addr : Addr])
      /\ \A t \in Addr \ {s} : UpToDate(t)' => UpToDate(t)
  BY <1>a, <1>c, Received
<1>1. PICK v \in Victims(s) :
        LET A == lookup_sta(s, v)
            e == [A[s] EXCEPT !.mode = ModeOf[s], !.anonce = grp.gkc]
        IN  \/ /\ ap' = Tossed(A, {s})
               /\ Deauthenticated({v})
               /\ UNCHANGED <<grp, down>>
            \/ /\ ap' = Tossed(A, {s})
               /\ Deauthenticated({s, v})
               /\ UNCHANGED <<grp, down>>
            \/ /\ ~Barred(s)
               /\ ap' = [A EXCEPT ![s] = Message1Sent(e)]
               /\ StaleKeyCleared({s, v})
               /\ auth' = auth \ {v}
               /\ grp' = [grp EXCEPT !.gkc = @ + 1]
               /\ down' = [down EXCEPT ![s] = wpa_send_eapol(e, "PTKSTART", grp)]
  BY DEF AssocInd
<1> DEFINE A == lookup_sta(s, v)
           e == [A[s] EXCEPT !.mode = ModeOf[s], !.anonce = grp.gkc]
<1>2. /\ v # s /\ A \in [Addr -> EntrySet]
      /\ \A t \in Addr \ {s} : A[t] = IF t = v THEN Unused ELSE ap[t]
  BY <1>a, Lookup
<1>3. ASSUME ap' = Tossed(A, {s}), UNCHANGED <<grp, down>>,
             Deauthenticated({v}) \/ Deauthenticated({s, v})
      PROVE  WpaInv'
  <2>1. /\ ap' \in [Addr -> EntrySet] /\ Gone(s)'
        /\ \A t \in Addr \ {s} : ap'[t] = IF t = v THEN Unused ELSE ap[t]
    BY <1>2, <1>3, <1>a, UnusedType DEF Tossed, Gone
  <2>2. key' \in [Addr -> PTK] /\ auth' \in SUBSET Sta /\ Later(grp')
    BY <1>3, DeauthType, GroupStays DEF WpaInv
  <2>3. \A t \in Addr \ {s} : SameEntry(t) \/ Gone(t)'
    BY <1>3, <1>b, <1>d, <2>1 DEF SameEntry, Gone, Deauthenticated, KeyRemoved
  <2> QED
    BY <1>3, <1>a, <1>c, <1>d, <2>1, <2>2, <2>3, PutOut
<1>4. ASSUME ~Barred(s),
             ap' = [A EXCEPT ![s] = Message1Sent(e)],
             StaleKeyCleared({s, v}),
             auth' = auth \ {v},
             grp' = [grp EXCEPT !.gkc = @ + 1],
             down' = [down EXCEPT ![s] = wpa_send_eapol(e, "PTKSTART", grp)]
      PROVE  WpaInv'
  <2> HIDE DEF A
  <2>2. e \in EntrySet /\ e.mode = ModeOf[s] /\ e.anonce = grp.gkc
    <3>1. A[s] \in EntrySet /\ grp.gkc \in Nat /\ ModeOf[s] \in {"WPA_PSK", "WPA2_PSK"}
      BY <1>2, <1>a, <1>b, WpaAssumption DEF GroupSet
    <3> QED
      BY <3>1 DEF EntrySet
  <2> HIDE DEF e
  <2>3. /\ Message1Sent(e) \in EntrySet
        /\ Message1Sent(e).mode = ModeOf[s] /\ Message1Sent(e).anonce = grp.gkc
        /\ Message1Sent(e).state = "PTKINITNEGOTIATING"
        /\ Message1Sent(e).retry_state = "PTKSTART" /\ ~Message1Sent(e).hndlr
        /\ e.used => Message1Sent(e).used
    BY <2>2, Message1Entry
  <2>4. ap' \in [Addr -> EntrySet] /\ ap'[s] = Message1Sent(e)
        /\ \A t \in Addr \ {s} : ap'[t] = IF t = v THEN Unused ELSE ap[t]
    BY <1>2, <1>4, <1>a, <2>3
  <2>5. e.used
    BY <1>a, <1>b, <1>2, Lookup DEF A, e, Entered, Unused, EntrySet
  <2>6. /\ key' \in [Addr -> PTK] /\ auth' \in SUBSET Sta /\ key'[s] = None
        /\ \A t \in Addr \ {s} : SameEntry(t) \/ Gone(t)'
    BY <1>4, <1>a, <1>b, <1>d, <2>4
       DEF SameEntry, Gone, StaleKeyCleared, KeyRemoved, PTK
  <2>7. Later(grp') /\ grp'.gkc = grp.gkc + 1
    BY <1>4, <1>b, GroupStays DEF GroupSet
  <2>8. /\ wpa_send_eapol(e, "PTKSTART", grp) = M1(e.replay, e.anonce)
        /\ M1(e.replay, e.anonce) \in KeyFrames
    BY <2>2 DEF wpa_send_eapol, M1, KeyFrames, EntrySet, PTK
  <2>9. /\ down' \in [Sta -> KeyFrames \cup {NoFrame}]
        /\ down'[s] = M1(e.replay, e.anonce)
        /\ \A t \in Sta \ {s} : SameAir(t)
    BY <1>4, <1>b, <1>c, <2>8 DEF SameAir
  <2>10. WpaTypeOK'
    BY <1>c, <1>d, <2>4, <2>6, <2>7, <2>9 DEF WpaInv, WpaTypeOK, Later, GroupSet
  <2>11. EntryInv(s)'
    BY <2>3, <2>4, <2>5, <2>7, <1>b DEF EntryInv, GroupSet
  <2>12. ExchangeInv(s)'
    <3>1. up'[s] = up[s] /\ sup'[s] = sup[s] /\ ExchangeInv(s)
          /\ up[s] \in Answers \cup {NoFrame} /\ sup[s].ptk \in PTK
      BY <1>c DEF WpaInv, WpaTypeOK
    <3>2. up[s].msg # "none" => up[s].mic # None /\ up[s].mic[1] \in Nat
      BY <3>1 DEF Answers, NoFrame, PTK, ExchangeInv
    <3>3. sup[s].ptk # None => sup[s].ptk[1] \in Nat
      BY <3>1 DEF PTK
    <3>4. down'[s].msg = "M1" /\ down'[s].anonce = grp.gkc
      BY <2>9, <2>2 DEF M1
    <3> QED
      BY <1>b, <2>3, <2>4, <2>6, <2>7, <3>1, <3>2, <3>3, <3>4
         DEF ExchangeInv, Current, Keyed, GroupSet
  <2>13. ~(tkip'.on /\ s \in Tkip)
    BY <1>4, <1>c DEF Barred
  <2> QED
    BY <1>a, <1>c, <2>6, <2>7, <2>9, <2>10, <2>11, <2>12, <2>13, OneStation
<1> QED
  BY <1>1, <1>3, <1>4

\* An entry without a mode: it is made, or its 802.1X state changes.
LEMMA StrayInv ==
  ASSUME WpaInv, NEW s \in Addr, StrayFrame(s)
  PROVE  WpaInv'
<1>1. PICK v \in Victims(s) :
        LET A == lookup_sta(s, v) IN
        \/ /\ ap' = A
           /\ Deauthenticated({v})
        \/ /\ ap' = [A EXCEPT ![s].pae = "CONNECTING",
                              ![s].state = "PTKSTART",
                              ![s].retry_state = "PTKSTART"]
           /\ Deauthenticated({v})
        \/ /\ ap' = [A EXCEPT ![s].pae = "CONNECTING"]
           /\ KeyRemoved({v})
           /\ auth' = auth \ {s, v}
  BY DEF StrayFrame
<1>2. ap[s].mode = "none" /\ UNCHANGED <<grp, tkip, ev, sup, down, up>>
  BY DEF StrayFrame
<1> DEFINE A == lookup_sta(s, v)
<1>3. /\ v # s /\ A \in [Addr -> EntrySet]
      /\ A[s] = IF ap[s].used THEN ap[s] ELSE Entered
      /\ \A t \in Addr \ {s} : A[t] = IF t = v THEN Unused ELSE ap[t]
  BY Lookup
<1>4. /\ ap \in [Addr -> EntrySet] /\ key \in [Addr -> PTK] /\ auth \in SUBSET Sta
      /\ EntryInv(s)
  BY DEF WpaInv, WpaTypeOK
<1>5. Bare(s)
  BY <1>2, <1>4, WpaAssumption DEF EntryInv
<1>6. A[s].mode = "none" /\ A[s].used /\ ~A[s].td /\ ~A[s].hndlr /\ A[s].anonce = 0
      /\ A[s].state \in {"AUTHENTICATION2", "PTKSTART"}
      /\ A[s].retry_state \in {"AUTHENTICATION2", "PTKSTART"}
  BY <1>3, <1>5 DEF Bare, Entered, Unused
<1> HIDE DEF A
<1>7. /\ ap' \in [Addr -> EntrySet]
      /\ \A t \in Addr \ {s} : ap'[t] = IF t = v THEN Unused ELSE ap[t]
      /\ ap'[s].mode = "none" /\ ap'[s].used /\ ~ap'[s].td /\ ~ap'[s].hndlr
      /\ ap'[s].anonce = 0
      /\ ap'[s].state \in {"AUTHENTICATION2", "PTKSTART"}
      /\ ap'[s].retry_state \in {"AUTHENTICATION2", "PTKSTART"}
  <2>1. CASE ap' = A
    BY <2>1, <1>3, <1>6
  <2>2. ASSUME NEW e \in EntrySet, ap' = [A EXCEPT ![s] = e],
               e.mode = "none", e.used, ~e.td, ~e.hndlr, e.anonce = 0,
               e.state \in {"AUTHENTICATION2", "PTKSTART"},
               e.retry_state \in {"AUTHENTICATION2", "PTKSTART"}
        PROVE  <1>7!:
    BY <2>2, <1>3
  <2>3. CASE ap' = [A EXCEPT ![s].pae = "CONNECTING"]
    <3> DEFINE e == [A[s] EXCEPT !.pae = "CONNECTING"]
    <3>1. ap' = [A EXCEPT ![s] = e]
      BY <2>3, <1>3
    <3>2. A[s] \in EntrySet
      BY <1>3
    <3>3. /\ e \in EntrySet /\ e.mode = "none" /\ e.used /\ ~e.td /\ ~e.hndlr /\ e.anonce = 0
          /\ e.state \in {"AUTHENTICATION2", "PTKSTART"}
          /\ e.retry_state \in {"AUTHENTICATION2", "PTKSTART"}
      BY <3>2, <1>6 DEF EntrySet
    <3> HIDE DEF e
    <3> QED
      BY <3>1, <3>3, <2>2
  <2>4. CASE ap' = [A EXCEPT ![s].pae = "CONNECTING", ![s].state = "PTKSTART",
                             ![s].retry_state = "PTKSTART"]
    <3> DEFINE e == [A[s] EXCEPT !.pae = "CONNECTING", !.state = "PTKSTART",
                                 !.retry_state = "PTKSTART"]
    <3>1. ap' = [A EXCEPT ![s] = e]
      BY <2>4, <1>3
    <3>2. A[s] \in EntrySet /\ "PTKSTART" \in State
      BY <1>3, StateNames
    <3>3. /\ e \in EntrySet /\ e.mode = "none" /\ e.used /\ ~e.td /\ ~e.hndlr /\ e.anonce = 0
          /\ e.state \in {"AUTHENTICATION2", "PTKSTART"}
          /\ e.retry_state \in {"AUTHENTICATION2", "PTKSTART"}
      BY <3>2, <1>6 DEF EntrySet
    <3> HIDE DEF e
    <3> QED
      BY <3>1, <3>3, <2>2
  <2> QED
    BY <1>1, <2>1, <2>3, <2>4 DEF A
<1>8. /\ key' \in [Addr -> PTK] /\ auth' \in SUBSET Sta
      /\ \A t \in Addr : key'[t] = IF t = v THEN None ELSE key[t]
      /\ auth' = auth \ {v} \/ auth' = auth \ {s, v}
  BY <1>1, <1>4 DEF Deauthenticated, KeyRemoved, PTK
<1>9. Bare(s)' /\ \A t \in Addr \ {s} : SameEntry(t) \/ Gone(t)'
  BY <1>2, <1>3, <1>7, <1>8, EventsStay DEF Bare, SameEntry, Gone
<1>10. WpaTypeOK' /\ Later(grp')
  BY <1>2, <1>7, <1>8, GroupStays DEF WpaInv, WpaTypeOK
<1>11. EntryInv(s)' /\ (s \in Sta => ExchangeInv(s)')
  BY <1>2, <1>7, <1>9, <1>10, BareEntry, BareExchange
<1>12. ap'[s].mode = "none"
  BY <1>9 DEF Bare
<1> QED
  BY <1>2, <1>9, <1>10, <1>11, <1>12, OneStation DEF SameAir

\* wpa_mic_error(): one failure counts, the second puts everybody out.
LEMMA MicErrorInv ==
  ASSUME WpaInv, NEW A \in [Addr -> EntrySet], NEW v, wpa_mic_error(A, v),
         UNCHANGED <<ev, sup, down, up>>,
         \A t \in Addr : IF t = v THEN A[t] = Unused
                         ELSE A[t] = ap[t] \/ (~ap[t].used /\ A[t] = Entered)
  PROVE  WpaInv'
<1>1. /\ key \in [Addr -> PTK] /\ auth \in SUBSET Sta /\ ap \in [Addr -> EntrySet]
      /\ tkip \in [on : BOOLEAN, timers : Nat, handle : BOOLEAN, recent : BOOLEAN]
      /\ grp \in GroupSet /\ OneGtkTimer /\ CountermeasuresHold
      /\ \A t \in Addr : EntryInv(t)
      /\ Sta \subseteq Addr /\ Tkip \subseteq Addr
  BY WpaAssumption DEF WpaInv, WpaTypeOK, GroupSet, Addr
<1>2. \A t \in Addr : ~ap[t].used => ap[t] = Unused /\ Bare(t)
  BY <1>1, WpaAssumption DEF EntryInv, Unused, Bare
<1>3. CASE ~tkip.recent
  <2>1. ap' = A /\ Deauthenticated({v}) /\ UNCHANGED grp /\ tkip' = [tkip EXCEPT !.recent = TRUE]
    BY <1>3 DEF wpa_mic_error
  <2>2. tkip'.on = tkip.on
        /\ tkip' \in [on : BOOLEAN, timers : Nat, handle : BOOLEAN, recent : BOOLEAN]
    BY <1>1, <2>1
  <2>3. WpaTypeOK' /\ Later(grp')
    BY <2>1, <2>2, DeauthType, GroupStays DEF WpaInv, WpaTypeOK
  <2>4. ASSUME NEW t \in Addr
        PROVE  SameEntry(t) \/ (Bare(t)' /\ (~ap'[t].used => ap'[t] = Unused))
    <3>1. CASE t = v /\ A[t] = Unused
      BY <2>1, <3>1 DEF Bare, Unused
    <3>2. CASE t # v /\ A[t] = ap[t]
      BY <1>1, <2>1, <3>2, EventsStay DEF Deauthenticated, KeyRemoved, SameEntry
    <3>3. CASE t # v /\ ~ap[t].used /\ A[t] = Entered
      BY <2>1, <3>3 DEF Bare, Entered, Unused
    <3> QED
      BY <3>1, <3>2, <3>3
  <2>5. ASSUME NEW t \in Addr PROVE EntryInv(t)'
    BY <2>3, <2>4, EntryKept, BareEntry
  <2>6. ASSUME NEW t \in Sta PROVE ExchangeInv(t)'
    BY <1>1, <2>3, <2>4, ExchangeKept, BareExchange DEF SameAir
  <2>7. CountermeasuresHold'
    BY <1>1, <2>2, <2>4 DEF CountermeasuresHold, SameEntry, Bare
  <2> QED
    BY <1>1, <2>1, <2>3, <2>5, <2>6, <2>7 DEF WpaInv, OneGtkTimer
<1>4. CASE tkip.recent
  <2>1. /\ tkip' = [on |-> TRUE, timers |-> tkip.timers + 1, handle |-> TRUE, recent |-> TRUE]
        /\ ap' = [s \in Addr |-> Unused]
        /\ Deauthenticated({s \in Addr : A[s].used} \cup {v})
        /\ grp' = [GtkTimerDeleted(grp) EXCEPT !.plumbed = FALSE]
    BY <1>4 DEF wpa_mic_error
  <2>2. /\ grp' \in GroupSet /\ ~grp'.plumbed /\ grp'.td = 0 /\ grp'.gkc = grp.gkc
    <3>1. (IF grp.td > 0 THEN grp.td - 1 ELSE 0) = 0
      BY <1>1 DEF OneGtkTimer, GroupSet
    <3>2. grp' = [grp EXCEPT !.td = 0, !.plumbed = FALSE]
      BY <2>1, <3>1 DEF GtkTimerDeleted
    <3> QED
      BY <1>1, <3>2 DEF GroupSet
  <2>3. ASSUME NEW t \in Addr PROVE Gone(t)'
    BY <2>1 DEF Gone
  <2>4. WpaTypeOK'
    BY <1>1, <2>1, <2>2, UnusedType, DeauthType DEF WpaInv, WpaTypeOK, GroupSet
  <2>5. ASSUME NEW t \in Addr PROVE EntryInv(t)'
    BY <2>2, <2>3, GoneBare DEF EntryInv, Bare, GroupSet
  <2>6. ASSUME NEW t \in Sta PROVE ExchangeInv(t)'
    <3>1. ap'[t] = Unused
      BY <1>1, <2>3 DEF Gone
    <3>2. up[t] \in Answers \cup {NoFrame} /\ ExchangeInv(t)
      BY DEF WpaInv, WpaTypeOK
    <3>3. up[t].msg # "none" => up[t].mic # None /\ up[t].mic[1] > 0 /\ up[t].mic[1] \in Nat
      BY <3>2 DEF Answers, NoFrame, PTK, ExchangeInv
    <3> QED
      BY <2>2, <3>1, <3>2, <3>3 DEF ExchangeInv, Current, Unused, Keyed
  <2>7. CountermeasuresHold'
    BY <1>1, <2>3 DEF CountermeasuresHold, Gone, Unused
  <2> QED
    BY <2>2, <2>4, <2>5, <2>6, <2>7 DEF WpaInv, OneGtkTimer
<1> QED
  BY <1>1, <1>3, <1>4

LEMMA MicErrorIndInv ==
  ASSUME WpaInv, NEW s \in Addr, MicErrorInd(s)
  PROVE  WpaInv'
<1>1. PICK v \in Victims(s) : wpa_mic_error(lookup_sta(s, v), v)
  BY DEF MicErrorInd
<1>2. UNCHANGED <<ev, sup, down, up>>
  BY DEF MicErrorInd
<1> DEFINE A == lookup_sta(s, v)
<1>3. /\ v # s /\ A \in [Addr -> EntrySet]
      /\ A[s] = IF ap[s].used THEN ap[s] ELSE Entered
      /\ \A t \in Addr \ {s} : A[t] = IF t = v THEN Unused ELSE ap[t]
  BY Lookup
<1> HIDE DEF A
<1>4. \A t \in Addr : IF t = v THEN A[t] = Unused
                      ELSE A[t] = ap[t] \/ (~ap[t].used /\ A[t] = Entered)
  BY <1>3
<1>5. wpa_mic_error(A, v)
  BY <1>1 DEF A
<1> QED
  BY <1>2, <1>3, <1>4, <1>5, MicErrorInv

-----------------------------------------------------------------------------
(***************************************************************************)
(* The handshakes.                                                         *)
(***************************************************************************)

\* A step on the entry of one station that sends it at most one frame.
LEMMA OneEntry ==
  ASSUME WpaInv, NEW s \in Sta, NEW e \in EntrySet, ap' = [ap EXCEPT ![s] = e],
         Later(grp'), UNCHANGED <<tkip, ev, sup, up>>, ~Barred(s),
         key' \in [Addr -> PTK], \A t \in Addr \ {s} : key'[t] = key[t],
         auth' = auth \/ auth' = auth \cup {s},
         down' \in [Sta -> KeyFrames \cup {NoFrame}],
         \A t \in Sta \ {s} : down'[t] = down[t],
         EntryInv(s)', ExchangeInv(s)'
  PROVE  WpaInv'
<1>1. s \in Addr /\ ap \in [Addr -> EntrySet] /\ auth \in SUBSET Sta
  BY DEF WpaInv, WpaTypeOK, Addr
<1>2. WpaTypeOK'
  BY <1>1 DEF WpaInv, WpaTypeOK, Later, GroupSet
<1>3. \A t \in Addr \ {s} : SameEntry(t)
  BY <1>1, EventsStay DEF SameEntry
<1>4. \A t \in Sta \ {s} : SameAir(t)
  BY DEF SameAir
<1>5. ~(tkip'.on /\ s \in Tkip)
  BY DEF Barred
<1> QED
  BY <1>1, <1>2, <1>3, <1>4, <1>5, OneStation

\* The facts on one station that the handlers start from.
LEMMA StationFacts ==
  ASSUME WpaInv, NEW s \in Sta
  PROVE  /\ s \in Addr /\ EntryInv(s) /\ ExchangeInv(s) /\ ap[s] \in EntrySet
         /\ ap \in [Addr -> EntrySet] /\ key \in [Addr -> PTK] /\ auth \in SUBSET Sta
         /\ grp \in GroupSet /\ sup[s] \in SupSet
         /\ down \in [Sta -> KeyFrames \cup {NoFrame}] /\ down[s] \in KeyFrames \cup {NoFrame}
         /\ up \in [Sta -> Answers \cup {NoFrame}] /\ up[s] \in Answers \cup {NoFrame}
         /\ up[s].msg # "none" => up[s] \in Answers /\ up[s].mic \in Nat \X Nat
BY DEF WpaInv, WpaTypeOK, Addr, GroupSet, SupSet, ExchangeInv, NoFrame, Answers, PTK

\* Message 3 and the group message are made with the key of the entry.
LEMMA FrameType ==
  ASSUME NEW e \in EntrySet, NEW g \in GroupSet, e.ptk # None
  PROVE  /\ wpa_send_eapol(e, "PTKINITNEGOTIATING", g) \in KeyFrames
         /\ wpa_send_eapol(e, "PTKINITNEGOTIATING", g).msg = "M3"
         /\ wpa_send_eapol(e, "PTKINITNEGOTIATING", g).mic = e.ptk
         /\ wpa_send_eapol(e, "REKEYNEGOTIATING", g) \in KeyFrames
         /\ wpa_send_eapol(e, "REKEYNEGOTIATING", g).msg = "G1"
         /\ wpa_send_eapol(e, "REKEYNEGOTIATING", g).mic = e.ptk
BY DEF wpa_send_eapol, M3, G1, KeyFrames, EntrySet, GroupSet

LEMMA Message1Type ==
  ASSUME NEW e \in EntrySet, NEW g
  PROVE  /\ wpa_send_eapol(e, "PTKSTART", g) \in KeyFrames
         /\ wpa_send_eapol(e, "PTKSTART", g).msg = "M1"
         /\ wpa_send_eapol(e, "PTKSTART", g).anonce = e.anonce
BY DEF wpa_send_eapol, M1, KeyFrames, EntrySet, PTK

LEMMA PtkInitNegotiatingInv ==
  ASSUME WpaInv, NEW s \in Sta, PtkInitNegotiating(s)
  PROVE  WpaInv'
<1> DEFINE e == ap[s]
           m == up[s]
           p == <<e.anonce, m.snonce>>
           x == [wpa_stop_retx(e) EXCEPT !.ptk = p]
           y == [x EXCEPT !.replay = @ + 1, !.retries = 0, !.retry_state = "PTKINITNEGOTIATING",
                          !.state = "PTKINITDONE", !.hndlr = FallsThrough(e)]
           g == IF Wpa2(e) THEN WithGtk(grp) ELSE grp
<1>1. /\ KeyFrame(s) /\ e.state = "PTKINITNEGOTIATING"
      /\ m.msg \in {"M2", "M4"} /\ m.replay = e.replay
      /\ UNCHANGED <<tkip, ev, sup, up>>
      /\ \/ /\ m.msg = "M4"
            /\ cleanup_sta(s)
            /\ UNCHANGED <<grp, down>>
         \/ /\ m.msg = "M2" /\ m.mic # p
            /\ ap' = [ap EXCEPT ![s] = Timed(x)]
            /\ UNCHANGED <<grp, drv, down>>
         \/ /\ m.msg = "M2" /\ m.mic = p
            /\ ap' = [ap EXCEPT ![s] = Timed(y)]
            /\ grp' = g
            /\ down' = [down EXCEPT ![s] = wpa_send_eapol(y, "PTKINITNEGOTIATING", g)]
            /\ UNCHANGED drv
  BY DEF PtkInitNegotiating
<1>2. /\ s \in Addr /\ EntryInv(s) /\ ExchangeInv(s) /\ e \in EntrySet
      /\ ap \in [Addr -> EntrySet] /\ key \in [Addr -> PTK] /\ auth \in SUBSET Sta
      /\ grp \in GroupSet /\ down \in [Sta -> KeyFrames \cup {NoFrame}]
      /\ m \in Answers /\ m.mic \in Nat \X Nat
  BY <1>1, StationFacts
<1>3. ~Barred(s) /\ e.used /\ e.mode \in {"WPA_PSK", "WPA2_PSK"} /\ e.mode = ModeOf[s]
      /\ e.anonce > 0 /\ e.anonce < grp.gkc
  BY <1>1, <1>2 DEF KeyFrame, EntryInv, Bare, EntrySet
<1>4. p \in PTK /\ p # None /\ p \in Nat \X Nat /\ p[1] = e.anonce
  BY <1>2, WpaAssumption DEF PTK, EntrySet, Answers
<1>5. CASE m.msg = "M4"
  BY <1>1, <1>2, <1>5, CleanupInv
<1>6. CASE m.msg = "M2" /\ m.mic # p
  <2>1. ap' = [ap EXCEPT ![s] = Timed(x)] /\ UNCHANGED <<grp, key, auth, down, tkip, ev, sup, up>>
    BY <1>1, <1>6 DEF drv
  <2>2. /\ Timed(x) \in EntrySet /\ Timed(x).used /\ Timed(x).mode = e.mode
        /\ Timed(x).state = "PTKINITNEGOTIATING" /\ Timed(x).retry_state = e.retry_state
        /\ ~Timed(x).hndlr /\ Timed(x).anonce = e.anonce
    BY <1>1, <1>2, <1>3, <1>4 DEF Timed, wpa_stop_retx, EntrySet
  <2>3. ap'[s] = Timed(x)
    BY <1>2, <2>1
  <2> HIDE DEF x, p
  <2>4. EntryInv(s)'
    BY <1>1, <1>2, <1>3, <2>1, <2>2, <2>3 DEF EntryInv
  <2>5. ExchangeInv(s)'
    BY <1>2, <2>1, <2>2, <2>3, EventsStay DEF ExchangeInv, Current, Keyed
  <2>6. Later(grp')
    BY <2>1, GroupStays
  <2> QED
    BY <1>2, <1>3, <2>1, <2>2, <2>4, <2>5, <2>6, OneEntry
<1>7. CASE m.msg = "M2" /\ m.mic = p
  <2>1. /\ ap' = [ap EXCEPT ![s] = Timed(y)]
        /\ grp' = g
        /\ down' = [down EXCEPT ![s] = wpa_send_eapol(y, "PTKINITNEGOTIATING", g)]
        /\ UNCHANGED <<key, auth, tkip, ev, sup, up>>
    BY <1>1, <1>7 DEF drv
  <2>2. Later(g) /\ (e.mode = "WPA2_PSK" => g.plumbed)
    BY GroupStays DEF Wpa2
  <2>3. /\ y \in EntrySet /\ y.used /\ y.mode = e.mode /\ y.ptk = p
        /\ y.state = "PTKINITDONE" /\ y.retry_state = "PTKINITNEGOTIATING"
        /\ y.hndlr = FallsThrough(e) /\ y.anonce = e.anonce
    <3>1. x \in EntrySet /\ x.used /\ x.mode = e.mode /\ x.anonce = e.anonce /\ x.ptk = p
      BY <1>2, <1>3, <1>4 DEF wpa_stop_retx, EntrySet
    <3>2. {"PTKINITNEGOTIATING", "PTKINITDONE"} \subseteq State /\ 0 \in 0 .. WPA_RETRY
      BY StateNames
    <3>3. FallsThrough(e) \in BOOLEAN
      BY DEF FallsThrough
    <3> HIDE DEF x, p
    <3>4. x.replay + 1 \in Nat
      BY <3>1 DEF EntrySet
    <3> QED
      BY <3>1, <3>2, <3>3, <3>4 DEF EntrySet
  <2> HIDE DEF y, x, g
  <2>4. /\ Timed(y) \in EntrySet /\ Timed(y).used /\ Timed(y).mode = e.mode
        /\ Timed(y).ptk = p
        /\ Timed(y).state = "PTKINITDONE" /\ Timed(y).retry_state = "PTKINITNEGOTIATING"
        /\ Timed(y).hndlr = FallsThrough(e) /\ Timed(y).anonce = e.anonce
    BY <2>3 DEF Timed, EntrySet
  <2>5. ap'[s] = Timed(y) /\ grp' \in GroupSet /\ Later(grp')
    BY <1>2, <2>1, <2>2 DEF Later
  <2>6. Timed(y).hndlr => Timed(y).mode = "WPA_PSK"
    BY <1>3, <2>4 DEF FallsThrough, Wpa2
  <2>7. EntryInv(s)'
    BY <1>1, <1>2, <1>3, <1>4, <2>1, <2>2, <2>4, <2>5, <2>6
       DEF EntryInv, Later, GroupSet, EntrySet
  <2>8. /\ down' \in [Sta -> KeyFrames \cup {NoFrame}]
        /\ down'[s].msg = "M3" /\ down'[s].mic = p
        /\ \A t \in Sta \ {s} : down'[t] = down[t]
    <3>1. g \in GroupSet
      BY <2>2 DEF Later
    <3> QED
      BY <1>2, <1>4, <2>1, <2>3, <3>1, FrameType
  <2>9. UpToDate(s) => sup[s].ptk = p /\ p[2] = sup[s].snonce
    <3>1. m.mic[1] = e.anonce /\ m.msg # "none"
      BY <1>4, <1>7
    <3> QED
      BY <1>2, <1>4, <1>7, <3>1 DEF ExchangeInv, Current
  <2>10. ExchangeInv(s)'
    <3>1. /\ grp.gkc \in Nat /\ grp'.gkc \in Nat /\ grp'.gkc >= grp.gkc
          /\ e.anonce \in Nat /\ (UpToDate(s)' <=> UpToDate(s))
      BY <1>2, <2>1, <2>2, EventsStay DEF Later, GroupSet, EntrySet
    <3>2. sup[s].ptk # None => sup[s].ptk[1] \in Nat
      BY StationFacts DEF SupSet, PTK
    <3> QED
      BY <1>2, <1>3, <1>4, <1>7, <2>1, <2>4, <2>5, <2>8, <2>9, <3>1, <3>2
         DEF ExchangeInv, Current, Keyed
  <2> QED
    BY <1>2, <1>3, <2>1, <2>4, <2>5, <2>7, <2>8, <2>10, OneEntry
<1> QED
  BY <1>1, <1>5, <1>6, <1>7

\* The pairwise key of the entry goes to the driver: after message 4, or after
\* the handler was left to run without it.
LEMMA KeyInstalled ==
  ASSUME WpaInv, NEW s \in Sta, NEW leave \in BOOLEAN, wpa_ptkinitdone2(s, leave),
         UNCHANGED <<tkip, ev, sup, up>>, ~Barred(s),
         ap[s].used, ap[s].state = "PTKINITDONE",
         ap[s].mode = "WPA2_PSK" => up[s].msg # "none" /\ up[s].mic = ap[s].ptk
  PROVE  WpaInv'
<1> DEFINE End(x) == IF leave THEN x ELSE wpa_stop_retx(x)
           e == wpa_stop_retx(ap[s])
           z == [e EXCEPT !.state = "SETKEYSDONE", !.retry_state = "SETKEYSDONE"]
           y == [e EXCEPT !.replay = @ + 1, !.retries = 0, !.retry_state = "REKEYNEGOTIATING",
                          !.state = "REKEYNEGOTIATING"]
           g == WithGtk(grp)
<1>1. \/ /\ KeyRejects
         /\ cleanup_sta(s)
         /\ UNCHANGED <<grp, down>>
      \/ /\ Wpa2(e)
         /\ key' = [key EXCEPT ![s] = e.ptk]
         /\ auth' = auth \cup {s}
         /\ ap' = [ap EXCEPT ![s] = z]
         /\ UNCHANGED <<grp, down>>
      \/ /\ ~Wpa2(e)
         /\ key' = [key EXCEPT ![s] = e.ptk]
         /\ ap' = [ap EXCEPT ![s] = End(Timed(y))]
         /\ grp' = g
         /\ down' = [down EXCEPT ![s] = wpa_send_eapol(y, "REKEYNEGOTIATING", g)]
         /\ UNCHANGED auth
  BY DEF wpa_ptkinitdone2
<1>2. /\ s \in Addr /\ EntryInv(s) /\ ExchangeInv(s) /\ ap[s] \in EntrySet
      /\ ap \in [Addr -> EntrySet] /\ key \in [Addr -> PTK] /\ auth \in SUBSET Sta
      /\ grp \in GroupSet /\ down \in [Sta -> KeyFrames \cup {NoFrame}]
      /\ up[s] \in Answers \cup {NoFrame}
  BY StationFacts
<1>3. /\ ap[s].ptk # None /\ ap[s].ptk \in PTK
      /\ ap[s].ptk[1] = ap[s].anonce
      /\ UpToDate(s) => ap[s].ptk[2] = sup[s].snonce
      /\ down[s].msg \in {"M3", "G1"}
      /\ UpToDate(s)' <=> UpToDate(s)
  BY <1>2, EventsStay DEF ExchangeInv, Current, Keyed, EntrySet
<1>4. /\ e \in EntrySet /\ e.used /\ e.mode = ap[s].mode /\ ~e.td /\ ~e.hndlr
      /\ e.anonce = ap[s].anonce /\ e.ptk = ap[s].ptk
  BY <1>2, StopType
<1>5. ap[s].mode = ModeOf[s] /\ ap[s].anonce > 0 /\ ap[s].anonce < grp.gkc
  BY <1>2 DEF EntryInv, Bare
<1> HIDE DEF e
<1>6. CASE cleanup_sta(s) /\ UNCHANGED <<grp, down>>
  BY <1>2, <1>6, CleanupInv
<1>7. ASSUME Wpa2(e), key' = [key EXCEPT ![s] = e.ptk], auth' = auth \cup {s},
             ap' = [ap EXCEPT ![s] = z], UNCHANGED <<grp, down>>
      PROVE  WpaInv'
  <2>1. /\ z \in EntrySet /\ z.used /\ z.mode = e.mode /\ ~z.hndlr /\ ~z.td
        /\ z.state = "SETKEYSDONE" /\ z.retry_state = "SETKEYSDONE"
        /\ z.anonce = e.anonce /\ z.ptk = e.ptk
    BY <1>4, StateNames DEF EntrySet
  <2> HIDE DEF z
  <2>2. ap'[s] = z /\ key' \in [Addr -> PTK] /\ key'[s] = ap[s].ptk /\ s \in auth'
        /\ \A t \in Addr \ {s} : key'[t] = key[t]
    BY <1>2, <1>3, <1>4, <1>7
  <2>3. grp.plumbed /\ Later(grp')
    BY <1>2, <1>4, <1>7, GroupStays DEF Wpa2, EntryInv
  <2>4. up[s].msg # "none" /\ up[s].mic = ap[s].ptk
    BY <1>4, <1>7 DEF Wpa2
  <2>5. UpToDate(s) => sup[s].ptk = ap[s].ptk
    BY <1>2, <1>3, <2>4 DEF ExchangeInv, Current
  <2>6. EntryInv(s)'
    BY <1>3, <1>4, <1>5, <1>7, <2>1, <2>2, <2>3 DEF EntryInv
  <2>7. ExchangeInv(s)'
    BY <1>2, <1>3, <1>4, <1>7, <2>1, <2>2, <2>5 DEF ExchangeInv, Current, Keyed
  <2> QED
    BY <1>2, <1>7, <2>1, <2>2, <2>3, <2>6, <2>7, OneEntry
<1>8. ASSUME ~Wpa2(e), key' = [key EXCEPT ![s] = e.ptk], UNCHANGED auth,
             ap' = [ap EXCEPT ![s] = End(Timed(y))], grp' = g,
             down' = [down EXCEPT ![s] = wpa_send_eapol(y, "REKEYNEGOTIATING", g)]
      PROVE  WpaInv'
  <2>1. /\ y \in EntrySet /\ y.used /\ y.mode = e.mode /\ ~y.hndlr
        /\ y.state = "REKEYNEGOTIATING" /\ y.retry_state = "REKEYNEGOTIATING"
        /\ y.anonce = e.anonce /\ y.ptk = e.ptk
    <3>1. "REKEYNEGOTIATING" \in State /\ 0 \in 0 .. WPA_RETRY
      BY StateNames
    <3>2. e.replay + 1 \in Nat
      BY <1>4 DEF EntrySet
    <3> QED
      BY <1>4, <3>1, <3>2 DEF EntrySet
  <2> HIDE DEF y
  <2>2. /\ Timed(y) \in EntrySet /\ Timed(y).used /\ Timed(y).mode = e.mode /\ ~Timed(y).hndlr
        /\ Timed(y).state = "REKEYNEGOTIATING" /\ Timed(y).retry_state = "REKEYNEGOTIATING"
        /\ Timed(y).anonce = e.anonce /\ Timed(y).ptk = e.ptk
    BY <2>1 DEF EntrySet, Timed
  <2> DEFINE z1 == End(Timed(y))
  <2>3. /\ z1 \in EntrySet /\ z1.used /\ z1.mode = e.mode /\ ~z1.hndlr
        /\ z1.state = "REKEYNEGOTIATING" /\ z1.retry_state = "REKEYNEGOTIATING"
        /\ z1.anonce = e.anonce /\ z1.ptk = e.ptk
    BY <2>2, StopType
  <2>4. ap' = [ap EXCEPT ![s] = z1]
    BY <1>8
  <2> HIDE DEF z1
  <2>5. ap'[s] = z1 /\ key' \in [Addr -> PTK] /\ key'[s] = ap[s].ptk
        /\ \A t \in Addr \ {s} : key'[t] = key[t]
    BY <1>2, <1>3, <1>4, <1>8, <2>4
  <2>6. Later(grp') /\ grp'.plumbed
    BY <1>8, GroupStays
  <2>7. /\ down' \in [Sta -> KeyFrames \cup {NoFrame}]
        /\ down'[s].msg = "G1" /\ down'[s].mic = ap[s].ptk
        /\ \A t \in Sta \ {s} : down'[t] = down[t]
    <3>1. g \in GroupSet
      BY <1>8, <2>6 DEF Later
    <3> HIDE DEF g
    <3> QED
      BY <1>2, <1>3, <1>4, <1>8, <2>1, <3>1, FrameType
  <2>8. /\ grp.gkc \in Nat /\ grp'.gkc \in Nat /\ grp'.gkc >= grp.gkc /\ ap[s].anonce \in Nat
    BY <1>2, <2>6 DEF Later, GroupSet, EntrySet
  <2>9. EntryInv(s)'
    BY <1>2, <1>3, <1>4, <1>5, <1>8, <2>3, <2>5, <2>6, <2>8 DEF EntryInv
  <2>10. ExchangeInv(s)'
    <3>1. sup[s].ptk # None => sup[s].ptk[1] \in Nat
      BY StationFacts DEF SupSet, PTK
    <3>2. up[s].msg # "none" => up[s].mic[1] \in Nat
      BY StationFacts
    <3> QED
      BY <1>2, <1>3, <1>4, <1>8, <2>3, <2>5, <2>7, <2>8, <3>1, <3>2 DEF ExchangeInv, Current, Keyed
  <2> QED
    BY <1>2, <1>8, <2>3, <2>4, <2>5, <2>6, <2>7, <2>9, <2>10, OneEntry
<1> QED
  BY <1>1, <1>6, <1>7, <1>8

LEMMA PtkInitDoneInv ==
  ASSUME WpaInv, NEW s \in Sta, PtkInitDone(s)
  PROVE  WpaInv'
<1>1. /\ KeyFrame(s) /\ ap[s].state = "PTKINITDONE"
      /\ up[s].msg \in {"M2", "M4"} /\ up[s].mic = ap[s].ptk
      /\ wpa_ptkinitdone2(s, TRUE) /\ UNCHANGED <<tkip, ev, sup, up>>
  BY DEF PtkInitDone
<1>2. ~Barred(s) /\ ap[s].used /\ up[s].msg # "none"
  BY <1>1 DEF KeyFrame
<1> QED
  BY <1>1, <1>2, KeyInstalled

LEMMA RekeyNegInv ==
  ASSUME WpaInv, NEW s \in Sta, RekeyNeg(s)
  PROVE  WpaInv'
<1> DEFINE e == wpa_stop_retx(ap[s])
           z == [e EXCEPT !.state = "SETKEYSDONE", !.retry_state = "SETKEYSDONE"]
<1>1. /\ s \in Addr /\ EntryInv(s) /\ ExchangeInv(s) /\ ap[s] \in EntrySet
      /\ ap \in [Addr -> EntrySet] /\ key \in [Addr -> PTK] /\ auth \in SUBSET Sta
      /\ down \in [Sta -> KeyFrames \cup {NoFrame}]
  BY StationFacts
<1>2. /\ ~Barred(s) /\ ap[s].used /\ ap[s].state = "REKEYNEGOTIATING"
      /\ up[s].msg # "none" /\ up[s].mic = ap[s].ptk
      /\ ap' = [ap EXCEPT ![s] = z] /\ auth' = auth \cup {s}
      /\ UNCHANGED <<grp, tkip, key, ev, sup, down, up>>
  BY <1>1 DEF RekeyNeg, KeyFrame
<1>3. /\ e \in EntrySet /\ e.used /\ e.mode = ap[s].mode /\ ~e.td /\ ~e.hndlr
      /\ e.anonce = ap[s].anonce /\ e.ptk = ap[s].ptk
  BY <1>1, <1>2, StopType
<1> HIDE DEF e
<1>4. /\ z \in EntrySet /\ z.used /\ z.mode = e.mode /\ ~z.hndlr /\ ~z.td
      /\ z.state = "SETKEYSDONE" /\ z.retry_state = "SETKEYSDONE"
      /\ z.anonce = e.anonce /\ z.ptk = e.ptk
  BY <1>3, StateNames DEF EntrySet
<1> HIDE DEF z
<1>5. ap'[s] = z
  BY <1>1, <1>2
<1>6. /\ ap[s].ptk # None /\ ap[s].ptk[1] = ap[s].anonce
      /\ down[s].msg \in {"M3", "G1"}
      /\ UpToDate(s) => ap[s].ptk[2] = sup[s].snonce /\ key[s] = ap[s].ptk
      /\ UpToDate(s)' <=> UpToDate(s)
  BY <1>1, <1>2, EventsStay DEF ExchangeInv, Current, Keyed
<1>7. UpToDate(s) => sup[s].ptk = ap[s].ptk
  BY <1>1, <1>2, <1>6 DEF ExchangeInv, Current
<1>8. EntryInv(s)'
  BY <1>1, <1>2, <1>3, <1>4, <1>5, <1>6 DEF EntryInv, Bare
<1>9. ExchangeInv(s)'
  BY <1>1, <1>2, <1>3, <1>4, <1>5, <1>6, <1>7 DEF ExchangeInv, Current, Keyed
<1>10. Later(grp')
  BY <1>2, GroupStays
<1> QED
  BY <1>1, <1>2, <1>4, <1>8, <1>9, <1>10, OneEntry

\* A new group key: each settled station starts the group handshake with the
\* pairwise key that it has.
LEMMA NewGtkInv ==
  ASSUME WpaInv, wpa_new_gtk_callback(grp), UNCHANGED <<tkip, drv, ev, sup, up>>
  PROVE  WpaInv'
<1> DEFINE g == [grp EXCEPT !.gtk = grp.gkc, !.gkc = @ + 1, !.plumbed = TRUE]
<1>1. /\ ap \in [Addr -> EntrySet] /\ grp \in GroupSet /\ Sta \subseteq Addr
      /\ down \in [Sta -> KeyFrames \cup {NoFrame}]
      /\ \A t \in Addr : EntryInv(t)
      /\ UNCHANGED <<tkip, key, auth, ev, sup, up>>
  BY DEF WpaInv, WpaTypeOK, GroupSet, Addr, drv
<1>2. CASE Settled = {}
  <2>1. UNCHANGED <<ap, grp, down>>
    BY <1>2 DEF wpa_new_gtk_callback
  <2> QED
    BY <1>1, <2>1 DEF WpaInv, WpaTypeOK, OneGtkTimer, CountermeasuresHold, EntryInv, Bare,
                      ExchangeInv, Current, UpToDate
<1>3. CASE Settled # {}
  <2>1. /\ grp' = g
        /\ ap' = [s \in Addr |-> IF s \in Settled THEN Timed(Rekeyed(ap[s])) ELSE ap[s]]
        /\ down' = [s \in Sta |-> IF s \in Settled
                                  THEN wpa_send_eapol(Rekeyed(ap[s]), "REKEYNEGOTIATING", g)
                                  ELSE down[s]]
    BY <1>3 DEF wpa_new_gtk_callback
  <2>2. ASSUME NEW t \in Settled
        PROVE  t \in Sta /\ ap[t].used /\ ap[t].state = "SETKEYSDONE" /\ grp.plumbed
               /\ ap[t].mode = ModeOf[t] /\ ap[t].anonce > 0 /\ ap[t].anonce < grp.gkc
    BY <1>1 DEF Settled, EntryInv, Bare
  <2>3. g \in GroupSet /\ Later(g) /\ g.plumbed
    <3>1. grp.plumbed
      BY <1>3, <2>2
    <3>2. grp.td = IF GtkRekey THEN 1 ELSE 0
      BY <3>1 DEF OneGtkTimer, WpaInv
    <3>3. g \in GroupSet /\ g.plumbed /\ g.td = grp.td /\ g.gkc = grp.gkc + 1
      <4>1. grp.gkc \in Nat /\ grp.gkc + 1 \in Nat \ {0}
        BY <1>1 DEF GroupSet
      <4> QED
        BY <1>1, <4>1 DEF GroupSet
    <3> QED
      BY <1>1, <3>2, <3>3 DEF GroupSet, Later
  <2>4. ASSUME NEW e \in EntrySet, e.used
        PROVE  /\ Rekeyed(e) \in EntrySet /\ Rekeyed(e).ptk = e.ptk
               /\ Timed(Rekeyed(e)) \in EntrySet /\ Timed(Rekeyed(e)).used
               /\ Timed(Rekeyed(e)).mode = e.mode /\ ~Timed(Rekeyed(e)).hndlr
               /\ Timed(Rekeyed(e)).state = "REKEYNEGOTIATING"
               /\ Timed(Rekeyed(e)).retry_state = "REKEYNEGOTIATING"
               /\ Timed(Rekeyed(e)).anonce = e.anonce /\ Timed(Rekeyed(e)).ptk = e.ptk
    <3>1. "REKEYNEGOTIATING" \in State /\ 0 \in 0 .. WPA_RETRY
      BY StateNames
    <3>2. e.replay + 1 \in Nat
      BY <2>4 DEF EntrySet
    <3> QED
      BY <2>4, <3>1, <3>2 DEF EntrySet, Rekeyed, Timed, wpa_stop_retx
  <2> HIDE DEF g
  <2>5. ASSUME NEW t \in Sta \ Settled PROVE SameEntry(t) /\ SameAir(t)
    BY <1>1, <2>1, EventsStay DEF SameEntry, SameAir
  <2>6. ASSUME NEW t \in Settled
        PROVE  /\ t \in Addr /\ ap[t] \in EntrySet /\ EntryInv(t) /\ ExchangeInv(t)
               /\ ap[t].ptk # None
               /\ ap'[t] = Timed(Rekeyed(ap[t]))
               /\ down'[t] \in KeyFrames /\ down'[t].msg = "G1" /\ down'[t].mic = ap[t].ptk
    <3>1. t \in Addr /\ t \in Sta /\ ap[t] \in EntrySet /\ EntryInv(t) /\ ExchangeInv(t)
      BY <2>2, <1>1, StationFacts
    <3>2. ap[t].ptk # None
      BY <2>2, <3>1 DEF ExchangeInv, Keyed
    <3> QED
      BY <2>1, <2>2, <2>3, <2>4, <3>1, <3>2, FrameType
  <2>7. WpaTypeOK'
    <3>1. ap' \in [Addr -> EntrySet]
      BY <1>1, <2>1, <2>2, <2>4
    <3>2. down' \in [Sta -> KeyFrames \cup {NoFrame}]
      BY <1>1, <2>1, <2>6
    <3> QED
      BY <1>1, <2>1, <2>3, <3>1, <3>2 DEF WpaInv, WpaTypeOK, GroupSet
  <2>8. ASSUME NEW t \in Addr PROVE EntryInv(t)'
    <3>1. CASE t \notin Settled
      <4>1. SameEntry(t)
        BY <1>1, <2>1, <3>1, EventsStay DEF SameEntry
      <4> QED
        BY <2>1, <2>3, <4>1, EntryKept
    <3>2. CASE t \in Settled
      <4>1. /\ ap'[t] = Timed(Rekeyed(ap[t])) /\ EntryInv(t) /\ ap[t] \in EntrySet
            /\ ap[t].ptk # None
        BY <2>6, <3>2
      <4>2. /\ ap'[t].used /\ ap'[t].mode = ModeOf[t] /\ ~ap'[t].hndlr
            /\ ap'[t].state = "REKEYNEGOTIATING" /\ ap'[t].retry_state = "REKEYNEGOTIATING"
            /\ ap'[t].anonce = ap[t].anonce /\ ap'[t].ptk = ap[t].ptk
        BY <2>2, <2>4, <3>2, <4>1
      <4>3. /\ grp.gkc \in Nat /\ grp'.gkc \in Nat /\ grp'.gkc >= grp.gkc
            /\ ap[t].anonce \in Nat /\ grp'.plumbed
        BY <1>1, <2>1, <2>3, <4>1 DEF Later, GroupSet, EntrySet
      <4> QED
        BY <1>1, <2>2, <3>2, <4>1, <4>2, <4>3 DEF EntryInv
    <3> QED
      BY <3>1, <3>2
  <2>9. ASSUME NEW t \in Sta PROVE ExchangeInv(t)'
    <3>1. CASE t \notin Settled
      BY <2>1, <2>3, <2>5, <3>1, ExchangeKept
    <3>2. CASE t \in Settled
      <4>1. /\ ap'[t] = Timed(Rekeyed(ap[t])) /\ ap[t] \in EntrySet
            /\ ExchangeInv(t) /\ ap[t].state = "SETKEYSDONE"
            /\ down'[t].msg = "G1" /\ down'[t].mic = ap[t].ptk
        BY <2>2, <2>6, <3>2
      <4>2. /\ ap'[t].state = "REKEYNEGOTIATING"
            /\ ap'[t].anonce = ap[t].anonce /\ ap'[t].ptk = ap[t].ptk
        BY <2>2, <2>4, <3>2, <4>1
      <4>3. /\ grp.gkc \in Nat /\ grp'.gkc \in Nat /\ grp'.gkc >= grp.gkc
            /\ UpToDate(t)' <=> UpToDate(t)
        BY <1>1, <2>1, <2>3, <2>6, <3>2, EventsStay DEF Later, GroupSet
      <4>4. sup[t].ptk # None => sup[t].ptk[1] \in Nat
        BY StationFacts DEF SupSet, PTK
      <4>5. up[t].msg # "none" => up[t].mic[1] \in Nat
        BY StationFacts
      <4>6. ap'[t].mode = ap[t].mode
        BY <2>2, <2>4, <3>2, <4>1
      <4> QED
        BY <1>1, <4>1, <4>2, <4>3, <4>4, <4>5, <4>6 DEF ExchangeInv, Current, Keyed
    <3> QED
      BY <3>1, <3>2
  <2>10. CountermeasuresHold'
    <3>1. ASSUME tkip.on, NEW t \in Tkip PROVE ap'[t].mode = "none"
      <4>1. t \in Addr /\ ap[t].mode = "none"
        BY <3>1, WpaAssumption DEF WpaInv, CountermeasuresHold, Addr
      <4>2. t \notin Settled
        BY <2>2, <4>1, WpaAssumption
      <4> QED
        BY <2>1, <4>1, <4>2
    <3> QED
      BY <1>1, <3>1 DEF CountermeasuresHold
  <2>11. OneGtkTimer'
    BY <2>1, <2>3 DEF OneGtkTimer, Later
  <2> QED
    BY <2>7, <2>8, <2>9, <2>10, <2>11 DEF WpaInv
<1> QED
  BY <1>2, <1>3

LEMMA PairwiseRequestInv ==
  ASSUME WpaInv, NEW s \in Sta, NEW f, PairwiseRequest(s, f), KeyFrame(s),
         UNCHANGED <<tkip, ev, sup, up>>
  PROVE  WpaInv'
<1> DEFINE verify == ap[s].state = "SETKEYSDONE"
           a == IF verify THEN grp.gkc ELSE ap[s].anonce
           e == [ap[s] EXCEPT !.anonce = a]
<1>1. \/ cleanup_sta(s) /\ UNCHANGED <<grp, down>>
      \/ /\ ap' = [ap EXCEPT ![s] = Message1Sent(e)]
         /\ grp' = IF verify THEN [grp EXCEPT !.gkc = @ + 1] ELSE grp
         /\ down' = [down EXCEPT ![s] = wpa_send_eapol(e, "PTKSTART", grp)]
         /\ UNCHANGED drv
  BY DEF PairwiseRequest
<1>2. /\ s \in Addr /\ EntryInv(s) /\ ExchangeInv(s) /\ ap[s] \in EntrySet
      /\ ap \in [Addr -> EntrySet] /\ key \in [Addr -> PTK] /\ auth \in SUBSET Sta
      /\ grp \in GroupSet /\ down \in [Sta -> KeyFrames \cup {NoFrame}]
  BY StationFacts
<1>3. /\ ~Barred(s) /\ ap[s].used /\ ap[s].mode = ModeOf[s]
      /\ ap[s].anonce > 0 /\ ap[s].anonce < grp.gkc
  BY <1>2 DEF KeyFrame, EntryInv, Bare
<1>4. CASE cleanup_sta(s) /\ UNCHANGED <<grp, down>>
  BY <1>2, <1>4, CleanupInv
<1>5. ASSUME ap' = [ap EXCEPT ![s] = Message1Sent(e)],
             grp' = IF verify THEN [grp EXCEPT !.gkc = @ + 1] ELSE grp,
             down' = [down EXCEPT ![s] = wpa_send_eapol(e, "PTKSTART", grp)],
             UNCHANGED <<key, auth>>
      PROVE  WpaInv'
  <2>1. /\ grp.gkc \in Nat /\ grp'.gkc \in Nat /\ grp'.gkc >= grp.gkc /\ Later(grp')
        /\ a \in Nat /\ a > 0 /\ a < grp'.gkc
    BY <1>2, <1>3, <1>5, GroupStays DEF GroupSet, EntrySet
  <2>2. up[s].msg # "none" => up[s].mic[1] \in Nat
    BY StationFacts
  <2>3. /\ UpToDate(s)' <=> UpToDate(s)
        /\ UpToDate(s) /\ up[s].msg # "none" /\ up[s].mic[1] = a => sup[s].ptk = up[s].mic
    BY <1>2, <2>1, <2>2, EventsStay DEF ExchangeInv, Current
  <2> HIDE DEF a
  <2>4. e \in EntrySet /\ e.used /\ e.mode = ap[s].mode /\ e.anonce = a
    BY <1>2, <1>3, <2>1 DEF EntrySet
  <2> HIDE DEF e
  <2>5. /\ Message1Sent(e) \in EntrySet
        /\ Message1Sent(e).mode = ModeOf[s] /\ Message1Sent(e).anonce = a
        /\ Message1Sent(e).state = "PTKINITNEGOTIATING"
        /\ Message1Sent(e).retry_state = "PTKSTART" /\ ~Message1Sent(e).hndlr
        /\ Message1Sent(e).used
    BY <1>3, <2>4, Message1Entry
  <2>6. ap'[s] = Message1Sent(e)
    BY <1>2, <1>5
  <2>7. EntryInv(s)'
    BY <1>2, <1>5, <2>1, <2>5, <2>6 DEF EntryInv
  <2>8. /\ down' \in [Sta -> KeyFrames \cup {NoFrame}]
        /\ down'[s].msg = "M1" /\ down'[s].anonce = a
        /\ \A t \in Sta \ {s} : down'[t] = down[t]
    BY <1>2, <1>5, <2>4, Message1Type
  <2>9. ExchangeInv(s)'
    <3>1. sup[s].ptk # None => sup[s].ptk[1] \in Nat
      BY StationFacts DEF SupSet, PTK
    <3> QED
      BY <1>2, <1>3, <1>5, <2>1, <2>2, <2>3, <2>5, <2>6, <2>8, <3>1 DEF ExchangeInv, Current, Keyed
  <2> QED
    BY <1>2, <1>3, <1>5, <2>1, <2>5, <2>7, <2>8, <2>9, OneEntry
<1> QED
  BY <1>1, <1>4, <1>5 DEF drv

LEMMA KeyRequestInv ==
  ASSUME WpaInv, NEW s \in Sta, NEW f \in Requests, KeyRequest(s, f)
  PROVE  WpaInv'
<1>1. KeyFrame(s) /\ UNCHANGED <<ev, sup, up>>
  BY DEF KeyRequest
<1>2. /\ s \in Addr /\ EntryInv(s) /\ ExchangeInv(s) /\ ap[s] \in EntrySet
      /\ ap \in [Addr -> EntrySet] /\ key \in [Addr -> PTK] /\ auth \in SUBSET Sta
      /\ grp \in GroupSet /\ down \in [Sta -> KeyFrames \cup {NoFrame}]
  BY StationFacts
<1>3. CASE wpa_mic_error(ap, None) /\ UNCHANGED down
  <2>1. \A t \in Addr : t # None
    BY WpaAssumption
  <2> QED
    BY <1>1, <1>2, <1>3, <2>1, MicErrorInv
<1>4. CASE ap[s].state \in {"SETKEYSDONE", "REKEYNEGOTIATING"} /\ wpa_new_gtk
           /\ UNCHANGED <<tkip, drv>>
  <2>1. grp.plumbed /\ grp.td = IF GtkRekey THEN 1 ELSE 0
    BY <1>2, <1>4 DEF EntryInv, WpaInv, OneGtkTimer
  <2>2. wpa_set_gtk_timer(GtkTimerDeleted(grp)) = grp
    <3>1. CASE GtkRekey
      <4>1. GtkTimerDeleted(grp) = [grp EXCEPT !.td = 0]
        BY <2>1, <3>1 DEF GtkTimerDeleted
      <4>2. [grp EXCEPT !.td = 0].td + 1 = 1
        BY <1>2 DEF GroupSet
      <4>3. wpa_set_gtk_timer(GtkTimerDeleted(grp)) = [[grp EXCEPT !.td = 0] EXCEPT !.td = 1]
        BY <3>1, <4>1, <4>2 DEF wpa_set_gtk_timer
      <4> QED
        BY <1>2, <2>1, <3>1, <4>3 DEF GroupSet
    <3>2. CASE ~GtkRekey
      <4>1. GtkTimerDeleted(grp) = [grp EXCEPT !.td = 0]
        BY <2>1, <3>2 DEF GtkTimerDeleted
      <4> QED
        BY <1>2, <2>1, <3>2, <4>1 DEF wpa_set_gtk_timer, GroupSet
    <3> QED
      BY <3>1, <3>2
  <2>3. wpa_new_gtk_callback(grp)
    BY <1>4, <2>2 DEF wpa_new_gtk
  <2> QED
    BY <1>1, <1>4, <2>3, NewGtkInv
<1>5. CASE ap[s].state = "REKEYNEGOTIATING" /\ ap' = [ap EXCEPT ![s].state = "PTKSTART"]
           /\ UNCHANGED <<grp, tkip, drv, down>>
  <2> DEFINE e == [ap[s] EXCEPT !.state = "PTKSTART"]
  <2>1. ap' = [ap EXCEPT ![s] = e] /\ ap'[s] = e /\ UNCHANGED <<grp, tkip, key, auth, ev, sup, down, up>>
    BY <1>1, <1>2, <1>5 DEF drv
  <2>2. /\ e \in EntrySet /\ e.used = ap[s].used /\ e.mode = ap[s].mode /\ e.anonce = ap[s].anonce
        /\ e.hndlr = ap[s].hndlr /\ e.td = ap[s].td /\ e.state = "PTKSTART"
        /\ e.retry_state = ap[s].retry_state /\ e.ptk = ap[s].ptk
    BY <1>2, StateNames DEF EntrySet
  <2> HIDE DEF e
  <2>3. ap[s].used /\ ~Barred(s) /\ ap[s].mode = ModeOf[s] /\ ap[s].anonce > 0
    BY <1>1, <1>2 DEF KeyFrame, EntryInv, Bare
  <2>4. EntryInv(s)'
    BY <1>2, <1>5, <2>1, <2>2, <2>3 DEF EntryInv
  <2>5. ExchangeInv(s)'
    BY <1>2, <2>1, <2>2, EventsStay DEF ExchangeInv, Current, Keyed
  <2>6. Later(grp')
    BY <2>1, GroupStays
  <2> QED
    BY <1>2, <2>1, <2>2, <2>3, <2>4, <2>5, <2>6, OneEntry
<1>6. CASE PairwiseRequest(s, f) /\ UNCHANGED tkip
  BY <1>1, <1>6, PairwiseRequestInv
<1> QED
  BY <1>3, <1>4, <1>5, <1>6 DEF KeyRequest

-----------------------------------------------------------------------------
(***************************************************************************)
(* Timers.                                                                 *)
(***************************************************************************)

LEMMA RetransmissionInv ==
  ASSUME WpaInv, NEW s \in Addr, Retransmission(s)
  PROVE  WpaInv'
<1> DEFINE e == [ap[s] EXCEPT !.retries = @ + 1]
           x == [e EXCEPT !.replay = @ + 1]
           g == IF Wpa2(e) /\ e.retry_state # "PTKSTART" THEN WithGtk(grp) ELSE grp
<1>1. ap[s].td /\ ~tkip.on /\ UNCHANGED <<tkip, ev, sup, up>>
  BY DEF Retransmission
<1>2. s \in Sta
  BY <1>1 DEF WpaInv, EntryInv, Bare
<1>3. /\ EntryInv(s) /\ ExchangeInv(s) /\ ap[s] \in EntrySet
      /\ ap \in [Addr -> EntrySet] /\ key \in [Addr -> PTK] /\ auth \in SUBSET Sta
      /\ grp \in GroupSet /\ down \in [Sta -> KeyFrames \cup {NoFrame}]
  BY <1>2, StationFacts
<1>4. ~Barred(s) /\ ap[s].used /\ ap[s].mode = ModeOf[s]
      /\ ap[s].anonce > 0 /\ ap[s].anonce < grp.gkc
  BY <1>1, <1>3 DEF Barred, EntryInv, Unused, Bare
<1>5. e.state = ap[s].state /\ e.hndlr = ap[s].hndlr
  BY <1>3 DEF EntrySet
<1>6. CASE e.state = "SETKEYSDONE"
  <2> DEFINE z == wpa_stop_retx(ap[s])
  <2>1. ap' = [ap EXCEPT ![s] = z] /\ UNCHANGED <<grp, key, auth, down>>
    BY <1>3, <1>6 DEF Retransmission, drv
  <2>2. /\ z \in EntrySet /\ ~z.td /\ ~z.hndlr
        /\ z.used = ap[s].used /\ z.mode = ap[s].mode /\ z.anonce = ap[s].anonce
        /\ z.state = ap[s].state /\ z.retry_state = ap[s].retry_state /\ z.ptk = ap[s].ptk
    BY <1>3, StopType
  <2> HIDE DEF z
  <2>3. ap'[s] = z /\ Later(grp')
    BY <1>3, <2>1, GroupStays
  <2>4. EntryInv(s)'
    BY <1>2, <1>3, <1>4, <2>1, <2>2, <2>3 DEF EntryInv
  <2>5. ExchangeInv(s)'
    BY <1>1, <1>3, <2>1, <2>2, <2>3, EventsStay DEF ExchangeInv, Current
  <2> QED
    BY <1>1, <1>2, <1>3, <1>4, <2>1, <2>2, <2>3, <2>4, <2>5, OneEntry
<1>7. CASE e.hndlr /\ wpa_ptkinitdone2(s, FALSE)
  <2>1. ap[s].state = "PTKINITDONE" /\ ap[s].mode = "WPA_PSK"
    BY <1>3, <1>5, <1>7 DEF EntryInv
  <2> QED
    BY <1>1, <1>2, <1>4, <1>7, <2>1, KeyInstalled
<1>8. CASE cleanup_sta(s) /\ UNCHANGED <<grp, down>>
  BY <1>1, <1>8, CleanupInv
<1>9. ASSUME e.state # "SETKEYSDONE", ~Exhausted(e), ap' = [ap EXCEPT ![s] = x], grp' = g,
             down' = [down EXCEPT ![s] = wpa_send_eapol(x, e.retry_state, g)],
             UNCHANGED <<key, auth>>
      PROVE  WpaInv'
  <2>1. /\ x \in EntrySet
        /\ x.used = ap[s].used /\ x.mode = ap[s].mode /\ x.anonce = ap[s].anonce
        /\ x.hndlr = ap[s].hndlr /\ x.td = ap[s].td /\ x.state = ap[s].state
        /\ x.retry_state = ap[s].retry_state /\ x.ptk = ap[s].ptk
        /\ e.retry_state = ap[s].retry_state
    <3>1. /\ e.retry_state = ap[s].retry_state
          /\ e.retries = ap[s].retries + 1 /\ ap[s].retries \in Nat /\ ap[s].replay \in Nat
      BY <1>3, WpaAssumption DEF EntrySet
    <3>2. ap[s].retries + 1 \in 0 .. WPA_RETRY /\ ap[s].replay + 1 \in Nat
      BY <1>9, <3>1, WpaAssumption DEF Exhausted
    <3>3. /\ e \in EntrySet /\ e.replay = ap[s].replay
          /\ e.used = ap[s].used /\ e.mode = ap[s].mode /\ e.anonce = ap[s].anonce
          /\ e.hndlr = ap[s].hndlr /\ e.td = ap[s].td /\ e.state = ap[s].state
          /\ e.ptk = ap[s].ptk
      BY <1>3, <3>2 DEF EntrySet
    <3> HIDE DEF e
    <3>4. e.replay + 1 \in Nat
      BY <3>2, <3>3
    <3> QED
      BY <3>1, <3>3, <3>4 DEF EntrySet
  <2>2. Later(g) /\ g \in GroupSet
    BY GroupStays DEF Later
  <2> HIDE DEF x, g, e
  <2>3. ap'[s] = x /\ Later(grp')
    BY <1>3, <1>9, <2>2
  <2>4. /\ grp.gkc \in Nat /\ grp'.gkc \in Nat /\ grp'.gkc >= grp.gkc /\ ap[s].anonce \in Nat
        /\ grp.plumbed => grp'.plumbed
    BY <1>3, <2>3 DEF Later, GroupSet, EntrySet
  <2>5. ap[s].retry_state \in {"PTKSTART", "PTKINITNEGOTIATING", "REKEYNEGOTIATING"}
    BY <1>1, <1>3, <1>5, <1>9 DEF EntryInv
  <2>6. EntryInv(s)'
    <3>1. ap'[s].used /\ (ap'[s].hndlr => ap[s].hndlr)
      BY <1>4, <2>1, <2>3
    <3>2. /\ ap'[s].mode = ap[s].mode /\ ap'[s].anonce = ap[s].anonce
          /\ ap'[s].state = ap[s].state /\ ap'[s].retry_state = ap[s].retry_state
          /\ ap'[s].ptk = ap[s].ptk /\ key'[s] = key[s] /\ (s \in auth' <=> s \in auth)
      BY <1>9, <2>1, <2>3
    <3> QED
      BY <1>2, <1>3, <1>4, <2>4, <2>5, <3>1, <3>2 DEF EntryInv
  <2>7. /\ down' \in [Sta -> KeyFrames \cup {NoFrame}]
        /\ \A t \in Sta \ {s} : down'[t] = down[t]
        /\ IF ap[s].retry_state = "PTKSTART"
           THEN down'[s].msg = "M1" /\ down'[s].anonce = ap[s].anonce
           ELSE down'[s].msg \in {"M3", "G1"} /\ down'[s].mic # None
    <3>1. CASE ap[s].retry_state = "PTKSTART"
      BY <1>2, <1>3, <1>9, <2>1, <3>1, Message1Type
    <3>2. CASE ap[s].retry_state = "PTKINITNEGOTIATING"
      <4>1. x.ptk # None
        BY <1>3, <2>1, <3>2 DEF EntryInv
      <4> QED
        BY <1>2, <1>3, <1>9, <2>1, <2>2, <3>2, <4>1, FrameType
    <3>3. CASE ap[s].retry_state = "REKEYNEGOTIATING"
      <4>1. x.ptk # None
        BY <1>3, <2>1, <3>3 DEF EntryInv
      <4> QED
        BY <1>2, <1>3, <1>9, <2>1, <2>2, <3>3, <4>1, FrameType
    <3> QED
      BY <2>5, <3>1, <3>2, <3>3
  <2>8. ap[s].state \in Keyed => down'[s].msg \in {"M3", "G1"}
    BY <1>3, <1>5, <1>9, <2>7 DEF EntryInv, Keyed
  <2>9. ExchangeInv(s)'
    <3>1. sup[s].ptk # None => sup[s].ptk[1] \in Nat
      BY <1>2, StationFacts DEF SupSet, PTK
    <3>2. up[s].msg # "none" => up[s].mic[1] \in Nat
      BY <1>2, StationFacts
    <3> QED
      BY <1>1, <1>3, <1>4, <1>5, <1>9, <2>1, <2>3, <2>4, <2>7, <2>8, <3>1, <3>2, EventsStay DEF ExchangeInv, Current
  <2> QED
    BY <1>1, <1>2, <1>3, <1>4, <1>9, <2>1, <2>3, <2>6, <2>7, <2>9, OneEntry
<1> QED
  BY <1>6, <1>7, <1>8, <1>9 DEF Retransmission, drv

LEMMA GtkTimerInv ==
  ASSUME WpaInv, GtkTimer
  PROVE  WpaInv'
BY NewGtkInv DEF GtkTimer

\* The timers of the countermeasures can only end them.
LEMMA TkipTimerInv ==
  ASSUME WpaInv, CountermeasuresTimer \/ MicWindow
  PROVE  WpaInv'
<1>1. tkip \in [on : BOOLEAN, timers : Nat, handle : BOOLEAN, recent : BOOLEAN]
  BY DEF WpaInv, WpaTypeOK
<1>2. /\ tkip' \in [on : BOOLEAN, timers : Nat, handle : BOOLEAN, recent : BOOLEAN]
      /\ tkip'.on => tkip.on
      /\ UNCHANGED <<ap, grp, key, auth, ev, sup, down, up>>
  <2>1. CASE MicWindow
    BY <1>1, <2>1 DEF MicWindow, drv
  <2>2. CASE CountermeasuresTimer
    <3>1. (IF tkip.handle THEN tkip.timers - 1 ELSE tkip.timers) \in Nat
      BY <1>1, <2>2 DEF CountermeasuresTimer
    <3> QED
      BY <1>1, <2>2, <3>1 DEF CountermeasuresTimer, drv
  <2> QED
    BY <2>1, <2>2
<1> QED
  BY <1>2 DEF WpaInv, WpaTypeOK, OneGtkTimer, CountermeasuresHold, EntryInv, Bare, ExchangeInv,
              Current, UpToDate

-----------------------------------------------------------------------------
(***************************************************************************)
(* The supplicant.                                                         *)
(***************************************************************************)

LEMMA SupplicantInv ==
  ASSUME WpaInv, NEW s \in Sta, SupM1(s) \/ SupM3(s) \/ SupG1(s)
  PROVE  WpaInv'
<1>1. /\ s \in Addr /\ ExchangeInv(s) /\ sup[s] \in SupSet
      /\ down[s] \in KeyFrames \cup {NoFrame} /\ up \in [Sta -> Answers \cup {NoFrame}]
      /\ sup \in [Sta -> SupSet] /\ grp \in GroupSet
  BY StationFacts DEF WpaInv, WpaTypeOK, SupSet
<1>2. UNCHANGED <<ap, grp, tkip, key, auth, ev, down>> /\ Later(grp')
  BY GroupStays DEF SupM1, SupM3, SupG1, drv
<1>3. ASSUME NEW x \in SupSet, NEW u \in Answers,
             sup' = [sup EXCEPT ![s] = x], up' = [up EXCEPT ![s] = u],
             x.ptk # None, u.mic = x.ptk, x.snonce = sup[s].snonce,
             x.ptk = sup[s].ptk \/ (down[s].msg = "M1" /\ x.ptk = <<down[s].anonce, sup[s].snonce>>)
      PROVE  WpaInv'
  <2>1. sup'[s] = x /\ up'[s] = u /\ \A t \in Sta \ {s} : SameAir(t)
    BY <1>1, <1>2, <1>3 DEF SameAir
  <2>2. WpaTypeOK'
    BY <1>1, <1>2, <1>3 DEF WpaInv, WpaTypeOK, SupSet
  <2>3. \A t \in Addr : SameEntry(t)
    BY <1>2, EventsStay DEF SameEntry
  <2>4. EntryInv(s)'
    BY <1>1, <1>2, <2>3, EntryKept
  <2>5. x.ptk[2] = sup[s].snonce /\ x.ptk[1] > 0 /\ x.ptk[1] < grp.gkc
    BY <1>1, <1>3 DEF ExchangeInv
  <2>6. ap[s].state \in Keyed => x.ptk = sup[s].ptk
    BY <1>1, <1>3 DEF ExchangeInv
  <2>7. ExchangeInv(s)'
    <3>1. /\ sup'[s].ptk = x.ptk /\ sup'[s].snonce = sup[s].snonce /\ up'[s].mic = x.ptk
          /\ ap' = ap /\ key' = key /\ auth' = auth /\ down' = down /\ grp' = grp
      BY <1>2, <1>3, <2>1
    <3>2. "SETKEYSDONE" \in Keyed
      BY DEF Keyed
    <3> QED
      BY <1>1, <1>2, <1>3, <2>5, <2>6, <3>1, <3>2, EventsStay DEF ExchangeInv, Current
  <2>8. tkip'.on /\ s \in Tkip => ap'[s].mode = "none"
    BY <1>2 DEF WpaInv, CountermeasuresHold
  <2> QED
    BY <1>1, <1>2, <2>1, <2>2, <2>3, <2>4, <2>7, <2>8, OneStation
<1>4. CASE SupM1(s)
  <2> DEFINE p == <<down[s].anonce, sup[s].snonce>>
             x == [sup[s] EXCEPT !.ptk = p, !.pk = "MSG3"]
             u == M2(down[s].replay, p, sup[s].snonce)
  <2>1. down[s] \in KeyFrames /\ down[s].msg = "M1"
    BY <1>1, <1>4 DEF SupM1, NoFrame
  <2>2. p \in PTK /\ p # None /\ sup[s].snonce \in Nat
    BY <1>1, <2>1, WpaAssumption DEF PTK, KeyFrames, SupSet
  <2>3. sup' = [sup EXCEPT ![s] = x] /\ up' = [up EXCEPT ![s] = u]
    BY <1>1, <1>4 DEF SupM1
  <2>4. u \in Answers /\ u.mic = p
    BY <2>1, <2>2 DEF M2, Answers, KeyFrames
  <2>5. x \in SupSet /\ x.ptk = p /\ x.snonce = sup[s].snonce
    BY <1>1, <2>2 DEF SupSet
  <2> HIDE DEF x, u
  <2> QED
    BY <1>3, <2>1, <2>2, <2>3, <2>4, <2>5
<1>5. CASE SupM3(s)
  <2> DEFINE n == IF ModeOf[s] = "WPA2_PSK" THEN down[s].gtk ELSE sup[s].gtk
             x == [sup[s] EXCEPT !.pk = "DONE", !.gtk = n]
             u == M4(down[s].replay, down[s].mic)
  <2>1. down[s] \in KeyFrames /\ down[s].mic = sup[s].ptk /\ sup[s].ptk # None
    BY <1>1, <1>5 DEF SupM3, NoFrame, ExchangeInv
  <2>2. n \in Nat
    BY <1>1, <2>1 DEF KeyFrames, SupSet
  <2>3. sup' = [sup EXCEPT ![s] = x] /\ up' = [up EXCEPT ![s] = u]
    BY <1>1, <1>5 DEF SupM3
  <2>4. u \in Answers /\ u.mic = sup[s].ptk
    BY <2>1 DEF M4, Answers, KeyFrames
  <2> HIDE DEF n
  <2>5. x \in SupSet /\ x.ptk = sup[s].ptk /\ x.snonce = sup[s].snonce
    BY <1>1, <2>2 DEF SupSet
  <2> HIDE DEF x, u
  <2> QED
    BY <1>3, <2>1, <2>3, <2>4, <2>5
<1>6. CASE SupG1(s)
  <2> DEFINE x == [sup[s] EXCEPT !.gtk = down[s].gtk]
             u == G2(down[s].replay, down[s].mic)
  <2>1. down[s] \in KeyFrames /\ down[s].mic = sup[s].ptk /\ sup[s].ptk # None
    BY <1>1, <1>6 DEF SupG1, NoFrame, ExchangeInv
  <2>2. down[s].gtk \in Nat
    BY <2>1 DEF KeyFrames
  <2>3. sup' = [sup EXCEPT ![s] = x] /\ up' = [up EXCEPT ![s] = u]
    BY <1>1, <1>6 DEF SupG1
  <2>4. u \in Answers /\ u.mic = sup[s].ptk
    BY <2>1 DEF G2, Answers, KeyFrames
  <2>5. x \in SupSet /\ x.ptk = sup[s].ptk /\ x.snonce = sup[s].snonce
    BY <1>1, <2>2 DEF SupSet
  <2> HIDE DEF x, u
  <2> QED
    BY <1>3, <2>1, <2>3, <2>4, <2>5
<1> QED
  BY <1>4, <1>5, <1>6

-----------------------------------------------------------------------------
(***************************************************************************)
(* The theorems.                                                           *)
(***************************************************************************)

LEMMA WpaInvInit == WpaInit => WpaInv
<1> SUFFICES ASSUME WpaInit PROVE WpaInv
  OBVIOUS
<1>1. WpaTypeOK
  BY UnusedType DEF WpaInit, WpaTypeOK, Fresh, PTK
<1>2. Sta \subseteq Addr /\ Tkip \subseteq Addr
  BY WpaAssumption DEF Addr
<1>3. OneGtkTimer /\ CountermeasuresHold
  BY DEF WpaInit, OneGtkTimer, CountermeasuresHold
<1>4. ASSUME NEW s \in Addr PROVE EntryInv(s)
  <2>1. ap[s] = Unused /\ grp.gkc = 1
    BY DEF WpaInit
  <2>2. Bare(s)
    BY <2>1 DEF Bare, Unused
  <2> QED
    BY <2>1, <2>2 DEF EntryInv, Bare
<1>5. ASSUME NEW s \in Sta PROVE ExchangeInv(s)
  BY <1>2 DEF WpaInit, ExchangeInv, Current, Unused, Fresh, NoFrame, Keyed
<1> QED
  BY <1>1, <1>3, <1>4, <1>5 DEF WpaInv

LEMMA WpaInvStep == WpaInv /\ [WpaNext]_vars => WpaInv'
<1> SUFFICES ASSUME WpaInv, [WpaNext]_vars PROVE WpaInv'
  OBVIOUS
<1>1. CASE UNCHANGED vars
  BY <1>1 DEF vars, drv, WpaInv, WpaTypeOK, OneGtkTimer, CountermeasuresHold, EntryInv, Bare,
              ExchangeInv, Current, UpToDate
<1>2. CASE DriverEvent
  BY <1>2, AssocInv, DisassocInv, MicErrorIndInv DEF DriverEvent
<1>3. CASE Eapol
  BY <1>3, StrayInv, KeyRequestInv, PtkInitNegotiatingInv, PtkInitDoneInv, RekeyNegInv DEF Eapol
<1>4. CASE Timers
  BY <1>4, RetransmissionInv, GtkTimerInv, TkipTimerInv DEF Timers
<1>5. CASE Supplicant
  BY <1>5, SupplicantInv DEF Supplicant
<1>6. CASE Driver
  <2>1. Sta \subseteq Addr
    BY DEF Addr
  <2> QED
    BY <1>6, <2>1, DriverInv DEF Driver
<1> QED
  BY <1>1, <1>2, <1>3, <1>4, <1>5, <1>6 DEF WpaNext

LEMMA WpaInvariance == WpaSpec => []WpaInv
BY WpaInvInit, WpaInvStep, PTL DEF WpaSpec

\* The records of the daemon, the driver and the supplicants keep their types.
\* A message is sent WPA_RETRY times at most before the station is lost or let
\* through: the count of retries is part of the type.
THEOREM WpaTypeCorrect == WpaSpec => []WpaTypeOK
<1>1. WpaInv => WpaTypeOK
  BY DEF WpaInv
<1> QED
  BY <1>1, WpaInvariance, PTL

\* wpa_mic_error(), wpa_new_gtk() and the handshakes together keep one rekey
\* timer while a group key is plumbed if there is a rekey interval, and none
\* otherwise.
THEOREM GtkTimerUnique == WpaSpec => []OneGtkTimer
<1>1. WpaInv => OneGtkTimer
  BY DEF WpaInv
<1> QED
  BY <1>1, WpaInvariance, PTL

\* While countermeasures are on no station with TKIP has begun a handshake,
\* although associations and frames of such stations were on their way.
THEOREM CountermeasuresCorrect == WpaSpec => []CountermeasuresHold
<1>1. WpaInv => CountermeasuresHold
  BY DEF WpaInv
<1> QED
  BY <1>1, WpaInvariance, PTL

\* A station whose association the daemon has handled has no key of an earlier
\* one in the driver: wpa_driver_assoc_msg() clears it, and an answer of an earlier
\* association that is still on the air proves nothing after it, because the nonce
\* is fresh.
THEOREM KeyCorrect == WpaSpec => []KeyOfAssociation
<1>1. WpaInv => KeyOfAssociation
  <2> SUFFICES ASSUME WpaInv, NEW s \in Sta, ap[s].mode # "none", UpToDate(s)
               PROVE  /\ key[s] # None => key[s][2] = sup[s].snonce
                      /\ ap[s].state \in {"REKEYNEGOTIATING", "SETKEYSDONE"} =>
                           key[s] = ap[s].ptk
    BY DEF KeyOfAssociation
  <2>1. Current(s)
    BY StationFacts DEF ExchangeInv
  <2> QED
    BY <2>1 DEF Current
<1> QED
  BY <1>1, WpaInvariance, PTL

\* A settled station and the driver hold the same pairwise key, whatever was
\* lost, repeated or cut short before, and whatever the daemon did of an earlier
\* association while the event of the present one waited.
THEOREM KeysAgree == WpaSpec => []Agreement
<1>1. WpaInv => Agreement
  <2> SUFFICES ASSUME WpaInv, NEW s \in Sta, ap[s].state = "SETKEYSDONE", UpToDate(s)
               PROVE  s \in auth /\ key[s] # None /\ key[s] = sup[s].ptk
    BY DEF Agreement
  <2>1. ExchangeInv(s) /\ Current(s)
    BY StationFacts DEF ExchangeInv
  <2> QED
    BY <2>1 DEF ExchangeInv, Current, Keyed
<1> QED
  BY <1>1, WpaInvariance, PTL

\* A step that authorizes a station is the answer to message 4 in WPA2 or to the
\* group message.  The handler that runs without message 4 never authorizes.
LEMMA AuthStep ==
  ASSUME WpaInv, [WpaNext]_vars, NEW s \in auth' \ auth
  PROVE  /\ up[s].msg \in {"M4", "G2"} /\ up[s].mic = ap[s].ptk /\ ~Barred(s)
         /\ UpToDate(s) => key'[s] = up[s].mic
<1>1. ASSUME auth' \subseteq auth PROVE FALSE
  BY <1>1
<1>2. ASSUME NEW S, Deauthenticated(S) PROVE FALSE
  BY <1>1, <1>2 DEF Deauthenticated
<1>3. ASSUME NEW t \in Addr, cleanup_sta(t) PROVE FALSE
  BY <1>2, <1>3 DEF cleanup_sta
<1>4. ASSUME NEW A, NEW v, wpa_mic_error(A, v) PROVE FALSE
  BY <1>2, <1>4 DEF wpa_mic_error
<1>5. ASSUME NEW t \in Sta, NEW leave, wpa_ptkinitdone2(t, leave)
      PROVE  t = s /\ ap[s].mode = "WPA2_PSK" /\ key'[s] = ap[s].ptk
  <2>1. t \in Addr /\ ap[t] \in EntrySet /\ key \in [Addr -> PTK]
    BY StationFacts
  <2>2. wpa_stop_retx(ap[t]).mode = ap[t].mode /\ wpa_stop_retx(ap[t]).ptk = ap[t].ptk
    BY <2>1, StopType
  <2>3. Wpa2(wpa_stop_retx(ap[t])) /\ auth' = auth \cup {t}
        /\ key' = [key EXCEPT ![t] = wpa_stop_retx(ap[t]).ptk]
    BY <1>1, <1>3, <1>5, <2>1 DEF wpa_ptkinitdone2
  <2> QED
    BY <2>1, <2>2, <2>3 DEF Wpa2
<1>6. CASE UNCHANGED vars
  BY <1>1, <1>6 DEF vars, drv
<1>7. CASE DriverEvent
  BY <1>1, <1>2, <1>4, <1>7 DEF DriverEvent, AssocInd, DisassocInd, MicErrorInd, drv
<1>8. CASE Eapol
  <2>1. ASSUME NEW t \in Addr, StrayFrame(t) PROVE FALSE
    BY <1>1, <1>2, <2>1 DEF StrayFrame
  <2>2. ASSUME NEW t \in Sta, NEW f \in Requests, KeyRequest(t, f) PROVE FALSE
    <3>1. t \in Addr
      BY DEF Addr
    <3> QED
      BY <1>1, <1>3, <1>4, <2>2, <3>1 DEF KeyRequest, PairwiseRequest, drv
  <2>3. ASSUME NEW t \in Sta, PtkInitNegotiating(t) PROVE FALSE
    <3>1. t \in Addr
      BY DEF Addr
    <3> QED
      BY <1>1, <1>3, <2>3, <3>1 DEF PtkInitNegotiating, drv
  <2>4. ASSUME NEW t \in Sta, PtkInitDone(t)
        PROVE  /\ up[s].msg \in {"M4", "G2"} /\ up[s].mic = ap[s].ptk /\ ~Barred(s)
               /\ UpToDate(s) => key'[s] = up[s].mic
    <3>1. t = s /\ ap[s].mode = "WPA2_PSK" /\ key'[s] = ap[s].ptk
      BY <1>5, <2>4 DEF PtkInitDone
    <3> QED
      BY <2>4, <3>1 DEF PtkInitDone, Wpa2, KeyFrame
  <2>5. ASSUME NEW t \in Sta, RekeyNeg(t)
        PROVE  /\ up[s].msg \in {"M4", "G2"} /\ up[s].mic = ap[s].ptk /\ ~Barred(s)
               /\ UpToDate(s) => key'[s] = up[s].mic
    <3>1. t = s /\ key'[s] = key[s] /\ ExchangeInv(s)
      BY <2>5, StationFacts DEF RekeyNeg
    <3> QED
      BY <2>5, <3>1 DEF RekeyNeg, ExchangeInv, Current, KeyFrame
  <2> QED
    BY <1>8, <2>1, <2>2, <2>3, <2>4, <2>5 DEF Eapol
<1>9. CASE Timers
  <2>1. ASSUME NEW t \in Addr, Retransmission(t) PROVE FALSE
    <3>1. EntryInv(t) /\ ap[t] \in EntrySet
      BY DEF WpaInv, WpaTypeOK
    <3>2. t \in Sta
      BY <2>1, <3>1 DEF Retransmission, EntryInv, Bare
    <3>3. [ap[t] EXCEPT !.retries = @ + 1].hndlr = ap[t].hndlr
      BY <3>1 DEF EntrySet
    <3>4. CASE ap[t].hndlr /\ wpa_ptkinitdone2(t, FALSE)
      <4>1. ap[t].mode = "WPA_PSK"
        BY <3>1, <3>4 DEF EntryInv
      <4> QED
        BY <1>5, <3>2, <3>4, <4>1
    <3> QED
      BY <1>1, <1>3, <2>1, <3>3, <3>4 DEF Retransmission, drv
  <2> QED
    BY <1>1, <1>9, <2>1 DEF Timers, GtkTimer, CountermeasuresTimer, MicWindow, drv
<1>10. CASE Supplicant
  BY <1>1, <1>10 DEF Supplicant, SupM1, SupM3, SupG1, drv
<1>11. CASE Driver
  BY <1>1, <1>2, <1>11 DEF Driver, AssocReq, Leave
<1> QED
  BY <1>6, <1>7, <1>8, <1>9, <1>10, <1>11 DEF WpaNext

\* nas_authorize() comes after an answer with a MIC made with the key of the
\* entry, which is the key that the driver uses unless an event about the station
\* waits.
THEOREM AuthorizedCorrect == WpaSpec => AuthorizedOnProof
<1>1. WpaInv /\ [WpaNext]_vars =>
        [\A s \in auth' \ auth :
           /\ up[s].msg \in {"M4", "G2"} /\ up[s].mic = ap[s].ptk /\ ~Barred(s)
           /\ UpToDate(s) => key'[s] = up[s].mic]_vars
  BY AuthStep
<1> QED
  BY <1>1, WpaInvariance, PTL DEF WpaSpec, AuthorizedOnProof

\* A new group key frees no entry.
LEMMA NewGtkUses ==
  ASSUME WpaInv, NEW b, wpa_new_gtk_callback(b), NEW s \in Addr, ap[s].used
  PROVE  ap'[s].used
<1>1. ap[s] \in EntrySet
  BY DEF WpaInv, WpaTypeOK
<1>2. Timed(Rekeyed(ap[s])).used
  BY <1>1 DEF EntrySet, Timed, Rekeyed, wpa_stop_retx
<1> QED
  BY <1>2 DEF wpa_new_gtk_callback

\* A step of the daemon that frees an entry of its own accord tells the driver.
LEMMA DropStep ==
  ASSUME WpaInv, [WpaNext]_vars, NEW s \in Addr, ap[s].used, ~ap'[s].used,
         ev' = ev \/ Head(ev).addr # s
  PROVE  key'[s] = None /\ s \notin auth'
<1>1. /\ ap \in [Addr -> EntrySet] /\ Sta \subseteq Addr
      /\ ev \in Seq([type : {"ASSOC_IND", "DISASSOC_IND"}, addr : Addr])
  BY DEF WpaInv, WpaTypeOK, Addr
<1>2. ASSUME ap'[s] = ap[s] PROVE FALSE
  BY <1>2
<1>3. ASSUME NEW S, s \in S, Deauthenticated(S) PROVE key'[s] = None /\ s \notin auth'
  BY <1>3 DEF Deauthenticated, KeyRemoved
<1>4. ASSUME NEW t \in Addr, cleanup_sta(t) PROVE key'[s] = None /\ s \notin auth'
  BY <1>1, <1>2, <1>3, <1>4 DEF cleanup_sta, Tossed
\* The entry of the address that an event or a frame is about is not the victim.
<1>5. ASSUME NEW t \in Addr, NEW v \in Victims(t), t # s, ap' = Tossed(lookup_sta(t, v), {t})
             \/ \E e : ap' = [lookup_sta(t, v) EXCEPT ![t] = e]
      PROVE  s = v
  BY <1>1, <1>2, <1>5, Lookup DEF Tossed
<1>6. ASSUME NEW t \in Addr, NEW type, Receive(t, type) PROVE t # s
  <2>1. ev # <<>> /\ ev' = Tail(ev) /\ Head(ev).addr = t
    BY <1>6 DEF Receive
  <2>2. Len(ev') # Len(ev)
    BY <1>1, <2>1
  <2> QED
    BY <2>1, <2>2
<1>7. ASSUME NEW A \in [Addr -> EntrySet], NEW v, wpa_mic_error(A, v),
             s # v => A[s] = ap[s]
      PROVE  key'[s] = None /\ s \notin auth'
  <2>1. CASE ~tkip.recent
    BY <1>2, <1>3, <1>7, <2>1 DEF wpa_mic_error
  <2>2. CASE tkip.recent
    <3>1. Deauthenticated({t \in Addr : A[t].used} \cup {v})
      BY <1>7, <2>2 DEF wpa_mic_error
    <3>2. s \in {t \in Addr : A[t].used} \cup {v}
      BY <1>7
    <3> QED
      BY <1>3, <3>1, <3>2
  <2> QED
    BY <2>1, <2>2
<1>8. ASSUME NEW t \in Sta, NEW e \in EntrySet, e.used, ap' = [ap EXCEPT ![t] = e] PROVE FALSE
  BY <1>1, <1>2, <1>8
<1>9. ASSUME NEW t \in Sta, NEW leave \in BOOLEAN, ap[t].used, wpa_ptkinitdone2(t, leave)
      PROVE  key'[s] = None /\ s \notin auth'
  <2> DEFINE e == wpa_stop_retx(ap[t])
             y == [e EXCEPT !.replay = @ + 1, !.retries = 0, !.retry_state = "REKEYNEGOTIATING",
                            !.state = "REKEYNEGOTIATING"]
             z == [e EXCEPT !.state = "SETKEYSDONE", !.retry_state = "SETKEYSDONE"]
  <2>1. t \in Addr /\ ap[t] \in EntrySet
    BY <1>1
  <2>2. e.used /\ e \in EntrySet
    BY <1>9, <2>1, StopType
  <2> HIDE DEF e
  <2>3. z.used /\ y.used /\ Timed(y).used /\ wpa_stop_retx(Timed(y)).used
    BY <2>2 DEF EntrySet, Timed, wpa_stop_retx
  <2> HIDE DEF y, z
  <2>4. \/ cleanup_sta(t)
        \/ \E x : x.used /\ ap' = [ap EXCEPT ![t] = x]
    BY <1>9, <2>3 DEF wpa_ptkinitdone2, e, y, z
  <2> QED
    BY <1>1, <1>2, <1>4, <2>1, <2>4
<1>10. CASE UNCHANGED vars
  BY <1>2, <1>10 DEF vars
<1>11. CASE Driver
  BY <1>2, <1>11 DEF Driver, AssocReq, Leave
<1>12. CASE DriverEvent
  <2>1. ASSUME NEW t \in Sta, AssocInd(t) PROVE key'[s] = None /\ s \notin auth'
    <3>1. t \in Addr /\ t # s
      BY <1>1, <1>6, <2>1 DEF AssocInd
    <3>2. PICK v \in Victims(t) :
            /\ ap' = Tossed(lookup_sta(t, v), {t})
               \/ \E e : ap' = [lookup_sta(t, v) EXCEPT ![t] = e]
            /\ \/ Deauthenticated({v})
               \/ Deauthenticated({t, v})
               \/ KeyRemoved({t, v}) /\ auth' = auth \ {v}
      BY <2>1 DEF AssocInd, StaleKeyCleared
    <3>3. s = v
      BY <1>5, <3>1, <3>2
    <3> QED
      BY <3>2, <3>3 DEF Deauthenticated, KeyRemoved
  <2>2. ASSUME NEW t \in Addr, DisassocInd(t) PROVE key'[s] = None /\ s \notin auth'
    <3>1. t # s
      BY <1>6, <2>2 DEF DisassocInd
    <3>2. PICK v \in Victims(t) : ap' = Tossed(lookup_sta(t, v), {t}) /\ Deauthenticated({v})
      BY <1>2, <2>2 DEF DisassocInd
    <3> QED
      BY <1>3, <1>5, <3>1, <3>2
  <2>3. ASSUME NEW t \in Addr, MicErrorInd(t) PROVE key'[s] = None /\ s \notin auth'
    <3>1. PICK v \in Victims(t) : wpa_mic_error(lookup_sta(t, v), v)
      BY <2>3 DEF MicErrorInd
    <3>2. lookup_sta(t, v) \in [Addr -> EntrySet] /\ (s # v => lookup_sta(t, v)[s] = ap[s])
      BY Lookup
    <3> QED
      BY <1>7, <3>1, <3>2
  <2> QED
    BY <1>12, <2>1, <2>2, <2>3 DEF DriverEvent
<1>13. CASE Eapol
  <2>1. ASSUME NEW t \in Addr, StrayFrame(t) PROVE key'[s] = None /\ s \notin auth'
    <3>1. PICK v \in Victims(t) :
            LET A == lookup_sta(t, v) IN
            /\ \/ ap' = A
               \/ ap' = [A EXCEPT ![t].pae = "CONNECTING", ![t].state = "PTKSTART",
                                  ![t].retry_state = "PTKSTART"]
               \/ ap' = [A EXCEPT ![t].pae = "CONNECTING"]
            /\ Deauthenticated({v}) \/ (KeyRemoved({v}) /\ auth' = auth \ {t, v})
      BY <2>1 DEF StrayFrame
    <3> DEFINE A == lookup_sta(t, v)
    <3>2. /\ A \in [Addr -> EntrySet] /\ A[t] = IF ap[t].used THEN ap[t] ELSE Entered
          /\ \A x \in Addr \ {t} : A[x] = IF x = v THEN Unused ELSE ap[x]
      BY Lookup
    <3>3. A[t].used /\ A[t] \in EntrySet
      BY <3>2 DEF Entered, Unused
    <3> HIDE DEF A
    <3>4. /\ [A[t] EXCEPT !.pae = "CONNECTING", !.state = "PTKSTART",
                          !.retry_state = "PTKSTART"].used
          /\ [A[t] EXCEPT !.pae = "CONNECTING"].used
      BY <3>3 DEF EntrySet
    <3>5. s # t
      BY <3>1, <3>2, <3>3, <3>4 DEF A
    <3>6. ap'[s] = A[s]
      BY <3>1, <3>2, <3>5 DEF A
    <3>7. s = v
      BY <1>2, <3>2, <3>5, <3>6
    <3> QED
      BY <3>1, <3>7 DEF Deauthenticated, KeyRemoved
  <2>2. ASSUME NEW t \in Sta, NEW f \in Requests, KeyRequest(t, f)
        PROVE  key'[s] = None /\ s \notin auth'
    <3>1. t \in Addr /\ ap[t] \in EntrySet /\ ap[t].used
      BY <1>1, <2>2 DEF KeyRequest, KeyFrame
    <3>2. CASE wpa_mic_error(ap, None)
      BY <1>1, <1>7, <3>2
    <3>3. ASSUME NEW b, wpa_new_gtk_callback(b) PROVE FALSE
      BY <1>2, <3>3, NewGtkUses
    <3>4. CASE ap' = [ap EXCEPT ![t].state = "PTKSTART"]
      BY <1>1, <1>2, <3>1, <3>4 DEF EntrySet
    <3>5. CASE PairwiseRequest(t, f)
      <4> DEFINE e == [ap[t] EXCEPT !.anonce = IF ap[t].state = "SETKEYSDONE" THEN grp.gkc ELSE @]
      <4>1. e.used
        BY <3>1 DEF EntrySet
      <4>2. cleanup_sta(t) \/ ap' = [ap EXCEPT ![t] = Message1Sent(e)]
        BY <3>5 DEF PairwiseRequest
      <4>3. e \in EntrySet
        BY <3>1 DEF EntrySet, WpaInv, WpaTypeOK
      <4> HIDE DEF e
      <4> QED
        BY <1>4, <1>8, <3>1, <4>1, <4>2, <4>3, Message1Entry
    <3> QED
      BY <2>2, <3>2, <3>3, <3>4, <3>5 DEF KeyRequest, wpa_new_gtk
  <2>3. ASSUME NEW t \in Sta, PtkInitNegotiating(t) PROVE key'[s] = None /\ s \notin auth'
    <3> DEFINE x == [wpa_stop_retx(ap[t]) EXCEPT !.ptk = <<ap[t].anonce, up[t].snonce>>]
               y == [x EXCEPT !.replay = @ + 1, !.retries = 0,
                              !.retry_state = "PTKINITNEGOTIATING",
                              !.state = "PTKINITDONE", !.hndlr = FallsThrough(ap[t])]
    <3>1. t \in Addr /\ ap[t] \in EntrySet /\ ap[t].used
      BY <1>1, <2>3 DEF PtkInitNegotiating, KeyFrame
    <3>2. Timed(x).used /\ Timed(y).used
      BY <3>1 DEF EntrySet, Timed, wpa_stop_retx
    <3>3. \/ cleanup_sta(t)
          \/ ap' = [ap EXCEPT ![t] = Timed(x)]
          \/ ap' = [ap EXCEPT ![t] = Timed(y)]
      BY <2>3 DEF PtkInitNegotiating
    <3> HIDE DEF x, y
    <3> QED
      BY <1>1, <1>2, <1>4, <3>1, <3>2, <3>3
  <2>4. ASSUME NEW t \in Sta, PtkInitDone(t) PROVE key'[s] = None /\ s \notin auth'
    BY <1>9, <2>4 DEF PtkInitDone, KeyFrame
  <2>5. ASSUME NEW t \in Sta, RekeyNeg(t) PROVE FALSE
    <3> DEFINE z == [wpa_stop_retx(ap[t]) EXCEPT !.state = "SETKEYSDONE",
                                                 !.retry_state = "SETKEYSDONE"]
    <3>1. t \in Addr /\ ap[t] \in EntrySet /\ ap[t].used
      BY <1>1, <2>5 DEF RekeyNeg, KeyFrame
    <3>2. z.used
      BY <3>1 DEF EntrySet, wpa_stop_retx
    <3>3. ap' = [ap EXCEPT ![t] = z]
      BY <1>1, <2>5, <3>1 DEF RekeyNeg
    <3> HIDE DEF z
    <3> QED
      BY <1>1, <1>2, <3>1, <3>2, <3>3
  <2> QED
    BY <1>13, <2>1, <2>2, <2>3, <2>4, <2>5 DEF Eapol
<1>14. CASE Timers
  <2>1. ASSUME NEW t \in Addr, Retransmission(t) PROVE key'[s] = None /\ s \notin auth'
    <3> DEFINE e == [ap[t] EXCEPT !.retries = @ + 1]
               x == [e EXCEPT !.replay = @ + 1]
    <3>1. ap[t] \in EntrySet /\ EntryInv(t) /\ ap[t].td
      BY <1>1, <2>1 DEF WpaInv, Retransmission
    <3>2. ap[t].used /\ t \in Sta
      BY <3>1 DEF EntryInv, Bare, Unused
    <3>3. x.used /\ wpa_stop_retx(ap[t]).used
      BY <3>1, <3>2 DEF EntrySet, wpa_stop_retx
    <3>4. \/ cleanup_sta(t)
          \/ wpa_ptkinitdone2(t, FALSE)
          \/ ap' = [ap EXCEPT ![t] = wpa_stop_retx(@)]
          \/ ap' = [ap EXCEPT ![t] = x]
      BY <2>1 DEF Retransmission
    <3> HIDE DEF x
    <3> QED
      BY <1>1, <1>2, <1>4, <1>9, <3>1, <3>2, <3>3, <3>4
  <2>2. ASSUME GtkTimer PROVE FALSE
    BY <1>2, <2>2, NewGtkUses DEF GtkTimer
  <2>3. CASE CountermeasuresTimer \/ MicWindow
    BY <1>2, <2>3 DEF CountermeasuresTimer, MicWindow
  <2> QED
    BY <1>14, <2>1, <2>2, <2>3 DEF Timers
<1>15. CASE Supplicant
  BY <1>2, <1>15 DEF Supplicant, SupM1, SupM3, SupG1
<1> QED
  BY <1>10, <1>11, <1>12, <1>13, <1>14, <1>15 DEF WpaNext

\* Whatever entry the daemon gives up of its own accord, for another station, after
\* the last retry, for a request or a key it refuses or for countermeasures, the
\* driver gives up with it.
THEOREM DropsCorrect == WpaSpec => DropsReachDriver
<1>1. WpaInv /\ [WpaNext]_vars =>
        [\A s \in Addr :
           ap[s].used /\ ~ap'[s].used /\ (ev' = ev \/ Head(ev).addr # s) =>
             key'[s] = None /\ s \notin auth']_vars
  BY DropStep
<1> QED
  BY <1>1, WpaInvariance, PTL DEF WpaSpec, DropsReachDriver
=============================================================================
