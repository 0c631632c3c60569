--------------------------------- MODULE WPA ---------------------------------
(***************************************************************************)
(* The key management of the NAS daemon (router/nas/wpa.c, nas.c): the     *)
(* authenticator's 4-way and group key handshakes with the stations of a   *)
(* BSS in WPA-PSK and WPA2-PSK, its retransmission and rekey timers, TKIP  *)
(* countermeasures and the table of stations, against the supplicant of    *)
(* the same file and an unreliable air.                                    *)
(*                                                                         *)
(* The daemon is one thread: each EAPOL frame, driver event and timer is   *)
(* handled to its end, an action each.  The driver (wl/sys) serves the     *)
(* air on its own: what it makes of an association or of a station that    *)
(* leaves is done when the daemon is told, by an event that waits in a     *)
(* socket while the daemon may handle frames that came before it.  What    *)
(* the daemon asks of the driver is done at once.                          *)
(*                                                                         *)
(* The last key frame of each direction stays on the air, where the        *)
(* receiver may take it at any time, any number of times, until the next   *)
(* one replaces it: frames are lost, delayed and repeated, but not         *)
(* reordered.  Keys stand for what they are derived from: a pairwise key   *)
(* for its two nonces, a group key for its nonce.  A MIC is the pairwise   *)
(* key it was made with.                                                   *)
(***************************************************************************)
EXTENDS Integers, FiniteSets, Sequences

CONSTANTS
  Sta,          \* stations that associate
  Stray,        \* addresses that are heard of but never associate
  ModeOf,       \* the mode in each station's IE: "WPA_PSK" or "WPA2_PSK"
  Tkip,         \* stations whose pairwise cipher is TKIP
  Requests,     \* flag sets of EAPOL-Key requests the stations may send
  MAX_SUPPLICANTS,
  WPA_RETRY,
  GtkRekey,     \* there is a group rekey interval: gtk_rekey_secs # 0
  KeyRejects,   \* the driver may reject a pairwise key
  IeFails,      \* the IE of an association may not suit wpa_parse_ie()
  MaxKey,       \* bound: no event that needs a nonce beyond MaxKey
  MaxReplay,    \* bound: no event that starts an exchange beyond MaxReplay
  MaxAssoc,     \* bound: associations of a station
  MaxCm,        \* bound: countermeasure timers alive
  MaxEvents,    \* bound: events that wait for the daemon
  None

Addr == Sta \cup Stray

ASSUME WpaAssumption ==
  /\ Sta \cap Stray = {} /\ Tkip \subseteq Sta
  /\ ModeOf \in [Sta -> {"WPA_PSK", "WPA2_PSK"}]
  /\ Requests \subseteq SUBSET {"ERROR", "MIC", "PAIRWISE", "IE"}
  /\ MAX_SUPPLICANTS \in Nat \ {0} /\ WPA_RETRY \in Nat
  /\ GtkRekey \in BOOLEAN /\ KeyRejects \in BOOLEAN /\ IeFails \in BOOLEAN
  /\ MaxKey \in Nat /\ MaxReplay \in Nat /\ MaxAssoc \in Nat /\ MaxCm \in Nat
  /\ MaxEvents \in Nat
  /\ IsFiniteSet(Addr) /\ None \notin Addr /\ None \notin Nat \X Nat

VARIABLES
  ap,     \* nas->sta[]: the entry of an address
  grp,    \* group key: gtk, GTK_PLUMBED, live rekey timers, global_key_counter
  tkip,   \* countermeasures: on, live timers, a timer handle, a recent failure
  key,    \* driver: the pairwise key of an address
  auth,   \* driver: authorized stations
  ev,     \* driver: the events that the daemon has yet to handle, in their order
  sup,    \* the supplicants
  down,   \* the last EAPOL-Key frame sent to a station
  up      \* the last answer sent by a station

drv  == <<key, auth>>
vars == <<ap, grp, tkip, drv, ev, sup, down, up>>

Waiting == {"PTKINITNEGOTIATING", "PTKINITDONE", "REKEYNEGOTIATING"}
State   == Waiting \cup {"AUTHENTICATION2", "PTKSTART", "SETKEYSDONE"}

\* An entry after toss_sta(), and one that lookup_sta() has initialised.
Unused == [used |-> FALSE, mode |-> "none", pae |-> "INITIALIZE",
           state |-> "AUTHENTICATION2", retry_state |-> "AUTHENTICATION2",
           retries |-> 0, td |-> FALSE, hndlr |-> FALSE,
           replay |-> 0, anonce |-> 0, ptk |-> None]
Entered == [Unused EXCEPT !.used = TRUE]

NoFrame  == [msg |-> "none"]
Fresh(n) == [snonce |-> n, pk |-> "UNKNOWN", ptk |-> None, gtk |-> 0]

\* nas_start()
WpaInit ==
  /\ ap = [s \in Addr |-> Unused]
  /\ grp = [gtk |-> 0, plumbed |-> FALSE, td |-> 0, gkc |-> 1]
  /\ tkip = [on |-> FALSE, timers |-> 0, handle |-> FALSE, recent |-> FALSE]
  /\ key = [s \in Addr |-> None] /\ auth = {} /\ ev = <<>>
  /\ sup = [s \in Sta |-> Fresh(0)]
  /\ down = [s \in Sta |-> NoFrame] /\ up = [s \in Sta |-> NoFrame]

-----------------------------------------------------------------------------
(***************************************************************************)
(* Frames.                                                                 *)
(***************************************************************************)

M1(n, a)       == [msg |-> "M1", replay |-> n, mic |-> None, anonce |-> a, gtk |-> 0]
M3(n, p, a, g) == [msg |-> "M3", replay |-> n, mic |-> p, anonce |-> a, gtk |-> g]
G1(n, p, g)    == [msg |-> "G1", replay |-> n, mic |-> p, anonce |-> 0, gtk |-> g]
M2(n, p, x)    == [msg |-> "M2", replay |-> n, mic |-> p, snonce |-> x]
M4(n, p)       == [msg |-> "M4", replay |-> n, mic |-> p, snonce |-> 0]
G2(n, p)       == [msg |-> "G2", replay |-> n, mic |-> p, snonce |-> 0]

Wpa2(e) == e.mode = "WPA2_PSK"

\* wpa_set_gtk_timer(): without an interval there is no rekeying.
wpa_set_gtk_timer(g) == IF GtkRekey THEN [g EXCEPT !.td = @ + 1] ELSE g

\* The timer that gtk_rekey_timer names, if any, is deleted.
GtkTimerDeleted(g) == [g EXCEPT !.td = IF @ > 0 THEN @ - 1 ELSE 0]

\* wpa_init_gtk(), and the group state after it was made sure there is a key.
wpa_init_gtk(g) ==
  wpa_set_gtk_timer([g EXCEPT !.gtk = g.gkc, !.plumbed = TRUE, !.gkc = @ + 1])

\* Fault: a group key is made, and its timer set, each time.
WithNewGtk(g) == wpa_init_gtk(g)

WithGtk(g) == IF g.plumbed THEN g ELSE wpa_init_gtk(g)

\* wpa_send_eapol(): the frame that entry e sends in state st.  In WPA2 the
\* third message carries the group key; the callers have made sure of it.
wpa_send_eapol(e, st, g) ==
  CASE st = "PTKSTART"           -> M1(e.replay, e.anonce)
    [] st = "PTKINITNEGOTIATING" -> M3(e.replay, e.ptk, e.anonce, IF Wpa2(e) THEN g.gtk ELSE 0)
    [] st = "REKEYNEGOTIATING"   -> G1(e.replay, e.ptk, g.gtk)

-----------------------------------------------------------------------------
(***************************************************************************)
(* The table of stations.                                                  *)
(***************************************************************************)

Used == {s \in Addr : ap[s].used}

\* lookup_sta(s, SEARCH_ENTER) may have to age out an entry; the time of last
\* use is not modelled, any entry may be the oldest.
Victims(s) == IF s \in Used \/ Cardinality(Used) < MAX_SUPPLICANTS THEN {None} ELSE Used

lookup_sta(s, v) ==
  [t \in Addr |-> IF t = v THEN Unused
                  ELSE IF t = s /\ s \notin Used THEN Entered
                  ELSE ap[t]]

\* Full, with all the same timestamp: lookup_sta() finds no entry.
NoneOlder(s) == s \notin Used /\ Cardinality(Used) >= MAX_SUPPLICANTS

\* The entries in S are gone; the driver has no key for, has deauthenticated S.
Tossed(A, S)    == [s \in Addr |-> IF s \in S THEN Unused ELSE A[s]]
KeyRemoved(S)   == key' = [s \in Addr |-> IF s \in S THEN None ELSE key[s]]
Deauthenticated(S) ==
  /\ KeyRemoved(S)
  /\ auth' = auth \ S

\* Fault: the driver is not told.
cleanup_sta_silent(s) ==
  /\ ap' = Tossed(ap, {s})
  /\ UNCHANGED drv

\* cleanup_sta() of the entry of s, outside WDS and without a cached PMK.
cleanup_sta(s) ==
  /\ ap' = Tossed(ap, {s})
  /\ Deauthenticated({s})

\* Fault: the retransmission timer is not set.
Untimed(e) == e

\* wpa_stop_retx() and the setting of the retransmission timer.
wpa_stop_retx(e) == [e EXCEPT !.td = FALSE, !.hndlr = FALSE]
Timed(e)         == [e EXCEPT !.td = TRUE]

\* Fault: one retransmission too many.
ExhaustedLate(e) == e.retries > WPA_RETRY + 1

Exhausted(e) == e.retries > WPA_RETRY

\* Fault: a station may fall through in WPA2 as well.
FallsThroughAlways(e) == TRUE

\* wpa_ptkinitnegotiating(): in WPA a missing message 4 is forgiven.
FallsThrough(e) == ~Wpa2(e)

\* The entry after wpa_ptkstart(), or the start of the handshake by
\* wpa_driver_assoc_msg(), has sent message 1.
Message1Sent(e) ==
  Timed([wpa_stop_retx(e) EXCEPT !.retries = 0, !.retry_state = "PTKSTART",
           !.state = "PTKINITNEGOTIATING"])

\* Fault: no one is kept out.
BarredNever(s) == FALSE

\* wpa_driver_assoc_msg(), process_wpa(): countermeasures keep out TKIP.
Barred(s) == tkip.on /\ s \in Tkip

-----------------------------------------------------------------------------
(***************************************************************************)
(* Driver events.                                                          *)
(***************************************************************************)

\* An exchange that starts at replay counter n stays below the bound: both
\* messages of the 4-way handshake and the group message, each retried.
Room(n) == n + 3 * WPA_RETRY + 2 <= MaxReplay

GroupRoom(n) == n + WPA_RETRY + 1 <= MaxReplay

\* Nonces are left for one more event and for the group key it may need.
NonceLeft == grp.gkc + (IF grp.plumbed THEN 1 ELSE 2) <= MaxKey

\* wlc_bss_mac_event(): an event goes to the daemon's socket, and the daemon takes
\* it out to handle it.
Indicate(s, type) ==
  /\ Len(ev) < MaxEvents
  /\ ev' = Append(ev, [type |-> type, addr |-> s])

Receive(s, type) ==
  /\ ev # <<>> /\ Head(ev) = [type |-> type, addr |-> s]
  /\ ev' = Tail(ev)

\* wlc_ap_process_assocreq(): a station (re)associates, as a new supplicant, and
\* is no longer authorized.  Its pairwise key is gone if it has authenticated
\* anew before.  During countermeasures the driver refuses TKIP.
AssocReq(s) ==
  /\ sup[s].snonce < MaxAssoc
  /\ ~Barred(s)
  /\ sup' = [sup EXCEPT ![s] = Fresh(@.snonce + 1)]
  /\ auth' = auth \ {s}
  /\ UNCHANGED key \/ KeyRemoved({s})
  /\ Indicate(s, "ASSOC_IND")
  /\ UNCHANGED <<ap, grp, tkip, down, up>>

\* wlc_recvctl(), FC_DISASSOC and FC_DEAUTH: the driver forgets the station, and
\* the supplicant its keys.
Leave(s) ==
  /\ Deauthenticated({s})
  /\ sup' = [t \in Sta |-> IF t = s THEN Fresh(sup[s].snonce) ELSE sup[t]]
  /\ Indicate(s, "DISASSOC_IND")
  /\ UNCHANGED <<ap, grp, tkip, down, up>>

\* Fault: the key of the earlier association stays.
KeyStays(S) == key' = key

\* "The driver could have a stale pairwise key": nas_set_key() with no key.
StaleKeyCleared(S) == KeyRemoved(S)

\* WLC_E_ASSOC_IND, WLC_E_REASSOC_IND: wpa_driver_assoc_msg() starts the 4-way
\* handshake.  An IE that does not suit loses the entry, and the driver, which
\* sent the event, is told nothing.  The replay counter of an entry that is
\* already there goes on.
AssocInd(s) ==
  /\ Receive(s, "ASSOC_IND")
  /\ NonceLeft /\ Room(ap[s].replay)
  /\ \E v \in Victims(s) :
       LET A == lookup_sta(s, v)
           e == [A[s] EXCEPT !.mode = ModeOf[s], !.anonce = grp.gkc]
       IN  \/ /\ IeFails
              /\ ap' = Tossed(A, {s})
              /\ Deauthenticated({v})
              /\ UNCHANGED <<grp, down>>
           \/ /\ Barred(s)
              /\ ap' = Tossed(A, {s})
              /\ Deauthenticated({s, v})
              /\ UNCHANGED <<grp, down>>
           \/ /\ ~Barred(s)
              /\ ap' = [A EXCEPT ![s] = Message1Sent(e)]
              /\ StaleKeyCleared({s, v})
              /\ auth' = auth \ {v}
              /\ grp' = [grp EXCEPT !.gkc = @ + 1]
              /\ down' = [down EXCEPT ![s] = wpa_send_eapol(e, "PTKSTART", grp)]
  /\ UNCHANGED <<tkip, sup, up>>

\* Fault: the entry stays.
DisassocKeepsEntry(s) ==
  /\ Receive(s, "DISASSOC_IND")
  /\ UNCHANGED <<ap, grp, tkip, drv, sup, down, up>>

\* WLC_E_DISASSOC_IND, WLC_E_DEAUTH_IND: the entry is looked up, made if there
\* is none, and tossed.  The driver is told nothing.
DisassocInd(s) ==
  /\ Receive(s, "DISASSOC_IND")
  /\ \/ /\ NoneOlder(s)
        /\ UNCHANGED <<ap, drv>>
     \/ \E v \in Victims(s) :
          /\ ap' = Tossed(lookup_sta(s, v), {s})
          /\ Deauthenticated({v})
  /\ UNCHANGED <<grp, tkip, sup, down, up>>

\* wpa_mic_error(): the second failure within WPA_TKIP_CM_DETECT seconds puts
\* everybody out, clobbers the group keys and sets a timer, whose handle is
\* overwritten if countermeasures are on already.
wpa_mic_error(A, v) ==
  \/ /\ ~tkip.recent
     /\ tkip' = [tkip EXCEPT !.recent = TRUE]
     /\ ap' = A
     /\ Deauthenticated({v})
     /\ UNCHANGED grp
  \/ /\ tkip.recent
     /\ tkip.timers < MaxCm
     /\ tkip' = [on |-> TRUE, timers |-> tkip.timers + 1, handle |-> TRUE, recent |-> TRUE]
     /\ ap' = [s \in Addr |-> Unused]
     /\ Deauthenticated({s \in Addr : A[s].used} \cup {v})
     /\ grp' = [GtkTimerDeleted(grp) EXCEPT !.plumbed = FALSE]

\* WLC_E_MIC_ERROR for a pairwise key.  The driver changes nothing with it, so
\* that it may come at any time.
MicErrorInd(s) ==
  /\ \E v \in Victims(s) : wpa_mic_error(lookup_sta(s, v), v)
  /\ UNCHANGED <<ev, sup, down, up>>

-----------------------------------------------------------------------------
(***************************************************************************)
(* EAPOL frames to the authenticator.                                      *)
(***************************************************************************)

\* EAPOL_START, EAPOL_LOGOFF or a key frame from an address that has no entry
\* makes one.  Without a mode it is not a key management entry yet.
StrayFrame(s) ==
  /\ ap[s].mode = "none"
  /\ \E v \in Victims(s) :
       LET A == lookup_sta(s, v) IN
       \/ /\ ap' = A                                       \* EAPOL_KEY
          /\ Deauthenticated({v})
       \/ /\ ap' = [A EXCEPT ![s].pae = "CONNECTING",      \* EAPOL_START
                             ![s].state = "PTKSTART",
                             ![s].retry_state = "PTKSTART"]
          /\ Deauthenticated({v})
       \/ /\ ap' = [A EXCEPT ![s].pae = "CONNECTING"]      \* EAPOL_LOGOFF
          /\ KeyRemoved({v})
          /\ auth' = auth \ {s, v}
  /\ UNCHANGED <<grp, tkip, ev, sup, down, up>>

\* process_wpa() goes on with a key frame of s to the handler of its state.  The
\* tossing of a barred station there has no action: countermeasures begin with an
\* empty table and keep TKIP out of it (CountermeasuresHold).
KeyFrame(s) ==
  ap[s].used /\ ap[s].mode # "none" /\ ap[s].pae = "INITIALIZE" /\ ~Barred(s)

\* wpa_ptkinitnegotiating(): message 2, or an older frame with its replay
\* counter, of which message 4 has no IE and loses the station.
PtkInitNegotiating(s) ==
  LET e == ap[s]
      m == up[s]
      p == <<e.anonce, m.snonce>>
      x == [wpa_stop_retx(e) EXCEPT !.ptk = p]
      y == [x EXCEPT !.replay = @ + 1, !.retries = 0, !.retry_state = "PTKINITNEGOTIATING",
                     !.state = "PTKINITDONE", !.hndlr = FallsThrough(e)]
      g == IF Wpa2(e) THEN WithGtk(grp) ELSE grp
  IN
  /\ KeyFrame(s)
  /\ e.state = "PTKINITNEGOTIATING"
  /\ m.msg \in {"M2", "M4"} /\ m.replay = e.replay
  /\ \/ /\ m.msg = "M4"
        /\ cleanup_sta(s)
        /\ UNCHANGED <<grp, down>>
     \/ /\ m.msg = "M2" /\ m.mic # p
        /\ ap' = [ap EXCEPT ![s] = Timed(x)]
        /\ UNCHANGED <<grp, drv, down>>
     \/ /\ m.msg = "M2" /\ m.mic = p
        /\ ap' = [ap EXCEPT ![s] = Timed(y)]
        /\ grp' = g
        /\ down' = [down EXCEPT ![s] = wpa_send_eapol(y, "PTKINITNEGOTIATING", g)]
        /\ UNCHANGED drv
  /\ UNCHANGED <<tkip, ev, sup, up>>

\* wpa_ptkinitdone2(): the pairwise key goes to the driver.  WPA2 is done; WPA
\* goes on with the group key, whose timer the caller may leave set.
wpa_ptkinitdone2(s, leave) ==
  LET End(x) == IF leave THEN x ELSE wpa_stop_retx(x)
      e == wpa_stop_retx(ap[s])
      y == [e EXCEPT !.replay = @ + 1, !.retries = 0, !.retry_state = "REKEYNEGOTIATING",
                     !.state = "REKEYNEGOTIATING"]
      g == WithGtk(grp)
  IN
  \/ /\ KeyRejects
     /\ cleanup_sta(s)
     /\ UNCHANGED <<grp, down>>
  \/ /\ Wpa2(e)
     /\ key' = [key EXCEPT ![s] = e.ptk]
     /\ auth' = auth \cup {s}
     /\ ap' = [ap EXCEPT ![s] = [e EXCEPT !.state = "SETKEYSDONE",
                                          !.retry_state = "SETKEYSDONE"]]
     /\ UNCHANGED <<grp, down>>
  \/ /\ ~Wpa2(e)
     /\ key' = [key EXCEPT ![s] = e.ptk]
     /\ ap' = [ap EXCEPT ![s] = End(Timed(y))]
     /\ grp' = g
     /\ down' = [down EXCEPT ![s] = wpa_send_eapol(y, "REKEYNEGOTIATING", g)]
     /\ UNCHANGED auth

\* wpa_ptkinitdone(): message 4.  In WPA message 2 has the same flags.
PtkInitDone(s) ==
  /\ KeyFrame(s)
  /\ ap[s].state = "PTKINITDONE"
  /\ up[s].msg \in (IF Wpa2(ap[s]) THEN {"M4"} ELSE {"M2", "M4"})
  /\ up[s].replay = ap[s].replay /\ up[s].mic = ap[s].ptk
  /\ wpa_ptkinitdone2(s, TRUE)
  /\ UNCHANGED <<tkip, ev, sup, up>>

\* wpa_rekeyneg(): the answer to the group message authorizes the station.
RekeyNeg(s) ==
  /\ KeyFrame(s)
  /\ ap[s].state = "REKEYNEGOTIATING"
  /\ up[s].msg = "G2" /\ up[s].replay = ap[s].replay /\ up[s].mic = ap[s].ptk
  /\ ap' = [ap EXCEPT ![s] = [wpa_stop_retx(@) EXCEPT !.state = "SETKEYSDONE",
                                                      !.retry_state = "SETKEYSDONE"]]
  /\ auth' = auth \cup {s}
  /\ UNCHANGED <<grp, tkip, key, ev, sup, down, up>>

\* wpa_new_gtk_callback(): a new group key, if some station is settled, is sent
\* to every settled station.  The others are left as they are.  b is what the
\* caller has made of the group state.
Settled == {s \in Addr : ap[s].used /\ ap[s].state = "SETKEYSDONE"}

Rekeyed(e) == [wpa_stop_retx(e) EXCEPT !.state = "REKEYNEGOTIATING", !.retries = 0,
                 !.retry_state = "REKEYNEGOTIATING", !.replay = @ + 1]

wpa_new_gtk_callback(b) ==
  LET g == [b EXCEPT !.gtk = b.gkc, !.gkc = @ + 1, !.plumbed = TRUE] IN
  \/ /\ Settled = {}
     /\ grp' = b
     /\ UNCHANGED <<ap, down>>
  \/ /\ Settled # {}
     /\ NonceLeft /\ \A s \in Settled : GroupRoom(ap[s].replay)
     /\ grp' = g
     /\ ap' = [s \in Addr |-> IF s \in Settled THEN Timed(Rekeyed(ap[s])) ELSE ap[s]]
     /\ down' = [s \in Sta |-> IF s \in Settled
                               THEN wpa_send_eapol(Rekeyed(ap[s]), "REKEYNEGOTIATING", g)
                               ELSE down[s]]

\* wpa_new_gtk(): the same outside the timer, with a new rekey interval.
wpa_new_gtk == wpa_new_gtk_callback(wpa_set_gtk_timer(GtkTimerDeleted(grp)))

\* A station wants a new pairwise key.  From SETKEYSDONE wpa_verifystart() needs
\* its IE and takes a new nonce; wpa_ptkstart() refuses an error and otherwise
\* sends message 1, with the replay counter as it is.
PairwiseRequest(s, f) ==
  LET verify == ap[s].state = "SETKEYSDONE"
      e == [ap[s] EXCEPT !.anonce = IF verify THEN grp.gkc ELSE @]
      bad == "ERROR" \in f \/ (verify /\ "IE" \notin f)
  IN
  \/ /\ bad
     /\ cleanup_sta(s)
     /\ UNCHANGED <<grp, down>>
  \/ /\ ~bad
     /\ NonceLeft /\ Room(e.replay)
     /\ ap' = [ap EXCEPT ![s] = Message1Sent(e)]
     /\ grp' = IF verify THEN [grp EXCEPT !.gkc = @ + 1] ELSE grp
     /\ down' = [down EXCEPT ![s] = wpa_send_eapol(e, "PTKSTART", grp)]
     /\ UNCHANGED drv

\* An EAPOL-Key request with flags f; no replay counter or MIC is checked.
\* wpa_rekeyneg() passes those with the ERROR flag to wpa_setkeysdone(), but
\* does not go on to the handshake that a pairwise request asks for.
KeyRequest(s, f) ==
  LET st == ap[s].state  micFailure == {"ERROR", "MIC"} \subseteq f IN
  /\ KeyFrame(s)
  /\ \/ /\ st = "SETKEYSDONE" \/ (st = "REKEYNEGOTIATING" /\ "ERROR" \in f)
        /\ micFailure
        /\ wpa_mic_error(ap, None)
        /\ UNCHANGED down
     \/ /\ st = "SETKEYSDONE" \/ (st = "REKEYNEGOTIATING" /\ "ERROR" \in f)
        /\ ~micFailure /\ "PAIRWISE" \notin f
        /\ wpa_new_gtk
        /\ UNCHANGED <<tkip, drv>>
     \/ /\ st = "REKEYNEGOTIATING" /\ "ERROR" \in f
        /\ ~micFailure /\ "PAIRWISE" \in f
        /\ ap' = [ap EXCEPT ![s].state = "PTKSTART"]
        /\ UNCHANGED <<grp, tkip, drv, down>>
     \/ /\ st = "PTKSTART" \/ (st = "SETKEYSDONE" /\ ~micFailure /\ "PAIRWISE" \in f)
        /\ PairwiseRequest(s, f)
        /\ UNCHANGED tkip
  /\ UNCHANGED <<ev, sup, up>>

-----------------------------------------------------------------------------
(***************************************************************************)
(* Timers.                                                                 *)
(***************************************************************************)

\* wpa_retransmission().  During countermeasures nothing goes out.  Beyond the
\* limit either the fall-through handler runs, after which the timer is
\* stopped whatever the handler did, or the station is lost.
Retransmission(s) ==
  LET e == [ap[s] EXCEPT !.retries = @ + 1]
      x == [e EXCEPT !.replay = @ + 1]
      g == IF Wpa2(e) /\ e.retry_state # "PTKSTART" THEN WithGtk(grp) ELSE grp
  IN
  /\ ap[s].td /\ ~tkip.on
  /\ \/ /\ e.state = "SETKEYSDONE"
        /\ ap' = [ap EXCEPT ![s] = wpa_stop_retx(@)]
        /\ UNCHANGED <<grp, drv, down>>
     \/ /\ e.state # "SETKEYSDONE" /\ Exhausted(e)
        /\ e.hndlr
        /\ wpa_ptkinitdone2(s, FALSE)
     \/ /\ e.state # "SETKEYSDONE" /\ Exhausted(e)
        /\ ~e.hndlr
        /\ cleanup_sta(s)
        /\ UNCHANGED <<grp, down>>
     \/ /\ e.state # "SETKEYSDONE" /\ ~Exhausted(e)
        /\ ap' = [ap EXCEPT ![s] = x]
        /\ grp' = g
        /\ down' = [down EXCEPT ![s] = wpa_send_eapol(x, e.retry_state, g)]
        /\ UNCHANGED drv
  /\ UNCHANGED <<tkip, ev, sup, up>>

\* The group rekey interval is over.
GtkTimer ==
  /\ grp.td > 0
  /\ wpa_new_gtk_callback(grp)
  /\ UNCHANGED <<tkip, drv, ev, sup, up>>

\* wpa_countermeasures_cb(), for any timer that is alive: the one the handle
\* names is deleted.
CountermeasuresTimer ==
  /\ tkip.timers > 0
  /\ tkip' = [tkip EXCEPT !.on = FALSE, !.handle = FALSE,
                          !.timers = IF tkip.handle THEN @ - 1 ELSE @]
  /\ UNCHANGED <<ap, grp, drv, ev, sup, down, up>>

\* WPA_TKIP_CM_DETECT seconds since the last MIC failure.
MicWindow ==
  /\ tkip.recent
  /\ tkip' = [tkip EXCEPT !.recent = FALSE]
  /\ UNCHANGED <<ap, grp, drv, ev, sup, down, up>>

-----------------------------------------------------------------------------
(***************************************************************************)
(* The supplicant: eapol_sup_process_key().                                *)
(***************************************************************************)

\* Message 1 starts over: a new pairwise key, message 3 is expected.
SupM1(s) ==
  LET p == <<down[s].anonce, sup[s].snonce>> IN
  /\ down[s].msg = "M1"
  /\ sup' = [sup EXCEPT ![s].ptk = p, ![s].pk = "MSG3"]
  /\ up' = [up EXCEPT ![s] = M2(down[s].replay, p, sup[s].snonce)]
  /\ UNCHANGED <<ap, grp, tkip, drv, ev, down>>

\* Message 3 is answered once: a repetition finds no one waiting for it.
SupM3(s) ==
  /\ down[s].msg = "M3" /\ sup[s].pk = "MSG3" /\ down[s].mic = sup[s].ptk
  /\ sup' = [sup EXCEPT ![s].pk = "DONE",
                        ![s].gtk = IF ModeOf[s] = "WPA2_PSK" THEN down[s].gtk ELSE @]
  /\ up' = [up EXCEPT ![s] = M4(down[s].replay, down[s].mic)]
  /\ UNCHANGED <<ap, grp, tkip, drv, ev, down>>

\* The group message, in WPA2 a rekey of the group key only.
SupG1(s) ==
  /\ down[s].msg = "G1" /\ down[s].mic = sup[s].ptk
  /\ sup' = [sup EXCEPT ![s].gtk = down[s].gtk]
  /\ up' = [up EXCEPT ![s] = G2(down[s].replay, down[s].mic)]
  /\ UNCHANGED <<ap, grp, tkip, drv, ev, down>>

-----------------------------------------------------------------------------
Driver ==
  \/ \E s \in Sta : AssocReq(s)
  \/ \E s \in Addr : Leave(s)

DriverEvent ==
  \/ \E s \in Sta : AssocInd(s)
  \/ \E s \in Addr : DisassocInd(s) \/ MicErrorInd(s)

Eapol ==
  \/ \E s \in Addr : StrayFrame(s)
  \/ \E s \in Sta, f \in Requests : KeyRequest(s, f)
  \/ \E s \in Sta : PtkInitNegotiating(s) \/ PtkInitDone(s) \/ RekeyNeg(s)

Timers ==
  \/ \E s \in Addr : Retransmission(s)
  \/ GtkTimer \/ CountermeasuresTimer \/ MicWindow

Supplicant ==
  \E s \in Sta : SupM1(s) \/ SupM3(s) \/ SupG1(s)

WpaNext == Driver \/ DriverEvent \/ Eapol \/ Timers \/ Supplicant

WpaSpec == WpaInit /\ [][WpaNext]_vars

\* The daemon's interval timers go off as long as they are set.
WpaFairSpec ==
  /\ WpaSpec
  /\ \A s \in Addr : WF_vars(Retransmission(s))
  /\ WF_vars(CountermeasuresTimer)

-----------------------------------------------------------------------------
(***************************************************************************)
(* Properties.                                                             *)
(***************************************************************************)

PTK == (Nat \X Nat) \cup {None}

EntrySet ==
  [used : BOOLEAN, mode : {"none", "WPA_PSK", "WPA2_PSK"}, pae : {"INITIALIZE", "CONNECTING"},
   state : State, retry_state : State, retries : 0..WPA_RETRY, td : BOOLEAN, hndlr : BOOLEAN,
   replay : Nat, anonce : Nat, ptk : PTK]

KeyFrames == [msg : {"M1", "M3", "G1"}, replay : Nat, mic : PTK, anonce : Nat, gtk : Nat]
Answers   == [msg : {"M2", "M4", "G2"}, replay : Nat, mic : PTK, snonce : Nat]

WpaTypeOK ==
  /\ ap \in [Addr -> EntrySet]
  /\ grp \in [gtk : Nat, plumbed : BOOLEAN, td : Nat, gkc : Nat \ {0}]
  /\ tkip \in [on : BOOLEAN, timers : Nat, handle : BOOLEAN, recent : BOOLEAN]
  /\ key \in [Addr -> PTK]
  /\ auth \in SUBSET Sta
  /\ ev \in Seq([type : {"ASSOC_IND", "DISASSOC_IND"}, addr : Addr])
  /\ sup \in [Sta -> [snonce : Nat, pk : {"UNKNOWN", "MSG3", "DONE"}, ptk : PTK, gtk : Nat]]
  /\ down \in [Sta -> KeyFrames \cup {NoFrame}]
  /\ up \in [Sta -> Answers \cup {NoFrame}]

\* The daemon has handled all that the driver has told it of the address.
UpToDate(s) == \A i \in DOMAIN ev : ev[i].addr # s

\* When the handshake is over and no event waits, both ends hold the same
\* pairwise key and the driver uses it for an authorized station, although
\* frames were lost and repeated, earlier exchanges were cut short, answers of an
\* earlier association were handled after it, and the key was installed without
\* message 4 by the fall-through.
Agreement ==
  \A s \in Sta : ap[s].state = "SETKEYSDONE" /\ UpToDate(s) =>
    s \in auth /\ key[s] # None /\ key[s] = sup[s].ptk

\* Once wpa_driver_assoc_msg() has handled an association, the driver has no key
\* of an earlier one, not even if message 4 of the earlier one was handled
\* between the two.  An entry that is to be rekeyed has the key the driver uses.
KeyOfAssociation ==
  \A s \in Sta : ap[s].mode # "none" /\ UpToDate(s) =>
    /\ key[s] # None => key[s][2] = sup[s].snonce
    /\ ap[s].state \in {"REKEYNEGOTIATING", "SETKEYSDONE"} => key[s] = ap[s].ptk

\* nas_authorize() comes after the station has answered with a MIC made with
\* the entry's key, by message 4 or by the group answer, and never for a station
\* with TKIP during countermeasures.  It is the key that the driver uses, unless
\* the driver has just seen the station leave or associate again.
AuthorizedOnProof ==
  [][\A s \in auth' \ auth :
       /\ up[s].msg \in {"M4", "G2"} /\ up[s].mic = ap[s].ptk /\ ~Barred(s)
       /\ UpToDate(s) => key'[s] = up[s].mic]_vars

\* A station that the daemon gives up of its own accord, aged out, lost after the
\* last retry, with its key refused or by countermeasures, is given up by the
\* driver too: cleanup_sta() and toss_sta() tell it, unless the driver spoke first.
DropsReachDriver ==
  [][\A s \in Addr :
       ap[s].used /\ ~ap'[s].used /\ (ev' = ev \/ Head(ev).addr # s) =>
         key'[s] = None /\ s \notin auth']_vars

\* While countermeasures are on no station with TKIP has begun a handshake, in
\* spite of frames and of associations that were on their way.
CountermeasuresHold == tkip.on => \A s \in Tkip : ap[s].mode = "none"

\* With a rekey interval exactly one rekey timer is alive while a group key is
\* plumbed, through requests for a new key and countermeasures; otherwise none.
OneGtkTimer == grp.td = IF grp.plumbed /\ GtkRekey THEN 1 ELSE 0

\* A WPA2 station that an answer is awaited from is settled or lost in the end.
HandshakeEnds ==
  \A s \in Sta : ModeOf[s] = "WPA2_PSK" =>
    (ap[s].state \in Waiting ~> ap[s].state \notin Waiting)

-----------------------------------------------------------------------------
(***************************************************************************)
(* What a comment of the code says that does not hold in all its states.   *)
(***************************************************************************)

\* wpa_new_gtk_callback(): "Make it primary after it's been sent to all known
\* supplicants."
GtkSentToAll ==
  \A s \in auth : ap[s].state = "SETKEYSDONE" /\ UpToDate(s) => sup[s].gtk = grp.gtk
==============================================================================
