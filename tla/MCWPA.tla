------------------------------- MODULE MCWPA --------------------------------
(***************************************************************************)
(* The stations of a BSS and their EAPOL-Key requests, for TLC.            *)
(***************************************************************************)
EXTENDS WPA, TLC

CONSTANTS s1, s2, other

BothModes == (s1 :> "WPA_PSK") @@ (s2 :> "WPA2_PSK")
Wpa2Only  == (s1 :> "WPA2_PSK")

GoodRequests == {{}, {"PAIRWISE", "IE"}}
SomeRequests == GoodRequests \cup {{"ERROR", "PAIRWISE"}, {"ERROR", "MIC"}}
=============================================================================
