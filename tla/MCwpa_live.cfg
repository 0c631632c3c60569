CONSTANTS
  s1 = s1
  s2 = s2
  other = other
  None = None
  Sta = {s1}
  Stray = {other}
  ModeOf <- Wpa2Only
  Tkip = {s1}
  Requests <- SomeRequests
  MAX_SUPPLICANTS = 1
  WPA_RETRY = 1
  GtkRekey = TRUE
  KeyRejects = TRUE
  MaxKey = 5
  MaxReplay = 6
  MaxAssoc = 2
  IeFails = TRUE
  MaxEvents = 2
  MaxCm = 2
SPECIFICATION WpaFairSpec
INVARIANTS Agreement KeyOfAssociation CountermeasuresHold OneGtkTimer
PROPERTIES AuthorizedOnProof DropsReachDriver HandshakeEnds
CHECK_DEADLOCK FALSE
