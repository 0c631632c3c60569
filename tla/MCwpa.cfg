CONSTANTS
  s1 = s1
  s2 = s2
  other = other
  None = None
  Sta = {s1, s2}
  Stray = {}
  ModeOf <- BothModes
  Tkip = {}
  Requests <- GoodRequests
  MAX_SUPPLICANTS = 2
  WPA_RETRY = 0
  GtkRekey = FALSE
  KeyRejects = FALSE
  MaxKey = 5
  MaxReplay = 4
  MaxAssoc = 1
  IeFails = FALSE
  MaxEvents = 1
  MaxCm = 0
SPECIFICATION WpaSpec
INVARIANTS WpaTypeOK Agreement
CHECK_DEADLOCK FALSE
