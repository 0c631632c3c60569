CONSTANTS
  NULL = NULL
  g1 = g1
  g2 = g2
  i1 = i1
  h1 = h1
  h2 = h2
  r1 = r1
  p1 = p1
  p2 = p2
  Group = {g1, g2}
  Iface = {i1}
  Host = {h1, h2}
  Router = {r1}
  MgrpPtr = {p1, p2}
  RefMod = 4
  MaxRef = 2
  MaxStat = 3
  AllocFail = {"emfc_mgrp", "emfc_mi", "igs_mgrp", "igs_mh", "igs_timer", "igs_mi", "igs_rtlist_timer", "emfc_iflist", "emfc_mhif"}
  Reused = TRUE
  Wds = {i1}
  Cmds = {"EMF_ENABLE", "IF_ADD", "IF_DEL", "MFDB_ADD", "MFDB_DEL", "MFDB_CLEAR", "UFFP_ADD", "UFFP_DEL", "RTPORT_ADD", "RTPORT_DEL"}
SPECIFICATION IgscSpec
SYMMETRY Symmetry
INVARIANTS DisabledIsEmpty
CHECK_DEADLOCK FALSE
