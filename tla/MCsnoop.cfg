CONSTANTS
  NULL = NULL
  g1 = g1
  g2 = g2
  i1 = i1
  i2 = i2
  h1 = h1
  h2 = h2
  r1 = r1
  p1 = p1
  p2 = p2
  Group = {g1, g2}
  Iface = {i1, i2}
  Host = {h1, h2}
  Router = {r1}
  MgrpPtr = {p1, p2}
  RefMod = 5
  MaxRef = 3
  MaxStat = 5
  AllocFail = {"emfc_mgrp", "emfc_mi", "igs_mgrp", "igs_mh", "igs_timer", "igs_mi", "igs_rtlist_timer"}
  Reused = FALSE
  Wds = {}
  Cmds = {"EMF_ENABLE", "IF_ADD"}
SPECIFICATION IgscSpec
SYMMETRY Symmetry
INVARIANTS IgscTypeOK RefsAreHosts TimersPending StatsCoverEntries
PROPERTIES KeepsPromise
