CONSTANTS
  NULL = NULL
  g1 = g1
  g2 = g2
  i1 = i1
  i2 = i2
  h1 = h1
  h2 = h2
  r1 = r1
  p1 = p1
  p2 = p2
  Group = {g1, g2}
  Iface = {i1, i2}
  Host = {h1, h2}
  Router = {r1}
  MgrpPtr = {p1, p2}
  RefMod = 6
  MaxRef = 4
  MaxStat = 4
  AllocFail = {"emfc_mi", "igs_timer"}
  Reused = TRUE
  Wds = {}
  Cmds = {"EMF_ENABLE", "STA"}
SPECIFICATION IgscSpec
SYMMETRY Symmetry
INVARIANTS DetachedForgotten SdbNoFault
CHECK_DEADLOCK FALSE
