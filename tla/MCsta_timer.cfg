CONSTANTS
  NULL = NULL
  g1 = g1
  i1 = i1
  h1 = h1
  r1 = r1
  p1 = p1
  Group = {g1}
  Iface = {i1}
  Host = {h1}
  Router = {r1}
  MgrpPtr = {p1}
  RefMod = 6
  MaxRef = 4
  MaxStat = 3
  AllocFail = {}
  Reused = TRUE
  Wds = {}
  Cmds = {"EMF_ENABLE", "STA"}
SPECIFICATION IgscSpec
SYMMETRY Symmetry
INVARIANTS RtTimerHasEntry
CHECK_DEADLOCK FALSE
