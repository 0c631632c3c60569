CONSTANTS
  NULL = NULL
  g1 = g1
  i1 = i1
  i2 = i2
  h1 = h1
  h2 = h2
  r1 = r1
  r2 = r2
  p1 = p1
  Group = {g1}
  Iface = {i1, i2}
  Host = {h1, h2}
  Router = {r1, r2}
  MgrpPtr = {p1}
  RefMod = 5
  MaxRef = 3
  MaxStat = 3
  AllocFail = {"igs_rtlist_timer"}
  Reused = FALSE
  Wds = {}
  Cmds = {"EMF_ENABLE", "IF_ADD", "MFDB_ADD", "RTPORT_ADD"}
SPECIFICATION IgscFairSpec
INVARIANTS MembersForwarded RoutersHear
PROPERTIES SilentHostsAgeOut DisableReturns
