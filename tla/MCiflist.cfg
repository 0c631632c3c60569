CONSTANTS
  NULL = NULL
  i1 = i1
  i2 = i2
  i3 = i3
  p1 = p1
  p2 = p2
  p3 = p3
  Iface = {i1, i2, i3}
  Ptr = {p1, p2, p3}
  RefMod = 4
  MaxRef = 2
  NoMem = {"softirq", "command"}
  Cmds = {"IF_ADD", "IF_DEL", "UFFP_ADD", "UFFP_DEL", "RTPORT_ADD", "RTPORT_DEL"}
SPECIFICATION IflSpec
SYMMETRY Symmetry
INVARIANTS IflistTypeOK OnlyIfDelSpoils
PROPERTIES UnlinkFreesOwn
CHECK_DEADLOCK FALSE
