CONSTANTS
  g1 = g1
  g2 = g2
  i1 = i1
  i2 = i2
  p1 = p1
  p2 = p2
  p3 = p3
  NULL = NULL
  Group = {g1, g2}
  Iface = {i1, i2}
  MgrpPtr = {p1, p2, p3}
  RefMod = 4
  MaxRef = 2
  AllocFail = {"emfc_mgrp", "emfc_mi", "emfc_iflist"}
SPECIFICATION Spec
SYMMETRY Symmetry
PROPERTIES ImplementsCounts
INVARIANTS TypeOK LookupExact NoEmptyGroup OneEntryPerGroup
