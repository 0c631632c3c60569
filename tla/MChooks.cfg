CONSTANTS
  NULL = NULL
  b1 = b1
  b2 = b2
  d1 = d1
  d2 = d2
  d3 = d3
  e1 = e1
  e2 = e2
  q1 = q1
  q2 = q2
  Bridge = {b1, b2}
  Dev = {d1, d2, d3}
  EmfPtr = {e1, e2}
  IgsPtr = {q1, q2}
  EMF_MAX_INST = 2
  IGS_MAX_INST = 2
  Fails = {"emf"}
SPECIFICATION InstSpec
SYMMETRY Symmetry
INVARIANTS HooksCounted
CHECK_DEADLOCK FALSE
