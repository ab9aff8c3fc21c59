SPECIFICATION Spec
CONSTANTS
  P = {p, q}
  Watchers = {q}
  Vals = {v, w}
  None = None
  MaxSaves = 3
  Features <- NoFaults
INVARIANTS AlwaysWhole
CHECK_DEADLOCK FALSE
