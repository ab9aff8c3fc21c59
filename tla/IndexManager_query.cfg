SPECIFICATION Spec
CONSTANTS
  a = a
  b = b
  c = c
  v = v
  w = w
  x = x
  Absent = Absent
  NoField = NoField
  NoIndex = NoIndex
  NoOp = NoOp
  Live = Live
  Keys = {a, b, c}
  Vals = {v}
  Strings <- MCStrings
  Format <- MCFormat
  MaxStores = 4
  Features = {"query"}
INVARIANTS QueryComplete
CHECK_DEADLOCK FALSE
