SPECIFICATION Spec
CONSTANTS
  a = a
  b = b
  c = c
  v = v
  w = w
  x = x
  Absent = Absent
  NoField = NoField
  NoIndex = NoIndex
  NoOp = NoOp
  Live = Live
  Keys = {a, b}
  Vals = {v}
  Strings <- MCStrings
  Format <- MCFormat
  MaxStores = 2
  Features = {"race"}
INVARIANTS IndexConsistent
CHECK_DEADLOCK FALSE
