SPECIFICATION Spec
CONSTANTS
  a = a
  b = b
  c = c
  v = v
  w = w
  x = x
  Absent = Absent
  NoField = NoField
  NoIndex = NoIndex
  NoOp = NoOp
  Live = Live
  Keys = {a, b}
  Vals = {v, w, x}
  Strings <- MCStrings
  Format <- MCFormat
  MaxStores = 3
  Features = {"newTable", "race", "appendFails", "replace", "commit", "query"}
INVARIANTS IndexExact IndexCovers QuerySound
CHECK_DEADLOCK FALSE
