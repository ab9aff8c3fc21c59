SPECIFICATION Spec
CONSTANTS
  Txs = {x1, x2}
  Keys = {k1, k2}
  Vals = {w}
  Absent = Absent
  Nil = Nil
  MaxBatches = 2
INVARIANTS OneWinner
PROPERTIES ImplementsSerialStore
CHECK_DEADLOCK FALSE
