SPECIFICATION Spec
CONSTANTS
  tab = tab
  a = a
  b = b
  v = v
  w = w
  x1 = x1
  x2 = x2
  NoTable = NoTable
  Absent = Absent
  Nil = Nil
  NoKey = NoKey
  NoFile = NoFile
  Tables <- MCTables
  Keys <- MCKeys
  Vals <- MCVals
  Ops <- FewOps
  Imports <- NoImports
  Txs = {}
  TxChanges <- MCChanges
  MaxOps = 2
  QueueCap = 1
  MaxReopens = 0
  WALEnabled = FALSE
  Features = {"save"}
INVARIANTS CleanMeansPersisted
CHECK_DEADLOCK FALSE
