SPECIFICATION Spec
CONSTANTS
  tab = tab
  a = a
  b = b
  v = v
  w = w
  x1 = x1
  x2 = x2
  NoTable = NoTable
  Absent = Absent
  Nil = Nil
  NoKey = NoKey
  NoFile = NoFile
  Tables <- MCTables
  Keys <- MCKeys
  Vals <- MCVals
  Ops <- FewOps
  Imports <- Imported
  Txs = {x1}
  TxChanges <- MCChanges
  MaxOps = 1
  QueueCap = 1
  MaxReopens = 0
  WALEnabled = FALSE
  Features = {"import", "tx"}
INVARIANTS TxSnapshotCurrent
CHECK_DEADLOCK FALSE
