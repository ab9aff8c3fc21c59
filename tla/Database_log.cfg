SPECIFICATION Spec
CONSTANTS
  tab = tab
  a = a
  b = b
  v = v
  w = w
  x1 = x1
  x2 = x2
  NoTable = NoTable
  Absent = Absent
  Nil = Nil
  NoKey = NoKey
  NoFile = NoFile
  Tables <- MCTables
  Keys <- MCKeys
  Vals <- MCVals
  Ops <- EachOp
  Imports <- Imported
  Txs = {}
  TxChanges <- MCChanges
  MaxOps = 3
  QueueCap = 1
  MaxReopens = 1
  WALEnabled = TRUE
  Features = {"save", "rotate", "appendFails", "import", "close", "crash", "diskFails", "ctxWins", "watch", "foreign"}
INVARIANTS LogRepairs
PROPERTIES RestartKeepsAnswers OnlyClearsAndReplaysForget
CHECK_DEADLOCK FALSE
