SPECIFICATION Spec
CONSTANTS
  tab = tab
  a = a
  b = b
  v = v
  w = w
  x1 = x1
  x2 = x2
  NoTable = NoTable
  Absent = Absent
  Nil = Nil
  NoKey = NoKey
  NoFile = NoFile
  Tables <- MCTables
  Keys = {a}
  Vals <- MCVals
  Ops <- SomeOps
  Imports <- Imported
  Txs = {x1, x2}
  TxChanges <- MCChanges
  MaxOps = 2
  QueueCap = 2
  MaxReopens = 1
  WALEnabled = FALSE
  Features = {"save", "flush", "watch", "import", "foreign", "crash", "tx", "diskFails"}
SYMMETRY Symmetric
PROPERTIES OnlyClearsAndReplaysForget OnlyImportsAndReloadsOutdate OnlyRollbacksAndReloadsLoseAnswers
CHECK_DEADLOCK FALSE
