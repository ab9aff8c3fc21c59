SPECIFICATION Spec
CONSTANTS
  MaxEntries = 3
  BufferCap = 1
  BatchSize = 2
  MaxSize = 1
  GroupCommit = FALSE
  Bad <- Bad2
  Features <- AllFeatures
INVARIANTS LogOrdered
PROPERTIES ImplementsAbstractLog
CHECK_DEADLOCK FALSE
