SPECIFICATION Spec
CONSTANTS
  MaxEntries = 2
  BufferCap = 1
  BatchSize = 0
  MaxSize = 0
  GroupCommit = FALSE
  Bad <- NoBad
  Features = {"filesFail"}
PROPERTIES LaterRotationsWork
CHECK_DEADLOCK FALSE
