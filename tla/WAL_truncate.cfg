SPECIFICATION Spec
CONSTANTS
  MaxEntries = 2
  BufferCap = 1
  BatchSize = 0
  MaxSize = 2
  GroupCommit = FALSE
  Bad <- NoBad
  Features = {"truncate"}
INVARIANTS TruncateKeepsQueued
CHECK_DEADLOCK FALSE
