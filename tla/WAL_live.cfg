SPECIFICATION FairSpec
CONSTANTS
  MaxEntries = 1
  BufferCap = 1
  BatchSize = 0
  MaxSize = 0
  GroupCommit = FALSE
  Bad <- NoBad
  Features <- CallFeatures
PROPERTIES EventuallyDurable CallsReturn
CHECK_DEADLOCK FALSE
