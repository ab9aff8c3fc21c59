SPECIFICATION FairSpec
CONSTANTS
  Written <- Some
  MaxWrites = 3
  MaxBody = 2
  MaxStarts = 2
  Features <- AllFaults
INVARIANTS PrefixRecovered NothingInvented NoStepBack ReadsWhatWasWritten
PROPERTIES ReadAllEnds
CHECK_DEADLOCK FALSE
