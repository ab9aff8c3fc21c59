SPECIFICATION Spec
CONSTANTS
  Written <- Plain
  MaxWrites = 3
  MaxBody = 2
  MaxStarts = 2
  Features <- AllFaults
INVARIANTS ReadsWhatWasWritten
CHECK_DEADLOCK FALSE
