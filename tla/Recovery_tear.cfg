SPECIFICATION Spec
CONSTANTS
  Written <- Text
  MaxWrites = 3
  MaxBody = 2
  MaxStarts = 2
  Features <- AllFaults
INVARIANTS WholeRecovered
CHECK_DEADLOCK FALSE
