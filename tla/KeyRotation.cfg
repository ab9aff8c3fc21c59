SPECIFICATION FairSpec
CONSTANTS
  Keys = {k1, k2, k3}
  FirstKey = k1
  Callers = {c1, c2}
  NoKey = NoKey
  MaxWrites = 2
  MaxCalls = 2
  MaxFails = 1
  MaxCrashes = 2
INVARIANTS SomeKeyOpens
PROPERTIES OnlyLateClearsStrand KeptSurvives ExportUnderCallersKey RotationCompletes
CHECK_DEADLOCK FALSE
