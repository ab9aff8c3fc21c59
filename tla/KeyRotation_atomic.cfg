SPECIFICATION Spec
CONSTANTS
  Keys = {k1, k2, k3}
  FirstKey = k1
  Callers = {c1, c2}
  NoKey = NoKey
  MaxWrites = 2
  MaxCalls = 2
  MaxFails = 1
  MaxCrashes = 2
PROPERTIES FailedChangeKeepsKey
CHECK_DEADLOCK FALSE
