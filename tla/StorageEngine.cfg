SPECIFICATION FairSpec
CONSTANTS
  P = {p, q}
  Watchers = {q}
  Vals = {v, w}
  None = None
  MaxSaves = 3
  Features <- AllFaults
INVARIANTS WholeUnlessContended WatcherMissesNothing
PROPERTIES ImplementsAtomicFile CallsReturn
CHECK_DEADLOCK FALSE
