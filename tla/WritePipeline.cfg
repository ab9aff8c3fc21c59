SPECIFICATION FairSpec
CONSTANTS
  c1 = c1
  c2 = c2
  c3 = c3
  Clients <- MCClients
  BufferSize = 1
  BatchLimit = 2
  Shutdown = TRUE
INVARIANTS TypeOK PendingOpsExact QueueExact FlushCovers NoBatchAbandoned
PROPERTIES EveryCallReturns FlushReturns CloseTerminates
CHECK_DEADLOCK FALSE
