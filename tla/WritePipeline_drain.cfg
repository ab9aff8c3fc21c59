SPECIFICATION Spec
CONSTANTS
  c1 = c1
  c2 = c2
  c3 = c3
  Clients = {c1, c2}
  BufferSize = 1
  BatchLimit = 2
  Shutdown = TRUE
CHECK_DEADLOCK FALSE
INVARIANTS DrainedAtExit
