CONSTANTS
  d1 = d1
  d2 = d2
  Devices = {d1, d2}
  None = None
  Ops <- CallbackOps
  OneOperation = FALSE
  OneDevice = TRUE
  EmptyReads = TRUE
  MaxRequests = 4
  MaxReports = 1
  WaitLimit = 9
  FromCallbacks = TRUE
  CutsIn = TRUE
SPECIFICATION ShutdownSpec
INVARIANTS
  ShutdownTypeOK
  WaitsForRunningOnly
  ConnectionLeftClosed
PROPERTY NothingStartedOnceClosed
