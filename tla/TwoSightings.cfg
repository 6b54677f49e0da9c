CONSTANTS
  d1 = d1
  Devices = {d1}
  Target = d1
  None = None
  Ops <- ExampleOps
  OneOperation = FALSE
  OneDevice = FALSE
  EmptyReads = FALSE
  MaxRequests = 7
  MaxReports = 1
  WaitLimit = 6
  FromCallbacks = FALSE
  CutsIn = FALSE
  MayFail <- Foreseen
  MaxSightings = 2
SPECIFICATION ExamplesSpec
PROPERTY ConnectsOnce
