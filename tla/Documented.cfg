CONSTANTS
  d1 = d1
  d2 = d2
  Devices = {d1, d2}
  None = None
  Ops <- DocumentedOps
  OneOperation = TRUE
  OneDevice = TRUE
  EmptyReads = TRUE
  MaxRequests = 5
  MaxReports = 1
SPECIFICATION Spec
INVARIANTS
  NoCrash
  ConnectionConsistent
  ScanFlagTruthful
PROPERTIES
  ReportsAreTrue
  CallsAreLegal
