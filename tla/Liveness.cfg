CONSTANTS
  d1 = d1
  d2 = d2
  Devices = {d1, d2}
  None = None
  Ops <- TimedOps
  OneOperation = TRUE
  OneDevice = TRUE
  EmptyReads = FALSE
  MaxRequests = 4
  MaxReports = 1
SPECIFICATION FairSpec
INVARIANT ScanFlagTruthful
PROPERTY EveryOperationEnds
