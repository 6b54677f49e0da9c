\* A scan stopped before its time limit, as examples/ble_scan does, then a connection.
CONSTANTS
  d1 = d1
  d2 = d2
  Devices = {d1, d2}
  None = None
  Ops <- ScanStopConnectOps
  OneOperation = TRUE
  OneDevice = TRUE
  EmptyReads = FALSE
  MaxRequests = 3
  MaxReports = 1
SPECIFICATION Spec
PROPERTY ConnectSuccessMeansConnected
