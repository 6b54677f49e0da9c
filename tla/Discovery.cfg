CONSTANTS
  d1 = d1
  d2 = d2
  c1 = c1
  c2 = c2
  s1 = s1
  s2 = s2
  Devices = {d1, d2}
  None = None
  Ops <- UseOps
  OneOperation = TRUE
  OneDevice = TRUE
  EmptyReads = FALSE
  MaxRequests = 5
  MaxReports = 1
  Properties <- MCProperties
  Offers <- MCOffers
SPECIFICATION DiscoverySpec
INVARIANTS
  DiscoveryTypeOK
  DiscoveryOnConnection
  BuffersOfPendingWrites
PROPERTIES
  ReferencesLive
  ConnectedMeansDiscovered
  ImplementsShortForm
