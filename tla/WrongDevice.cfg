CONSTANTS
  d1 = d1
  d2 = d2
  c1 = c1
  c2 = c2
  c3 = c3
  Devices = {d1, d2}
  Chars = {c1}
  Subscribable = {c1}
  AutoDiscover = {TRUE}
  OneDevice = TRUE
  StopsFirst = TRUE
  NestedCalls = FALSE
  Refusals = {}
  MaxReports = 2
SPECIFICATION Spec
INVARIANT HandedToItsDevice
