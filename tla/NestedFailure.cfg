CONSTANTS
  d1 = d1
  d2 = d2
  c1 = c1
  c2 = c2
  c3 = c3
  Devices = {d1}
  Chars = {c1, c2}
  Subscribable = {c1}
  AutoDiscover = {TRUE}
  OneDevice = TRUE
  StopsFirst = TRUE
  NestedCalls = TRUE
  Refusals = {}
  MaxReports = 1
SPECIFICATION Spec
INVARIANT NoSelfDeadlock
