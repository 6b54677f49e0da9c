CONSTANTS
  d1 = d1
  d2 = d2
  c1 = c1
  c2 = c2
  c3 = c3
  Devices = {d1}
  Chars = {c1}
  Subscribable = {c1}
  AutoDiscover = {TRUE, FALSE}
  OneDevice = TRUE
  StopsFirst = FALSE
  NestedCalls = TRUE
  Refusals = {"start", "stop"}
  MaxReports = 1
SPECIFICATION Spec
INVARIANT TypeOK
PROPERTY CountRestored
\* a mutex locked twice stops the program
CHECK_DEADLOCK FALSE
