\* Operations asked for in any order, from any callback, on any device.
CONSTANTS
  d1 = d1
  d2 = d2
  Devices = {d1, d2}
  None = None
  Ops <- UntimedOps
  OneOperation = FALSE
  OneDevice = FALSE
  EmptyReads = TRUE
  MaxRequests = 3
  MaxReports = 1
SPECIFICATION Spec
INVARIANTS
  TypeOK
  OnlyFrontStarted
  AnswersMeetTheirAction
  ReportedOnce
  ReportsInOrder
PROPERTY ImplementsOperationQueue
\* a crash stops the program
CHECK_DEADLOCK FALSE
