SPECIFICATION LifecycleSpec
CONSTANTS
  Deliveries = {d1}
  MaxRequests = 6
  WriteAttempts = 1
  EndAttempts = 1
  MaxFailures = 0
INVARIANT OneTerminalFact
CHECK_DEADLOCK FALSE
