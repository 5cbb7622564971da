SPECIFICATION LifecycleSpec
CONSTANTS
  Deliveries = {d1}
  MaxRequests = 3
  WriteAttempts = 10
  EndAttempts = 2
  MaxFailures = 0
INVARIANT ConnectedBeforeEnd
CHECK_DEADLOCK FALSE
