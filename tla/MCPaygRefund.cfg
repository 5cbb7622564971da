SPECIFICATION Spec
CONSTANTS
  Calls = {c1}
  MaxPacks = 2
  PackCredit = 2
  Amounts = {1, 2}
  Ttls = {1}
  CallOutcomes = {"failed"}
  JobLease = 1
  RetryBase = 1
  RetryCap = 1
  MaxAttempts = 1
  MaxClaims = 1
  MaxTime = 1
PROPERTIES
  UsedPackKept
CHECK_DEADLOCK FALSE
