SPECIFICATION BillingSpec
CONSTANTS
  Calls = {c1}
  MaxPacks = 1
  PackCredit = 2
  Amounts = {2}
  Ttls = {2}
  CallOutcomes = {"completed", "transferred", "failed"}
  JobLease = 1
  RetryBase = 1
  RetryCap = 2
  MaxAttempts = 2
  MaxClaims = 5
  MaxTime = 3
  Hooks = {h1, h2}
  Callbacks = {b1, b2}
  Schedulers = {s1}
  Quote = 2
  Ttl = 2
  MaxFaults = 0
INVARIANTS
  LiveCallReserved
CHECK_DEADLOCK FALSE
