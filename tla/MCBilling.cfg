SPECIFICATION PartsSpec
CONSTANTS
  Calls = {c1}
  MaxPacks = 1
  PackCredit = 2
  Amounts = {2}
  Ttls = {2}
  CallOutcomes = {"completed", "transferred", "failed"}
  JobLease = 1
  RetryBase = 1
  RetryCap = 2
  MaxAttempts = 2
  MaxClaims = 7
  MaxTime = 3
  Hooks = {h1}
  Callbacks = {b1}
  Schedulers = {s1}
  Quote = 2
  Ttl = 1
  MaxFaults = 2
  Events = {e1, e2}
  Dispatchers = {d1, d2}
  BatchSize = 2
  DeliveryAttempts = 2
  MaxOutboxFaults = 1
INVARIANTS
  BillingPartsTypeOK
  SettlementAgrees
  ChargedAsAllowed
PROPERTIES
  SubmittedSettles
  OutboxSettles
  DeliveredStays
CHECK_DEADLOCK FALSE
