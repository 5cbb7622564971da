SPECIFICATION SharedSpec
CONSTANTS
  PremiumCalls = {c1, c2}
  MaxEpoch = 1
  MaxWrites = 2
  BufferLimit = 1
  IngressLimit = 1
  StartupLimit = 1
  Calls = {c1, c2}
  MaxPacks = 1
  PackCredit = 2
  Amounts = {1, 2}
  Ttls = {1}
  CallOutcomes = {"failed"}
  JobLease = 1
  RetryBase = 1
  RetryCap = 1
  MaxAttempts = 1
  MaxClaims = 1
  MaxTime = 1
  c1 = c1
  c2 = c2
SYMMETRY Symmetry
INVARIANTS
  ActiveOwnsOneLeg
  MediaHeldWhileWaiting
  ShutdownMeansSettled
  PendingStartupsBounded
  AccountIsSum
  ReservationsCovered
CHECK_DEADLOCK FALSE
