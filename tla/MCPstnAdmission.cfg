SPECIFICATION MCSpec
CONSTANTS
  c1 = c1
  c2 = c2
  c3 = c3
  w1 = w1
  w2 = w2
  globalKey = globalKey
  tenantA = tenantA
  tenantB = tenantB
  globalCps = globalCps
  cpsA = cpsA
  cpsB = cpsB
  NoWorker = NoWorker
  Calls <- MCCalls
  Workers <- MCWorkers
  SharedKeys <- MCSharedKeys
  ScopeKeys <- MCScopeKeys
  Limit <- MCLimit
  Buckets <- MCBuckets
  BucketsOf <- MCBucketsOf
  Burst <- MCBurst
  Refill <- MCRefill
  ClaimTtl = 2
  ActiveTtl = 2
  MaxTime = 6
INVARIANT TypeOK
INVARIANT CapacityRespected
INVARIANT RecoverySlotsKept
INVARIANT LeaseHasHold
PROPERTY OwnershipFenced
PROPERTY ContractKept
INVARIANT CpsWindow
SYMMETRY Symmetry
