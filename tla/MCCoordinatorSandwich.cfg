SPECIFICATION Spec
CONSTANTS
  front = front
  worker = worker
  c1 = c1
  c2 = c2
  globalKey = globalKey
  NoWorker = NoWorker
  Calls = {c1}
  Workers = {front}
  Fronts = {front}
  Premium = {}
  Crashers = {front}
  MaxStray = 0
  MaxWebhooks = 2
  SharedKeys <- MCSharedKeys
  ScopeKeys <- MCScopeKeys
  Limit <- MCLimit
  Buckets = {}
  BucketsOf <- MCBucketsOf
  Burst <- MCPerBucket
  Refill <- MCPerBucket
  ClaimTtl = 1
  ActiveTtl = 1
  MaxTime = 2
CHECK_DEADLOCK FALSE
INVARIANT AuthorityBacked
