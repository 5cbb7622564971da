SPECIFICATION MediaSpec
CONSTANTS
  PremiumCalls = {c1}
  MaxEpoch = 1
  MaxWrites = 2
  BufferLimit = 1
  IngressLimit = 2
  StartupLimit = 1
  Responses = {r1, r2}
  MarkLimit = 2
  QueueLimit = 2
  ResidentLimit = 2
  ForgetLimit = 1
  MaxDelta = 2
  MaxFrames = 4
  Deliveries = {d1}
  MaxRequests = 3
  WriteAttempts = 5
  EndAttempts = 2
  MaxFailures = 1
  Guests = {g1}
  HeartbeatTtl = 2
  DrainWindow = 2
INVARIANTS
  PartsTypeOK
  PlaybackAccounts
  SubmissionsAgree
  ReleasedWhenEnded
  HiddenWhenDrained
  WindowIsGiven
PROPERTIES
  AbandonedCallEnds
  HandoffEnds
  ShutdownEnds
  EndIsFinal
  EndedMediaEndsCall
  DrainShutsDown
CHECK_DEADLOCK FALSE
