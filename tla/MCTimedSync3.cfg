SPECIFICATION TimedFairSpec
CONSTANTS
  NumNodes = 3
  IsAsync = FALSE
  Leader = 0
  QueueLimit = 1000
  Value = {v1}
  MaxRequests = 4
  Lossy = FALSE
  LastServerIds = {2}
  clockSyncError = 10
  boundedMessageDelay = 10000000
  linkDelay = 10000000
  Word = 2147483647
  MessageDelay <- BoundedDelays
  RequestDelay <- RequestDelays
  StopTimes = {20000000, 30000060, 65000000}
INVARIANTS
  TimeTypeOK
  StopIsTimed
  TimestampsIncrease
  OneSlotOnTheWay
  DoneBeforeNextSlot
  ProposedInTime
  LearnedInTime
  EndsInTime
PROPERTIES
  Untimed
  UntimedFairness
  Terminates
