SPECIFICATION TimedSpec
CONSTANTS
  NumNodes = 5
  IsAsync = FALSE
  Leader = 0
  QueueLimit = 1000
  Value = {v1}
  MaxRequests = 1
  Lossy = FALSE
  LastServerIds = {0}
  clockSyncError = 5
  boundedMessageDelay = 5000
  linkDelay = 10000000
  Word = 2147483647
  MessageDelay <- LinkDelays
  RequestDelay <- RequestDelays
  StopTimes = {100000}
INVARIANT MessagesBounded
