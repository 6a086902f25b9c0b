SPECIFICATION Spec
CONSTANTS
  NumNodes = 3
  IsAsync = TRUE
  Leader = 0
  QueueLimit = 1
  Value = {v1}
  MaxRequests = 1
  Lossy = FALSE
  LastServerIds = {2}
INVARIANT IdleLeaderWaits
