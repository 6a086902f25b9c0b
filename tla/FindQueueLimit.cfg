SPECIFICATION Spec
CONSTANTS
  NumNodes = 2
  IsAsync = FALSE
  Leader = 0
  QueueLimit = 1
  Value = {v1}
  MaxRequests = 4
  Lossy = FALSE
  LastServerIds = {1}
INVARIANT QueueWithinLimit
