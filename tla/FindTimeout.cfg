SPECIFICATION FairSpec
CONSTANTS
  NumNodes = 3
  IsAsync = TRUE
  Leader = 0
  QueueLimit = 1
  Value = {v1}
  MaxRequests = 1
  Lossy = TRUE
  LastServerIds = {2}
PROPERTY TimeoutReproposes
