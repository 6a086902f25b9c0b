SPECIFICATION FairSpec
CONSTANTS
  NumNodes = 2
  IsAsync = FALSE
  Leader = 0
  QueueLimit = 0
  Value = {v1}
  MaxRequests = 3
  Lossy = TRUE
  LastServerIds = {1}
INVARIANTS
  RequestInOnePlace
PROPERTIES
  SlotsGoOn
  StopEndsRun
