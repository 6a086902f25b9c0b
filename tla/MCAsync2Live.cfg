SPECIFICATION FairSpec
CONSTANTS
  NumNodes = 2
  IsAsync = TRUE
  Leader = 0
  QueueLimit = 1
  Value = {v1}
  MaxRequests = 5
  Lossy = FALSE
  LastServerIds = {0, 1}
PROPERTIES
  ProposedIsLearnedByAll
  WaitingIsLearned
  StopEndsRun
