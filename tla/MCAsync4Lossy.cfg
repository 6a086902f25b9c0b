SPECIFICATION Spec
CONSTANTS
  NumNodes = 4
  IsAsync = TRUE
  Leader = 0
  QueueLimit = 0
  Value = {v1}
  MaxRequests = 1
  Lossy = TRUE
  LastServerIds = {3}
INVARIANTS
  DecidedByMajority
  VotingInv
  VotesAreCast
  CompleteOnMajority
