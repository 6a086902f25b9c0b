SPECIFICATION Spec
CONSTANTS
  NumNodes = 3
  IsAsync = TRUE
  Leader = 0
  QueueLimit = 0
  Value = {v1}
  MaxRequests = 4
  Lossy = FALSE
  LastServerIds = {2}
INVARIANTS
  DecisionAgreement
  DecidedOnce
  OneProposalAtATime
  RequestInOnePlace
PROPERTIES
  ImplementsAbstract
