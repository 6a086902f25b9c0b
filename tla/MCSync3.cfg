SPECIFICATION Spec
CONSTANTS
  NumNodes = 3
  IsAsync = FALSE
  Leader = 0
  QueueLimit = 1
  Value = {v1, v2}
  MaxRequests = 2
  Lossy = FALSE
  LastServerIds = {2}
INVARIANTS
  TypeOK
  DecidedByMajority
  DecisionAgreement
  DecidedOnce
  ProposerLogIsComplete
  LogIsOrdered
PROPERTIES
  DecisionsStay
  ImplementsAbstract
SYMMETRY ValueSymmetry
