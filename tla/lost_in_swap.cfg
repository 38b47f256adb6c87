SPECIFICATION Spec
CONSTANTS
  Writer = {w1}
  Acceptor = {a1}
  Candidate <- Offered
  Dir = {1, 2, 3}
  MaxCalls = 1
  MaxOffers = 1
  None = None
CHECK_DEADLOCK FALSE
INVARIANT AnsweredStaysInLog
