SPECIFICATION Spec
CONSTANTS
  Writer = {w1}
  Acceptor = {a1, a2}
  Candidate <- Offered
  Dir = {1, 2, 3}
  MaxCalls = 2
  MaxOffers = 1
  None = None
SYMMETRY Interchangeable
CHECK_DEADLOCK FALSE
INVARIANTS
  OneContentPerRevision
  AcceptedIsKept
  SwapsInOneMoment
  QuietAcceptanceLosesNothing
