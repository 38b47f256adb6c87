SPECIFICATION RegistersSpec
CONSTANTS
  None = None
  Process = {p1, p2}
  Request <- MCRequest
  Plan <- MCPlan
  Approval = {"A1"}
  Accepted = {"R1"}
  MaxEvents = 3
SYMMETRY Symmetry
CHECK_DEADLOCK FALSE
INVARIANTS
  ClaimsAreBacked
  AcceptedStaysReadable
PROPERTY TornBooksAreLeftAlone
