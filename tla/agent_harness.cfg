SPECIFICATION Spec
CONSTANTS
  None = None
  Invoker = {p1, p2}
  Run = {r1}
  Answer <- MCAnswer
  MaxSteps = 2
  MaxInvocations = 2
  GrantTime = 1
  MaxTime = 1
  MaxAttempt = 1
  HandNumbers = {2}
  Apart <- MCApart
  Together <- MCTogether
SYMMETRY Symmetry
CHECK_DEADLOCK FALSE
INVARIANTS
  WorkerCallsBounded
  SettledRunsAreRecorded
PROPERTY PeopleAreObeyed
