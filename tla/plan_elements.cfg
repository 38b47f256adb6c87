SPECIFICATION LiveSpec
CHECK_DEADLOCK FALSE
CONSTANTS
  Media = {"physical", "digital"}
  Required <- MCRequired
  Tasks <- MCTasks
  Physical = {"physical"}
  Gaps <- MCGaps
  Blocking = {}
  MaxAttempts = 2
  Hard <- MCHard
  MaxDeaths = 1
  MaxEdits = 1
  None = None
  Foreign = Foreign
INVARIANTS
  EveryAttemptIsAnAnswer
PROPERTIES
  OutsideChangesStopTheRun
  RunSettles
