SPECIFICATION Spec
CONSTANTS
  ResumeState = {"PLANNING"}
  PlanStage = {"skipping","baselined"}
  ControlStage = {"planned","waived","passed","failed"}
  ReportTarget = {"COMPLETE", "COMPLETE_WITH_GAPS", "REJECTED"}
  ResultId = {"PR001", "PR002"}
  MaxEvents = 6
  MaxBlocked = 1
  MaxEpoch = 1
CHECK_DEADLOCK FALSE
INVARIANTS
  TerminalIsSubstantiated
  ProducedAsReadied
  PastIsSettled
