SPECIFICATION Spec
CONSTANTS
  None = None
  Process = {p1}
  Request <- MCRequest
  Plan <- MCPlan
  Approval = {}
  Accepted = {}
  MaxEvents = 4
  Builder = {b1}
  MaxIssued = 1
  BuildRequest <- OneBuild
  Runtime <- Finishing
  Test <- MCTest
  QualityOrder <- MCQualityOrder
CHECK_DEADLOCK FALSE
INVARIANTS
  CompleteMeansVerified
  ReadyReportsWereJudged
