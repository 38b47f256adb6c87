SPECIFICATION FairSpec
CONSTANTS
  draft = draft
  publish = publish
  catalogue = catalogue
  release = release
  Task = {draft, publish, catalogue}
  Holder = {h1, h2}
  EffectKey = {k1}
  Target = {release}
  Approval <- MCApproval
  PlannedStatus <- MCPlannedStatus
  DependsOn <- MCDependsOn
  Requires <- MCRequires
  HumanRequired = {publish}
  Supplied = {draft, publish, catalogue}
  EarliestStart <- MCEarliestStart
  Rank <- MCRank
  MaxAttempts = 2
  MaxTime = 2
  MaxDelay = 1
  LeaseLengths = {1}
  MaxRevisions = 1
  NoHolder = NoHolder
  Unused = Unused
CHECK_DEADLOCK FALSE
PROPERTY
  PlanDrains
