SPECIFICATION PlannedSpec
CONSTANTS
  draft = draft
  publish = publish
  release = release
  Task = {draft, publish}
  Holder = {h1, h2}
  EffectKey = {k1, k2}
  Target = {release}
  Approval <- MCApproval
  PlannedStatus <- MCPlannedStatus
  DependsOn <- MCDependsOn
  Requires <- MCRequires
  HumanRequired = {publish}
  Supplied = {draft, publish}
  EarliestStart <- MCEarliestStart
  Rank <- MCRank
  MaxAttempts = 2
  MaxTime = 3
  MaxDelay = 1
  LeaseLengths = {1, 2}
  MaxRevisions = 1
  NoHolder = NoHolder
  Unused = Unused
  Absent = Absent
  Calendars <- MCCalendars
  Handoffs <- MCHandoffs
  NumberOf <- MCNumberOf
SYMMETRY Symmetric
CHECK_DEADLOCK FALSE
INVARIANTS
  TypeOK
  UnresolvedEffectPinsTask
  WorkedAfterDependencies
  DoneIsClean
  CriticalPathIsLongest
  WrittenPlansCanStart
  CoveredHasAPath
PROPERTIES
  LeaseNotStolen
  LateWorkerHasNoEffect
  OutcomeIsFinal
  EffectStartsApproved
  ImplementsExclusiveExecution
