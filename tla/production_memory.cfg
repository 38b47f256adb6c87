CONSTANTS
  Process = {p, q}
  Request <- MCRequest
  Content = {x}
  MaxRecords = 2
  MaxCommits = 4
  MaxDeaths = 1
  None = None
SPECIFICATION Spec
SYMMETRY Symmetric
CHECK_DEADLOCK FALSE
INVARIANT AnsweredKnowledgeIsKept
INVARIANT OneRecordPerSource
INVARIANT UsesAreCurrentOrRecalled
PROPERTY ImplementsKnowledgeStore
