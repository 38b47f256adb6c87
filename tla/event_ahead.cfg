SPECIFICATION FairSpec
CONSTANTS
  Process = {p1}
  Observer = {o1}
  Key = {k1}
  KeyFirst = {claim}
  GuardFirst = {complete}
  Unguarded = {approve}
  MaxCalls = 2
  Nobody = Nobody
CHECK_DEADLOCK FALSE
PROPERTY CrashedEventIsProjected
