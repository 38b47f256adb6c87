SPECIFICATION FairSpec
CONSTANTS
  Process = {p1, p2}
  Observer = {o1}
  Key = {k1, k2}
  KeyFirst = {claim}
  GuardFirst = {complete}
  Unguarded = {approve}
  MaxCalls = 2
  Nobody = Nobody
CHECK_DEADLOCK FALSE
INVARIANTS
  GuardedOnce
  AnsweredIsDurable
PROPERTIES
  CorruptLogIsLeftAlone
  CallsReturn
  ImplementsAtomicLog
