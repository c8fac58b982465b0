SPECIFICATION RepositorySpec
CONSTANTS
  Keys = {k1, k2}
  Prints = {p1, p2}
  Locks = {asAnalysed, reordered, altered}
  RequestLock = asAnalysed
  Confirmable = {asAnalysed, reordered}
  Artifacts = {a1, a2}
  Failures <- MCFailures
  None = None
INVARIANTS
  RowsConsistent
  OneActiveOperation
  RevisionAccounting
  RetryAccounting
  EndsForAReason
PROPERTIES
  VersionOneImmutable
  ImplementsLifecycle
CHECK_DEADLOCK FALSE
