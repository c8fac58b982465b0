SPECIFICATION Spec
CONSTANTS
  Workers = {w1, w2}
  Keys = {k1, k2}
  Prints = {p1, p2}
  Locks = {asAnalysed, reordered, altered}
  RequestLock = asAnalysed
  Confirmable = {asAnalysed, reordered}
  Artifacts = {a1, a2, a3}
  CriticVerdicts = {"pass", "reject"}
  FaultProfiles = {{"render", "unexpected", "database", "acknowledgement", "reread", "save", "discard", "crash"}}
  Failures <- MCFailures
  None = None
SYMMETRY Symmetry
INVARIANTS
  ClaimsHaveOneOwner
  AnswersAgreeWithRows
  OneTechnicalRetry
PROPERTIES
  ImplementsRepository
CHECK_DEADLOCK FALSE
