SPECIFICATION Spec
CONSTANTS
  Workers = {w1, w2}
  Keys = {k1, k2}
  Prints = {p1}
  Locks = {asAnalysed, reordered, altered}
  RequestLock = asAnalysed
  Confirmable = {asAnalysed, reordered}
  Artifacts = {a1, a2, a3}
  CriticVerdicts = {"pass", "reject"}
  FaultProfiles = {{"render", "save"}, {"render", "unexpected", "database"}}
  Failures <- MCFailures
  None = None
INVARIANTS
  ReferencedArtifactsStored
  NoOrphansAtRest
PROPERTIES
  AnalysisIsSettled
  OperationsAreSettled
CHECK_DEADLOCK FALSE
