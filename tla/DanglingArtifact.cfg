SPECIFICATION Spec
CONSTANTS
  Workers = {w1}
  Keys = {k1}
  Prints = {p1}
  Locks = {asAnalysed, reordered}
  RequestLock = asAnalysed
  Confirmable = {asAnalysed, reordered}
  Artifacts = {a1, a2, a3}
  CriticVerdicts = {"pass"}
  FaultProfiles = {{"reread"}}
  Failures <- MCFailures
  None = None
INVARIANTS
  CommittedVersionsKeepArtifacts
CHECK_DEADLOCK FALSE
