SPECIFICATION FairSpec
CONSTANTS
  Handlers = {h1, h2}
  MaxSessions = 2
  Faults = {"error", "lost", "revision", "unrecorded"}
INVARIANTS
  VisibleIsPublished
  RetryIsAuthorized
  PageNeverConflicts
PROPERTIES
  OnlyLateAnswersMixSessions
  BusyEnds
  ServersFollowLifecycle
CHECK_DEADLOCK FALSE
