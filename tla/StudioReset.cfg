SPECIFICATION Spec
CONSTANTS
  Handlers = {h1, h2}
  MaxSessions = 2
  Faults = {}
INVARIANTS
  SessionIsOne
CHECK_DEADLOCK FALSE
