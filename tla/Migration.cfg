SPECIFICATION Spec
CONSTANTS
  Servers = {s1, s2}
  Runs = {r1, r2}
  MaxCrashes = 3
INVARIANTS
  ReadyMeansMigrated
PROPERTIES
  StartsConverge
CHECK_DEADLOCK FALSE
