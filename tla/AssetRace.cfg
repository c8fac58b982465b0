SPECIFICATION Spec
CONSTANTS
  Servers = {s1, s2}
  Scripts = {}
  Assets = {a1}
  Contents = {c1, c2}
  GivenIds = {a1}
  AssetTTL = 1
  TombstoneTTL = 3
  Faults = {"disk", "crash"}
  MaxTime = 1
  MaxDeletes = 1
  None = None
PROPERTIES
  DeletedStaysDeleted
SYMMETRY Symmetry
CHECK_DEADLOCK FALSE
