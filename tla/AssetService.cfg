SPECIFICATION Spec
CONSTANTS
  Servers = {server}
  Scripts = {script}
  Assets = {a1, a2}
  Contents = {c1}
  GivenIds = {}
  AssetTTL = 1
  TombstoneTTL = 2
  Faults = {"disk", "crash"}
  MaxTime = 2
  MaxDeletes = 1
  None = None
INVARIANTS
  KeptUntilExpiry
  DeletionComplete
PROPERTIES
  ImplementsItemLifecycle
SYMMETRY Symmetry
CHECK_DEADLOCK FALSE
