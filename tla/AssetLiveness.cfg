SPECIFICATION FairSpec
CONSTANTS
  Servers = {server}
  Scripts = {script}
  Assets = {a1, a2}
  Contents = {c1}
  GivenIds = {}
  AssetTTL = 1
  TombstoneTTL = 2
  Faults = {}
  MaxTime = 2
  MaxDeletes = 1
  None = None
PROPERTIES
  ExpiredAssetsRemoved
CHECK_DEADLOCK FALSE
