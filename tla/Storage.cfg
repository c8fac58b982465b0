SPECIFICATION MCSpec
CONSTANTS
  Assets = {a1}
  Deletions = {d1, d2}
  Second = 2
  TTL = 4
  MaxTime = 7
  MaxLate = 2
  None = None
  Pictures = {p1, p2}
  Callers = {c1}
  Limit = 2
  Window = 2
  MaxTick = 5
  NoEntry = NoEntry
INVARIANTS
  CloudDeletionComplete
  ClosedOrWhole
  CapabilitiesCoverAds
  ReferencedPicturesLoad
  BurstsAreBounded
PROPERTIES
  AdsImplementItemLifecycle
  PicturesImplementItemLifecycle
CHECK_DEADLOCK FALSE
