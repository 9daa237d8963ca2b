SPECIFICATION Spec
CONSTANTS
  NumPaths = 3
  Hidden = {3}
  Alt <- AltNext
  Dir = {d1}
  Syncer = {s1}
  DirOf <- OneDir
  Options <- EveryOption
  ServerOmits = TRUE
  MaxEdits = 2
  MaxFaults = 1
  MaxClock = 5
  s1 = s1
  s2 = s2
  d1 = d1
  d2 = d2
INVARIANT TypeOK
INVARIANT CleanPassSyncs
PROPERTY NeverDeletes
PROPERTY DirectionRespected
PROPERTY SkipLeavesBothAlone
CHECK_DEADLOCK FALSE
