SPECIFICATION Spec
CONSTANTS
  NumPaths = 2
  Hidden = {}
  Alt <- AltNext
  Dir = {d1}
  Syncer = {s1}
  DirOf <- OneDir
  Options <- EveryOption
  ServerOmits = FALSE
  MaxEdits = 3
  MaxFaults = 1
  MaxClock = 6
  s1 = s1
  s2 = s2
  d1 = d1
  d2 = d2
PROPERTY NewestKeepsNewerAlone
CHECK_DEADLOCK FALSE
