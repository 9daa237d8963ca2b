SPECIFICATION Spec
CONSTANTS
  NumPaths = 1
  Hidden = {}
  Alt <- AltNone
  Dir = {d1}
  Syncer = {s1}
  DirOf <- OneDir
  Options <- SkipOption
  ServerOmits = FALSE
  MaxEdits = 3
  MaxFaults = 0
  MaxClock = 100
  s1 = s1
  s2 = s2
  d1 = d1
  d2 = d2
PROPERTY SkipLeavesBothUntouched
