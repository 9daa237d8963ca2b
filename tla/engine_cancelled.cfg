SPECIFICATION Spec
CONSTANTS
  NumPaths = 1
  Hidden = {}
  Alt <- AltNone
  Dir = {d1}
  Syncer = {s1}
  DirOf <- OneDir
  Options <- DefaultOption
  ServerOmits = FALSE
  MaxEdits = 2
  MaxFaults = 1
  MaxClock = 100
  s1 = s1
  s2 = s2
  d1 = d1
  d2 = d2
PROPERTY NewestKeepsNewer
