SPECIFICATION FairSpec
CONSTANTS
  NumPaths = 1
  Hidden = {}
  Alt <- AltNone
  Dir = {d1, d2}
  Syncer = {s1, s2}
  DirOf <- OwnDir
  Options <- DefaultOption
  ServerOmits = FALSE
  MaxEdits = 2
  MaxFaults = 1
  MaxClock = 100
  s1 = s1
  s2 = s2
  d1 = d1
  d2 = d2
PROPERTY Converges
