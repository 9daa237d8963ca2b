SPECIFICATION FairSpec
CONSTANTS
  Local = {a}
  Remote = {"x"}
  MaxPairs = 2
  Inside <- Flat
  Timer = {t1, t2}
  Manual = {}
  Configured <- OneWatched
  MaxEdits = 0
  MaxChanges = 2
  MaxHolds = 0
  MaxFails = 0
  MaxRefusals = 0
  MaxRestarts = 0
  a = a
  b = b
  t1 = t1
  t2 = t2
  window = window
PROPERTY DetectedAreCarried
CHECK_DEADLOCK FALSE
