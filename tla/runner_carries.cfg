SPECIFICATION FairSpec
CONSTANTS
  Local = {a}
  Remote = {"x"}
  MaxPairs = 1
  Inside <- Flat
  Timer = {t1}
  Manual = {window}
  Configured <- OnePair
  MaxEdits = 0
  MaxChanges = 2
  MaxHolds = 1
  MaxFails = 1
  MaxRefusals = 1
  MaxRestarts = 1
  a = a
  b = b
  t1 = t1
  t2 = t2
  window = window
PROPERTY ChangesAreCarried
CHECK_DEADLOCK FALSE
