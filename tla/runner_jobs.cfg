SPECIFICATION Spec
CONSTANTS
  Local = {a, b}
  Remote = {"x"}
  MaxPairs = 2
  Inside <- Flat
  Timer = {t1}
  Manual = {}
  Configured <- TwoPairs
  MaxEdits = 2
  MaxChanges = 1
  MaxHolds = 0
  MaxFails = 0
  MaxRefusals = 1
  MaxRestarts = 1
  a = a
  b = b
  t1 = t1
  t2 = t2
  window = window
INVARIANT TypeOK
INVARIANT OneRunPerPair
INVARIANT RunningIsExact
INVARIANT WatchedAreArmed
INVARIANT BadgeTells
CHECK_DEADLOCK FALSE
