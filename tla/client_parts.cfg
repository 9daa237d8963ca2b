SPECIFICATION Spec
CONSTANTS
  n1 = n1
  n2 = n2
  w1 = w1
  w2 = w2
  Parts = {"alone", "commands", "both", "mount", "deep", "uploads", "camera", "shutter", "session", "servers", "explorer"}
  Id = {1, 2, 3}
  Kind = {"label", "link", "grant", "inbound", "theirs", "photo"}
  Name = {"a", "b", "x", "y"}
  Data = {"d", "cut"}
  MaxTries = 2
  MaxLost = 2
  Cli = {n1, n2}
  Lists <- IdLists
  Into = {1}
  NewNames = {"b"}
  Handler = {n1, n2}
  Asks <- Requests
  Cut = "cut"
  MaxRequests = 3
  Args <- Arguments
  Bodies <- Contents
  Jobs = 2
  Batch = 1
  Large = 1
  MaxRuns = 2
  MaxEdits = 1
  MaxFailures = 1
  Photo = {w1, w2}
  Full = 2
  MaxShots = 2
  MaxTicks = 4
  Actor = {n1, n2}
  Web = {w1, w2}
  Person = {w1, w2}
  MaxToken = 2
  MaxFaults = 1
  Clicks <- ClickedPaths
  Shelf <- OnePair
  Excluded = {"b"}
  Media = {"x"}
  Lower <- NoCase
  MaxVerbs = 2
SYMMETRY Symmetry
INVARIANTS
  CommandsTypeOK AuditIsTrue TornIsExplained
  BridgeTypeOK ReportedIsDone ReadOnlyHolds MutexIsFreed
  PoolTypeOK LedgerIsTrue SentOnce AssembledIsWhole CountsAddUp
  HalvesStayHere DoneWasSent
  StoredIsVerified
  LandedWhereItLay
PROPERTIES
  SeesWhatItChanges PurgesOnlyTrash
  OwnWritesSeen MountLosesNothing
  RemovedIsKept
  ClearsOnlyRejected WipeLeavesNothing
CHECK_DEADLOCK FALSE
