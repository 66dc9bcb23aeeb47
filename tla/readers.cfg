SPECIFICATION ReadersSpec
CONSTANTS
  None = None
  MaxRefetches = 2
  MaxAutoRetries = 1
  MaxTransient = 1
  MaxThreadEvents <- ThreadEvents
  MaxSteps = 7
  MaxAsks = 2
  MaxCrashes = 1
  MaxInquiries = 2
  Runs = {"r1", "r2"}
  MaxEvents = 4
  MaxTears = 1
  Irrelevant = {4}
  MaxRelevant = 2
  MaxCached = 1
  LineageRuns = {"a", "b", "c"}
  Roles = {coder}
  MaxIds = 2
  MaxLog = 5
  MaxFaults = 1
  WindowSize = 2
  PageLimit = 2
  RetentionLimit = 4
  Slots = {1, 2}
  MaxActs <- Acts
INVARIANTS
  SummariesInOrder ThreadTellsTheLog ReadersAreFaithful InspectorTellsTheLog
PROPERTIES PaneSettles InspectorCatchesUp
CHECK_DEADLOCK FALSE
