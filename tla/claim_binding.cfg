SPECIFICATION Spec
CHECK_DEADLOCK FALSE
CONSTANTS
  MaxItems = 3
  Tasks = {10}
  Questions = {1}
  MaxRuns = 1
  MaxCollisionRetries = 3
  MaxSleepers = 2
  MaxAsks = 0
  MaxAnswers = 0
  MaxCrashes = 0
  MaxLosses = 0
  MaxEdits = 0
  Lineage = {0}
  RunEvents = {"error"}
INVARIANTS
  OneItemPerRun
