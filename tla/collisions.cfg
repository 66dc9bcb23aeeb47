SPECIFICATION CollisionsSpec
CHECK_DEADLOCK FALSE
CONSTANTS
  MaxItems = 2
  Tasks = {10}
  Questions = {1}
  MaxRuns = 3
  MaxCollisionRetries = 1
  MaxSleepers = 2
  MaxAsks = 0
  MaxAnswers = 0
  MaxCrashes = 0
  MaxLosses = 0
  MaxEdits = 1
  Lineage = {0}
  RunEvents = {"success", "error"}
INVARIANTS
  NoStall
  QueueWellFormed
