SPECIFICATION FairSpec
CHECK_DEADLOCK FALSE
CONSTANTS
  MaxItems = 2
  Tasks = {10}
  Questions = {1}
  MaxRuns = 3
  MaxCollisionRetries = 3
  MaxSleepers = 1
  MaxAsks = 2
  MaxAnswers = 2
  MaxCrashes = 1
  MaxLosses = 0
  MaxEdits = 0
  Lineage = {0}
  RunEvents = {"success", "needs_clarification", "park"}
PROPERTIES
  TaskSettles
  AnswerIsHeard
