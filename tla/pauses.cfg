SPECIFICATION Spec
CHECK_DEADLOCK FALSE
CONSTANTS
  MaxItems = 2
  Tasks = {10}
  Questions = {1}
  MaxRuns = 2
  MaxCollisionRetries = 1
  MaxSleepers = 1
  MaxAsks = 1
  MaxAnswers = 1
  MaxCrashes = 1
  MaxLosses = 0
  MaxEdits = 0
  Lineage = {0}
  RunEvents = {"success", "error", "suspend", "pause", "park"}
INVARIANTS
  TypeOK
  SingleRun
  FileMatchesRuns
  PausedIsResumable
  BlockedIsProbed
PROPERTIES
  PausePriority
  LifecycleSpec
