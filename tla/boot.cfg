SPECIFICATION BootSpec
CHECK_DEADLOCK FALSE
CONSTANTS
  MaxItems = 1
  Tasks = {10, 20}
  Questions = {1}
  MaxRuns = 2
  MaxCollisionRetries = 1
  MaxSleepers = 1
  MaxAsks = 2
  MaxAnswers = 2
  MaxCrashes = 2
  MaxLosses = 1
  MaxEdits = 1
  Lineage = {0}
  RunEvents = {"success", "needs_clarification", "park", "write"}
INVARIANTS
  BootKeepsTheFile
  ParkedIsClean
  AdoptedIsResumable
PROPERTIES
  NewestWins
