SPECIFICATION PageSpec
CONSTANTS
  Ids = {a, b}
  HistoryLimit = 1
  Runs = {r1, r2}
  Slots = {1, 2}
  MaxReplicas = 1
  MaxVersion = 1
  MaxEvents <- Events
  MaxRuns = 2
  MaxConns = 3
  MaxAttempts = 2
  MaxDeltas = 2
  MaxSelects = 2
  Null = Null
  WatchRuns = {1, 2}
  MaxWatchEvents <- WatchEvents
  ItemRun = 1
  Questions = {"q1", "q2"}
  BothAtOnce = FALSE
  SuppressedLimit = 2
  MaxPromptEvents <- PromptEvents
INVARIANTS RevisionNamesState OneFlight PartialIsContinuous OneSocket
PROPERTIES PageFollows PopsOnEvidence ViewFollowsTheRun HandledStaysClosed PromptsCatchUp
CHECK_DEADLOCK FALSE
