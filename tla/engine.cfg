SPECIFICATION EngineSpec
CONSTANTS
  Batches <- WorkBatches
  HandlerBatches <- HandlerReplies
  Requests <- AllRequests
  MaxAgentDepth = 1
  Cadence = 3
  MaxRecovery = 1
  MaxResumes = 1
  Budget <- EachOnce
  MaxEvents = 4
INVARIANTS AllAnswered WorkIsOnRecord ParkedBeforeWrite
PROPERTIES NoReExecution
CHECK_DEADLOCK FALSE
