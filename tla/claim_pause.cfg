SPECIFICATION EngineSpec
CONSTANTS
  Batches <- OneCall
  HandlerBatches <- OneCall
  Requests <- NoRequests
  MaxAgentDepth = 1
  Cadence = 3
  MaxRecovery = 1
  MaxResumes = 0
  Budget <- OncePaused
  MaxEvents = 3
INVARIANTS PauseHasNoPending
CHECK_DEADLOCK FALSE
