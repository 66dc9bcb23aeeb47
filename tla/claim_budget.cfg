SPECIFICATION ClaimSpec
CONSTANTS
  MaxAutoResumes = 1
  FailureCap = 5
  MaxWork = 1
  MaxFailures = 2
  MaxFlips = 0
  MaxPauses = 1
  MaxRefusals = 0
  MaxCrashes = 0
  MaxUpsets = 3
  Jitter = {1}
  ProbeStatuses = {0}
INVARIANTS BudgetIsRetained
CHECK_DEADLOCK FALSE
