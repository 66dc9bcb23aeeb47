SPECIFICATION MCSpec
CONSTANTS
  MaxAutoResumes = 1
  FailureCap = 5
  MaxWork = 1
  MaxFailures = 2
  MaxFlips = 1
  MaxPauses = 1
  MaxRefusals = 1
  MaxCrashes = 1
  MaxUpsets = 4
  Jitter = {1}
  ProbeStatuses = {0}
  MaxAttempts = 3
  MaxLines = 2
  Statuses = {400, 401, 402, 403, 404, 408, 413, 429, 500}
INVARIANTS
  ProbeIsComing ResumeBudget OutputIsOfOneAttempt
PROPERTIES ResumeNeedsFreshProbe RecoveryProgresses
CHECK_DEADLOCK FALSE
