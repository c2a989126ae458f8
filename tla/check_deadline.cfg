SPECIFICATION PoolCheckSpec
CONSTANTS
  i1 = i1
  i2 = i2
  Installers = {i1, i2}
  Pinned = {i2}
  Checked = {i1, i2}
  RetryCount <- MCRetryCounts
  Backend = "docker"
  DaemonFaults = {}
  Signals = {}
  HasDeadline = TRUE
  MaxParallel = 2
  FailFast = TRUE
  Remediate = FALSE
  Notify = FALSE
INVARIANTS
  DeadlineIsNotAFailure
