SPECIFICATION PoolCheckSpec
CONSTANTS
  i1 = i1
  i2 = i2
  Installers = {i1, i2}
  Pinned = {i2}
  Checked = {i1, i2}
  RetryCount <- MCRetryCounts
  Backend = "docker"
  DaemonFaults = {"remove", "start"}
  Signals = {"interrupt", "terminate"}
  HasDeadline = TRUE
  MaxParallel = 2
  FailFast = TRUE
  Remediate = TRUE
  Notify = TRUE
INVARIANTS
  ExitZeroMeansNoFailure
  RealFailureReported
  SummaryAgreesUnlessSignalled
  CutShortIsRecorded
