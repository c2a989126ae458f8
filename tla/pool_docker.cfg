SPECIFICATION FairSpec
CONSTANTS
  i1 = i1
  i2 = i2
  i3 = i3
  Installers = {i1, i2, i3}
  Pinned = {i1}
  Checked = {i1}
  RetryCount <- MCRetryCounts
  Backend = "docker"
  DaemonFaults = {}
  Signals = {"interrupt"}
  HasDeadline = FALSE
  MaxParallel = 2
  FailFast = TRUE
PROPERTIES
  PoolKeepsContract
  EveryInstallerJudged
INVARIANTS
  TypeOK
  BoundedConcurrency
  OnlyTransientRetried
  AttemptBudget
  FailuresClassified
  NoContainerLeft
  StopHasACause
