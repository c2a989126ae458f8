SPECIFICATION SeqFairSpec
CONSTANTS
  i1 = i1
  i2 = i2
  i3 = i3
  Installers = {i1, i2, i3}
  Pinned = {i1}
  Checked = {i1, i2}
  RetryCount <- MCRetryCounts
  Order <- MCOrder
  Backend = "local"
  DaemonFaults = {}
  Signals = {"interrupt", "terminate"}
  HasDeadline = TRUE
  FailFast = TRUE
  Remediate = TRUE
  Notify = TRUE
INVARIANTS
  SequentialStopHasACause
PROPERTIES
  SequentialRunEnds
  SequentialKeepsContract
