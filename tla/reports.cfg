SPECIFICATION Spec
CONSTANTS
  NumInstallers = 1
  Categories = {network, checksum}
  Keep = 2
  MaxRuns = 3
  MaxIssues = 2
  Senders <- MCSenders
SYMMETRY Alike
CHECK_DEADLOCK FALSE
INVARIANTS
  HistoryIsTrue
  OneIssueUndisturbed
  IssueTracksLatest
  DigestTellsLatest
