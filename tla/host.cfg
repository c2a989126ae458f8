SPECIFICATION HostSpec
CONSTANTS
  Procs = {p1, p2}
  Nobody = nobody
  Others = {o1}
  MaxBoxes = 2
  Timeout = 1
  Limits = {1}
SYMMETRY MCSymmetry
INVARIANTS
  MutualExclusion
  NeverWedged
  HolderKeepsItsFile
  NothingLeftBehind
PROPERTIES
  LiveContainerKept
