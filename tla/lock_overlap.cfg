SPECIFICATION Spec
CONSTANTS
  Procs = {p1, p2}
  Nobody = nobody
SYMMETRY MCSymmetry
INVARIANTS
  MutualExclusion
