SPECIFICATION Spec
CONSTANTS
  Shas = {s1, s2}
  Entries <- MCEntries
  Keeps = {1, 5}
  MaxWindow = 2
  MaxCount = 2
SYMMETRY MCSymmetry
CHECK_DEADLOCK FALSE
INVARIANTS
  BrokenMeansFailing
  DiffExplainsFailing
  RemediationsNotLost
PROPERTIES
  StaysBroken
