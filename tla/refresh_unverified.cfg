SPECIFICATION Spec
CONSTANTS
  Installers = {1}
  Scripts = {1, 2}
  Keep = 1
  Users = {"check", "command"}
  MaxRefreshes = 1
  MaxNames = 1
  MaxChanges = 1
  MaxEdits = 0
CHECK_DEADLOCK FALSE
INVARIANTS
  NothingProposedUnverified
