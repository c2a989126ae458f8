SPECIFICATION Spec
CONSTANTS
  Installers = {1, 2}
  Scripts = {1, 2}
  Keep = 1
  Users = {"check", "command"}
  MaxRefreshes = 2
  MaxNames = 2
  MaxChanges = 1
  MaxEdits = 1
CHECK_DEADLOCK FALSE
INVARIANTS
  BranchIsTested
  BaselineSurvives
PROPERTIES
  OutcomesMatchRemote
