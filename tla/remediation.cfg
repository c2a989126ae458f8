SPECIFICATION Spec
CONSTANTS
  CostLimit = 3
  MaxRetries = 3
  FailureThreshold = 2
  SuccessThreshold = 2
  BreakerTimeout = 2
  MaxTokens = 1
  NumResults = 3
  MaxAttempts = 2
INVARIANTS
  SpendStaysNearLimit
  BreakerShedsLoad
  OnlyVerifiedLands
  RejectedLeavesNothing
  CostsAddUp
PROPERTIES
  EveryFailureSettled
