CONSTANTS
  Main = main
  Workers = {w1, w2}
  NGroups = 3
  Malformed <- MCMalformed
  SubscriptionOf <- MCSubscriptionOf
  Unknown = "unknown"
  MaxThrottleAttempts = 2
  MaxCeiling = 2
  SuccessesPerIncrease = 2
SPECIFICATION Spec
INVARIANTS
  PartialUnlessObserved
CHECK_DEADLOCK FALSE
