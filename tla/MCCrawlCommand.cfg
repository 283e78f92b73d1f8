CONSTANTS
  Main = main
  Workers = {w1, w2}
  NGroups = 3
  Malformed <- MCMalformed
  SubscriptionOf <- MCSubscriptionOf
  Unknown = "unknown"
  MaxThrottleAttempts = 2
  MaxCeiling = 2
  SuccessesPerIncrease = 2
  Clients = {c1, c2}
  Streams <- MCStreams
  Requests <- MCRequests
  Backlog = 2
  Waker = waker
  Nobody = nobody
  Flags = {"snapshot", "out", "serve"}
SPECIFICATION CommandSpec
INVARIANTS
  CompleteUnlessPartial
  SubscriptionObserved
  PermitsOnlyInCalls
  SnapshotWhole
  OutputsAgree
PROPERTIES
  CrawlTerminates
  ImplementsContract
  EveryoneAnswered
  ShutdownReturns
CHECK_DEADLOCK FALSE
