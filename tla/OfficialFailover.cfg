SPECIFICATION Spec
CONSTANTS
  Backends = 3
  RequestTimeout = 23
  QueueTime = 2
  LeaseTime = 6
  BackendTimeout = 4
  HealthTimeout = 2
  Slack = 2
CHECK_DEADLOCK FALSE
INVARIANTS
  FairShares
  ReserveKept
  DeadlineKept
