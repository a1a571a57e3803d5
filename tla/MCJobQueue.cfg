SPECIFICATION FairSpec
CONSTANTS
  Jobs = {j1, j2}
  Names = {n1}
  Registered = {n1}
  Payloads = {}
  Queues = {q1}
  Workers = {w1}
  Slots = 1
  Attempts = 2
  HandlerTimeout = 1
  Concurrency <- MCConcurrency
  MaxAttempts <- MCMaxAttempts
  Timeout <- MCTimeout
  StaleThreshold = 1
  DrainTimeout = 1
  Retention = 0
  BackoffBase = 1
  BackoffCap = 2
  ClaimLag = 0
  WriteDelay = 0
  MaxDelay = 0
  MaxTime = 2
  MaxStops = 1
INVARIANTS ConcurrencyRespected
PROPERTIES ClaimedIsDispatched DueIsClaimed OrphanIsRecovered
