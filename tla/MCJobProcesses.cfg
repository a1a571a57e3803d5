SPECIFICATION Spec
CONSTANTS
  Jobs = {j1}
  Names = {n1}
  Registered = {n1}
  Payloads = {p1}
  Queues = {q1}
  Workers = {w1, w2}
  Slots = 1
  Attempts = 2
  HandlerTimeout = 1
  Concurrency <- MCConcurrency
  MaxAttempts <- MCMaxAttempts
  Timeout <- MCTimeout
  StaleThreshold = 3
  DrainTimeout = 1
  Retention = 0
  BackoffBase = 1
  BackoffCap = 2
  ClaimLag = 1
  WriteDelay = 1
  MaxDelay = 0
  MaxTime = 5
  MaxStops = 1
SYMMETRY Symmetry
INVARIANTS TypeOK NoOverlappingExecution TasksOwnTheirRows
PROPERTIES ImplementsLifecycle
