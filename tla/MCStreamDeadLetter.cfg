SPECIFICATION Spec
CONSTANTS
  w1 = w1
  w2 = w2
  Workers = {w1}
  BatchSize = 2
  MaxRetries = 1
  ClaimTimeout = 1
  MaxLen = 2
  MaxPublished = 1
  MaxFaults = 0
INVARIANTS
  FailedIsDeadLettered
