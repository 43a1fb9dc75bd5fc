SPECIFICATION Spec
CONSTANTS
  w1 = w1
  w2 = w2
  Workers = {w1}
  BatchSize = 1
  MaxRetries = 1
  ClaimTimeout = 1
  MaxLen = 3
  MaxPublished = 2
  MaxFaults = 1
PROPERTIES
  FailingDoNotBlock
