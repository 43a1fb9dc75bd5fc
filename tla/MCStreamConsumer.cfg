SPECIFICATION Spec
CONSTANTS
  w1 = w1
  w2 = w2
  Workers = {w1, w2}
  BatchSize = 2
  MaxRetries = 1
  ClaimTimeout = 2
  MaxLen = 1
  MaxPublished = 2
  MaxFaults = 2
SYMMETRY Symmetry
INVARIANTS
  TypeOK
  OverlapOnlyAfterTimeout
PROPERTIES
  AtLeastOnce
