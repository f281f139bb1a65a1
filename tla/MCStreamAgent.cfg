SPECIFICATION Spec
CONSTANTS
  Consumers = {c1, c2}
  None = None
  c1 = c1
  c2 = c2
  MaxId = 2
  NDests = 2
  MaxAttempts = 1
  Timeout = 0
  BackoffInitial = 0
  BackoffMax = 0
  BatchSize = 2
SYMMETRY InstanceSymmetry
INVARIANT TypeOK
INVARIANT GivenIsAccountedFor
INVARIANT InFlightIsOwned
INVARIANT AckedIsResolved
PROPERTY ImplementsLedger
