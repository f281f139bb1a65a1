SPECIFICATION Spec
CONSTANTS
  MaxId = 5
  BatchSize = 2
INVARIANT ApproximateIsLoss
