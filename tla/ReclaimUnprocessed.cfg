SPECIFICATION Spec
CONSTANTS
  Consumers = {c1, task}
  c1 = c1
  Task = task
  task = task
  None = None
  MaxId = 2
  BatchSize = 2
  MinIdle = 1
  RetireIdle = 1
  ClaimBatch = 1
INVARIANT ReclaimedIsProcessed
