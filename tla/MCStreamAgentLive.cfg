SPECIFICATION FairSpec
CONSTANTS
  Consumers = {c1}
  None = None
  c1 = c1
  MaxId = 2
  NDests = 1
  MaxAttempts = 3
  Timeout = 1
  BackoffInitial = 1
  BackoffMax = 1
  BatchSize = 2
INVARIANT DoIsBounded
INVARIANT CutWorkIsNotAcked
PROPERTY ReadIsResolved
PROPERTY BacklogIsRead
PROPERTY SignalStops
