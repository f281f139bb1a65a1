SPECIFICATION Spec
CONSTANTS
  Agents = {a1, p1}
  Periodic = {p1}
  a1 = a1
  p1 = p1
  RestartInitial = 1
  RestartMax = 4
  DegradedAfter = 3
  MaxFailures = 4
  MaxEnding = 2
CHECK_DEADLOCK FALSE
INVARIANT PanicIsContained
