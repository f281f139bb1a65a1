SPECIFICATION Spec
CONSTANTS
  AgentSeq <- OneAgent
  Source <- SameSource
  Lists = {"drain"}
  Conditions = {"lag_threshold", "source_unavailable"}
  MaxTime = 8
  Cooldown = 2
  MaxPerHour = 1
  SustainFor = 2
  Hour = 6
  EmailEnabled = TRUE
CHECK_DEADLOCK FALSE
INVARIANT TypeOK
INVARIANT CooldownHolds
INVARIANT TwiceTheCeiling
INVARIANT SilenceIsBounded
INVARIANT SustainHolds
INVARIANT OneResolution
