SPECIFICATION FairSpec
CONSTANTS
  ListCap = 2
  Delay = 1
  Skew = 1
  Unstamped = TRUE
  Lossy = TRUE
  MaxPeriod = 3
  MaxPush = 3
  MaxBoots = 2
CHECK_DEADLOCK FALSE
INVARIANT TypeOK
INVARIANT EveryEntryIsCounted
INVARIANT PeriodsAdvance
PROPERTY PeriodCloses
PROPERTY FullListIsDrained
