SPECIFICATION FairSpec
CONSTANTS
  home = home
  cafe = cafe
  none = none
  Networks <- TwoNetworks
  Long <- LongNames
  None <- none
  MaxRetry = 3
  MaxOps = 3
  MaxTroubles = 1
CHECK_DEADLOCK FALSE
INVARIANTS
  TypeOK
  NamedIsLinked
PROPERTIES
  OkIsTrue
  TriesBeforeFailure
  AttemptEnds
  OffIsClean
  Implements
