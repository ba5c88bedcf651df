CONSTANTS
  c1 = c1
  c2 = c2
  c3 = c3
  Caller <- Three
  StartWaits = {FALSE, TRUE}
  MaxConsumers = 5
  Bound <- Twice
SPECIFICATION FairSpec
INVARIANTS TypeOK OneConsumer
PROPERTIES DisableTellsAll StartEnds
CHECK_DEADLOCK FALSE
