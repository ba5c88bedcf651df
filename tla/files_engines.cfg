CONSTANTS
  f1 = f1
  f2 = f2
  File <- TwoFiles
  Content <- AB
  Initial <- OnlyA
  Engines <- AllEngines
  Bound <- Events
SPECIFICATION FairSpec
INVARIANTS TypeOK StampNamesContent
PROPERTY EveryFileCollected
CHECK_DEADLOCK FALSE
