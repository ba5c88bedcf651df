CONSTANTS
  d1 = d1
  d2 = d2
  Doc = {d1, d2}
  Tasks <- AllTasks
  Bound <- Events
SPECIFICATION FairSpec
INVARIANTS TypeOK AllOrNothing PointsTell
PROPERTY SignalEnds
CHECK_DEADLOCK FALSE
