CONSTANTS
  Table = {"orders", "users"}
  MaxValue = 3
  MaxTies = 2
  MaxRows = 3
  Choice = {0, 2}
  BatchSize = 2
  Tasks <- AllTasks
  Within <- FaultEvents
SPECIFICATION FairSpec
INVARIANTS TypeOK NothingSkipped
PROPERTIES KeepsTableCopy EveryRowArrives
CHECK_DEADLOCK FALSE
