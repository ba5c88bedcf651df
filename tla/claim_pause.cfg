CONSTANTS
  Table = {"orders"}
  MaxValue = 3
  MaxTies = 2
  MaxRows = 3
  Choice = {0, 2}
  BatchSize = 2
  Tasks <- SqlTasks
  Within <- PauseEvents
SPECIFICATION Spec
INVARIANT PauseLosesNothing
CHECK_DEADLOCK FALSE
