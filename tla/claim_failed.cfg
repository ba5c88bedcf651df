CONSTANTS
  d1 = d1
  d2 = d2
  Doc = {d1, d2}
  Tasks <- AllTasks
  Bound <- Events
SPECIFICATION Spec
INVARIANT FailureRecorded
CHECK_DEADLOCK FALSE
