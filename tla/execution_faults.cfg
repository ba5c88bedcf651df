CONSTANTS
  s1 = s1
  s2 = s2
  r1 = r1
  r2 = r2
  Free = Free
  Orphan = Orphan
  Slots = {s1, s2}
  Requests = {r1}
  Within <- FaultEvents
SPECIFICATION FairSpec
INVARIANTS LockOwned EngineLimit RunningRowsLive
PROPERTIES QueueDrains LockReleased
CHECK_DEADLOCK FALSE
