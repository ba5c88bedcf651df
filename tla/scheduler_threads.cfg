CONSTANTS
  t1 = t1
  t2 = t2
  h1 = h1
  h2 = h2
  Task <- TwoTasks
  Thread <- TwoThreads
  EventLoop = EventLoop
  Cron <- Daily
  Bound <- Events
SPECIFICATION Spec
INVARIANTS TypeOK NoTimerLost TimersExact
CHECK_DEADLOCK FALSE
