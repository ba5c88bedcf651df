CONSTANTS
  m1 = m1
  m2 = m2
  m3 = m3
  Message <- Three
  RowOf <- TwinRowOf
  Poison <- OnePoison
  Prefetch = 2
  BatchSize = 2
  Bound <- Once
SPECIFICATION FairSpec
INVARIANTS TypeOK AnswerDue GoodNotBuried
PROPERTIES Delivers QueueEmptied
CHECK_DEADLOCK FALSE
