CONSTANTS
  p1 = p1
  p2 = p2
  Partition <- TwoPartitions
  MaxOffset = 3
  BatchSize = 2
  Resets = {"earliest", "latest"}
  Poisons <- NoneOrOne
  Bound <- Once
SPECIFICATION FairSpec
INVARIANTS TypeOK CommittedIsStored
PROPERTIES Delivers EveryMessageStored
CHECK_DEADLOCK FALSE
