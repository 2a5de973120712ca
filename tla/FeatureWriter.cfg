SPECIFICATION FairSpec
CONSTANTS
  Conns = {x1, x2}
  QueueCapacity = 1
  BatchSize = 2
  StoreMayFail = TRUE
  MaxRestarts = 1
INVARIANTS TypeOK DirectPathInOrder
PROPERTIES TableUsed SamplesFollowSnapshots
