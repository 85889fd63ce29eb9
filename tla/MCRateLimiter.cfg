CONSTANTS
  poll = poll
  admin = admin
  visitor = visitor
  NoTask = NoTask
  Tasks <- MCTasks
  Capacity = 2
  RefillTime = 3
  Window = 7

SPECIFICATION LFairSpec

INVARIANTS
  SleepersAreServed
  Paced

PROPERTIES
  BucketSpec
  AcquireEnds
