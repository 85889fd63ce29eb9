CONSTANTS
  poll = poll
  admin = admin
  t1 = t1
  NoTask = NoTask
  Tasks <- MCTasks
  Reporter <- poll
  Tickers <- OneTicker
  Capacity = 1
  RefillTime = 2
  TTL = 1
  MaxAttempts = 2
  MaxOwed = 3
  Window = 0

SPECIFICATION FairSpec

INVARIANTS
  TypeOK
  EachCountedOnce

PROPERTIES
  FetchEnds
