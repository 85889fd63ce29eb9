CONSTANTS
  poll = poll
  admin = admin
  t1 = t1
  NoTask = NoTask
  Tasks <- MCTasks
  Reporter <- poll
  Tickers <- OneTicker
  Capacity = 1
  RefillTime = 2
  TTL = 1
  MaxAttempts = 2
  MaxOwed = 2
  Window = 3

SPECIFICATION Spec

INVARIANTS
  CallsArePaced
