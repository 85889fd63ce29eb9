CONSTANTS
  poll = poll
  admin = admin
  c1 = c1
  t1 = t1
  t2 = t2
  NoTask = NoTask
  NoClient = NoClient
  NoTicker = NoTicker
  Never = Never
  Poll <- poll
  Tasks <- MCTasks
  Clients <- OneClient
  Tickers <- TwoTickers
  Cooldowns <- NoCooldownOrTwo
  MinSamples = 1
  MaxJoins = 1
  MaxCycles = 1
  MaxAlerts = 1
  MaxTime = 0
  MaxEpoch = 0

SPECIFICATION FairSpec

INVARIANTS
  HeartbeatHonest

PROPERTIES
  TasksEnd
  EachGetsItsTurn
