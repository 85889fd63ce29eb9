CONSTANTS
  poll = poll
  admin = admin
  c1 = c1
  t1 = t1
  t2 = t2
  NoTask = NoTask
  NoClient = NoClient
  NoTicker = NoTicker
  Never = Never
  Poll <- poll
  Tasks <- MCTasks
  Clients <- OneClient
  Tickers <- OneTicker
  Cooldowns <- NoCooldownOrOne
  MinSamples = 1
  MaxJoins = 1
  MaxCycles = 2
  MaxAlerts = 2
  MaxTime = 1
  MaxEpoch = 1

SPECIFICATION Spec

INVARIANTS
  TypeOK
  CooldownSilence
  TickAlertsOnce
  AlertsAreWarm
  BaselineHasHistory

PROPERTIES
  DebounceSpec
  SilenceHasCause
  AlertsReachSlack
