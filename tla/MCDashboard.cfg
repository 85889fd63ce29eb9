CONSTANTS
  poll = poll
  admin = admin
  test = test
  none = none
  low = low
  high = high
  Poll <- poll
  Admin <- admin
  Prices <- MCPrices
  TestPrice <- test
  NoPrice <- none
  Stored = 2
  PageLimit = 2
  MaxTicks = 1
  MaxAlerts = 3
  MaxBreaks = 2

SPECIFICATION FairSpec

CHECK_DEADLOCK FALSE

INVARIANTS
  TypeOK
  NewAlertsListedOnce
  LoadedBelowLive
  PriceSettles

PROPERTIES
  PageComesBack
