CONSTANTS
  Prices <- MCPrices
  Volumes <- MCVolumes
  Spreads <- MCSpreads
  ZThresholds <- MCZThresholds
  StaleThresholds <- MCStaleThresholds
  MinSamples = 3
  FloorInverse = 6
  Unit = 60
  MaxTicks = 5

SPECIFICATION Spec

CHECK_DEADLOCK FALSE

INVARIANTS
  TypeOK
  BaselineIsHistory
  SyntheticCrosses

PROPERTIES
  RescanSpec
  BackfillIsDampened
