SPECIFICATION MCSpec
CONSTANTS
  Grid <- MCGrid
  Scale <- MCScale
  BlockCount <- MCBlockCount
  Critical2 <- MCCritical2
  Systems <- MCSystems
  Policies <- MCPolicyNames
  Thresholds <- MCThresholds
  Radii <- MCRadii
INVARIANTS
  EveryPolicySelects
CHECK_DEADLOCK FALSE
