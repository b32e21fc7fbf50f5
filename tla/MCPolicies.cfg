SPECIFICATION MCPoliciesSpec
CONSTANTS
  Grid <- MCGrid
  Scale <- MCScale
  BlockCount <- MCBlockCount
  Critical2 <- MCCritical2
  Systems <- MCSystems
  Policies <- MCPolicyNames
  Thresholds <- MCThresholds
  Radii <- MCRadii
  Evaluated <- MCEvaluated
  Tolerance = 0
  Epsilon = 1
  Level = 50
INVARIANTS
  SimulationIsFaithful
  LookaheadIsExact
  ReplacementsPay
  EvaluationAgrees
PROPERTIES
  DeviationsPaySomewhere
  CertificatesAreKept
CHECK_DEADLOCK FALSE
