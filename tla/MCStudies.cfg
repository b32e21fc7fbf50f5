SPECIFICATION StudySpec
CONSTANTS
  q1 = q1
  q2 = q2
  Cards <- MCCards
  Queries <- MCQueries
  Capacity = 2
  U = 6
  FalseStable = 5
  FalseUnstable = 1
  Boundary <- MCBoundary
  MinGain = 1
  MinImprovement = 1
  Divergence <- MCDivergence
  LogDivergence <- MCLogDivergence
  RegretLimit = 200
  LogLimit = 300
  Posteriors <- MCPosteriors
  Variances <- MCVariances
  Similarity <- MCSimilarity
  Pools <- MCPools
  Effects <- MCEffects
  MaxPairs = 5
  Unit = 2
  Reach = 8
  Alpha = 20
INVARIANTS
  StudyMemoriesAreOptimal
  StudyPoliciesAreOrdered
  StudyEnsIsBounded
  StudyJointIsNonanticipative
  TestKeepsItsLevel
CHECK_DEADLOCK FALSE
