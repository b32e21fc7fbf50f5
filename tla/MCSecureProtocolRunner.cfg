SPECIFICATION Spec
CONSTANTS
  a = a
  b = b
  c = c
  unmatched = unmatched
  Candidates <- MCCandidates
  Matching <- MCMatching
  Cost <- MCCost
  Budgets <- MCBudgets
  Tol = 2
  Conformal = TRUE
  MaxRuns = 2
INVARIANTS
  DecidedOnItsRecord
  OneDeviation
PROPERTIES
  PoisonedLogStaysShut
  EveryRunEnds
CHECK_DEADLOCK FALSE
