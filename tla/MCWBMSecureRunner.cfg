SPECIFICATION Spec
CONSTANTS
  a = a
  b = b
  c = c
  d = d
  e = e
  f = f
  Queries <- MCQueries
  Cost <- MCCost
  Matching <- MCMatching
  Universe <- MCUniverse
  Energy <- MCEnergy
  Threshold <- MCThreshold
  HullAt <- MCHullAt
  AsOf <- MCAsOf
  ObservedAt <- MCObservedAt
  Budgets = {1, 4}
  Checks = {1, 3, 4}
  Capacity = 2
  Strategy = "persistent"
  Tol = 0
  FinalTol = 1
INVARIANTS
  JudgedCausally
  ReplayIsExact
PROPERTIES
  ExactEmulation
CHECK_DEADLOCK FALSE
