SPECIFICATION MCEvidenceSpec
CONSTANTS
  Target = "r2scan"
  Protocols <- MCProtocols
  StructureOf <- MCStructureOf
  PairSystem <- MCPairSystem
  ErrorTables <- MCErrorTables
  Intercepts = {1}
  Groupings <- MCGroupings
  Alpha = 34
  MinimumCalibration = 3
  Raw <- MCRaw
  Queries <- MCQueries
  Similarity <- MCSimilarity
  MaxNeighbors = 2
  Gates = {0, 1, 9}
  NoGate = 9
  Residuals <- MCResiduals
  MaxMaps = 2
  MaxArchive = 3
  SystemOf <- LSystemOf
  ParentOf <- LParentOf
  CompositionOf <- LCompositionOf
  ElementsOf <- LElementsOf
  Hash <- LHash
  Releases <- LReleases
  Sizes <- LSizes
  Folds = 2
  Bins = 1
  MinimumCandidates = 2
  Fractions = {50}
  FoldChoices <- LFoldChoices
  CurveSystems = 2
  CurveCandidates = 3
  CurveCompositions = 3
  LineLength = 6
  Bounds <- LBounds
INVARIANTS
  RadiiCover
  OneEvidence
  StableIsStable
  NothingLeaks
  RosterHonoured
  SameModelAcrossPools
CHECK_DEADLOCK FALSE
