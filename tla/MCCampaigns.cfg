SPECIFICATION CampaignsSpec
CONSTANTS
  l1 = l1
  l2 = l2
  l3 = l3
  frozen = frozen
  altered = altered
  None = None
  Launchers <- MCLaunchers
  Identity <- MCIdentity
  Folds = {1, 2}
  Columns <- PanelColumns
  Experiments <- PanelExperiments
  Registered <- PanelRegistered
  QueryOf <- PanelQueries
  MaxLaunches = 3
  MaxFaults = 1
INVARIANTS
  LaunchedOnce
  OneIdentity
  UnitIsHonest
  ReportQuotesItsInputs
  PanelIsCrossfitted
  OutcomesAreHonest
PROPERTIES
  OutputIsWriteOnce
CHECK_DEADLOCK FALSE
