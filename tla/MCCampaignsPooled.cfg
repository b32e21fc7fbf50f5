SPECIFICATION CampaignsSpec
CONSTANTS
  l1 = l1
  l2 = l2
  l3 = l3
  frozen = frozen
  altered = altered
  None = None
  Launchers <- MCLaunchers
  Identity <- MCIdentity
  Folds = {1, 2}
  Columns <- PanelColumns
  Experiments <- PanelExperiments
  Registered <- PanelRegistered
  QueryOf <- PanelQueries
  MaxLaunches = 3
  MaxFaults = 1
INVARIANTS
  PilotIsNotPooled
CHECK_DEADLOCK FALSE
