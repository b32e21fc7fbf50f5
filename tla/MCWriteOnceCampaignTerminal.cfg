SPECIFICATION Spec
CONSTANTS
  l1 = l1
  l2 = l2
  l3 = l3
  frozen = frozen
  altered = altered
  None = None
  Launchers <- MCLaunchers
  Identity <- MCIdentity
PROPERTIES
  FailureIsTerminal
CHECK_DEADLOCK FALSE
