SPECIFICATION WorkerSpec
CONSTANTS
  MaxCalls = 2
  MaxStarts = 2
  Large = {}
INVARIANTS
  TornDown
CHECK_DEADLOCK FALSE
