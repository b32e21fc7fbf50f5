SPECIFICATION WorkerSpec
CONSTANTS
  MaxCalls = 3
  MaxStarts = 3
  Large = {2}
INVARIANTS
  WorkersAreReaped
  AnswersOwnRequest
PROPERTIES
  CallsReturn
CHECK_DEADLOCK FALSE
