SPECIFICATION Spec
CONSTANTS
  Pairs = {p1, p2, absent}
  Matching = {p1, p2}
  States = {s1}
  Rounds = {1}
  Evidence = {e1}
  MaxRecords = 5
  MaxLines = 6
CONSTRAINT Bounded
INVARIANTS
  WriteAhead
  RevealsAccounted
  AcknowledgedOnDisk
PROPERTIES
  NoStaleReveal
  NeverOverwritten
  ImplementsContract
CHECK_DEADLOCK FALSE
