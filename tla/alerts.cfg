SPECIFICATION Spec
CONSTANTS
  Alert <- MCAlert
  MaxItems = 2
  DbFails = FALSE
INVARIANTS
  AckedDurable
  ReopenAgrees
PROPERTY ImplementsLog
