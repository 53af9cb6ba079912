SPECIFICATION Spec
CONSTANTS
  Alert <- MCAlert
  MaxItems = 2
  DbFails = TRUE
INVARIANT AckedDurable
