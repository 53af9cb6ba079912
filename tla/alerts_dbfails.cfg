SPECIFICATION Spec
CONSTANTS
  Alert <- MCAlert
  MaxItems = 2
  DbFails = TRUE
INVARIANTS
  TypeOK
  UnsavedWereRefused
  NothingResurrected
