CONSTANTS
  anomaly = anomaly
  supervised = supervised
  a1 = a1
  a2 = a2
  s1 = s1
  wide = wide
  narrow = narrow
  None = None
  Partial = Partial
  Trainings = {a1, a2, s1}
  Detectors <- MCDetectors
  Trains <- MCTrains
  SchemaOf <- MCSchemaOf

SPECIFICATION ModelSpec
\* The trainings are finitely many, and a process that cannot load its files is gone.
CHECK_DEADLOCK FALSE

INVARIANTS
  ModelsTypeOK
  SpoiledNeedsRefit
  SavedWhenCalm
