SPECIFICATION BaselineSpec
CONSTANTS
  Values = {0, 1, 9}
  FeatureCap = 4
  MaxObservations = 18
INVARIANTS
  StatsOfLearned
  LearnedRangeAccepted
PROPERTY GuardWeakensWithWindow
CHECK_DEADLOCK FALSE
