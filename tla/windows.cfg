SPECIFICATION WindowSpec
CONSTANTS
  Hosts = {h1, h2}
  Flow <- MCFlow
  Window = 1
  MaxEventsPerKey = 2
  MaxAdds = 5
SYMMETRY HostSymmetry
INVARIANTS
  WindowTypeOK
  CapacityRespected
  OnlyOutdatedOrSurplusDropped
  OrderedBucketsFresh
CHECK_DEADLOCK FALSE
