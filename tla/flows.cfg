SPECIFICATION AggregatorSpec
CONSTANTS
  Keys = {k1, k2, k3}
  Times = {0, 1, 2}
  IdleTimeout = 1
  MaxFlows = 2
  MaxPackets = 5
SYMMETRY KeySymmetry
INVARIANTS
  AggregatorTypeOK
  EveryPacketOnce
  FlowsAreBursts
  StampsOfItsPackets
\* The capture ends.
CHECK_DEADLOCK FALSE
