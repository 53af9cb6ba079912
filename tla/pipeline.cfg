SPECIFICATION PipelineSpec
CONSTANTS
  h1 = h1
  h2 = h2
  Hosts = {h1, h2}
  Flow <- MCFlow
  Window = 1
  MaxEventsPerKey = 3
  MaxAdds = 4
  FeatureCap = 2
  Threats = {"flood"}
  MaxItems = 2
  Persisted <- MCPersisted
  EngineFails = TRUE
  StoreFails = TRUE
INVARIANTS
  CountsMatchOutcomes
  AlertsExplained
  RejectionHasRecentCause
  LastDescribesOneEvent
CHECK_DEADLOCK FALSE
