SPECIFICATION DetectionSpec
CONSTANTS
  h0 = h0
  h1 = h1
  h2 = h2
  h3 = h3
  h4 = h4
  h5 = h5
  h6 = h6
  Hosts <- MCHosts
  Kinds <- MCKinds
  Anomalies = {0, 589, 800, 801}
  Deviations = {0, 300}
  Findings <- MCFindings
  MaxEvents <- MCMaxEvents
  Mixtures <- MCMixtures
INVARIANTS
  OneSourceSilent
  RulesCorroborateOnBoth
  AnomalyHeard
CHECK_DEADLOCK FALSE
