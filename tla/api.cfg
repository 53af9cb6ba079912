SPECIFICATION ApiSpec
CONSTANTS
  i1 = i1
  i2 = i2
  u1 = u1
  u2 = u2
  s1 = s1
  s2 = s2
  h1 = h1
  h2 = h2
  Free = Free
  Ingests = {i1}
  Uploads = {u1, u2}
  Sockets = {s1}
  Pollers = {r1}
  Body <- MCBody
  Sender <- MCSender
  Warmup = 2
  Threats = {}
  th = th
  MaxItems = 2
  Persisted <- MCNothing
INVARIANTS
  ApiTypeOK
  LiveMetricsBalanced
  PolledMetricsLag
  EnoughMeansReady
  AnalysisOfOneCapture
  AnalysisStaleOnlyByFailure
PROPERTIES
  ListedHostsComplete
