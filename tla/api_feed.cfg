SPECIFICATION FairApiSpec
CONSTANTS
  i1 = i1
  i2 = i2
  u1 = u1
  u2 = u2
  s1 = s1
  s2 = s2
  h1 = h1
  h2 = h2
  Free = Free
  Ingests = {i1, i2}
  Uploads = {}
  Sockets = {s1, s2}
  Pollers = {}
  Body <- MCBody
  Sender <- MCSender
  Warmup = 2
  Threats = {th}
  th = th
  MaxItems = 2
  Persisted <- MCPersisted
INVARIANTS
  AttachedIsOwn
  SubscribersAreConnected
PROPERTIES
  IngestAnswered
  AlertReachesClients
CHECK_DEADLOCK FALSE
