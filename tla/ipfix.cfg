SPECIFICATION IpfixSpec
CONSTANTS
  Exporters = {e1, e2}
  Domains = {d1, d2}
  Tids = {256}
  Layouts <- TwoLayouts
  Rows = {2}
  Shapes <- MessageShapes
  SeqSpace = 8
  MaxMessages = 3
  MaxRestarts = 1
  MaxBatch = 2
  MaxCalls = 2
SYMMETRY ExporterSymmetry
INVARIANTS
  RecoversWithTemplate
  IdsRepeatOnlyAcross
\* The exporters stop.
CHECK_DEADLOCK FALSE
