SPECIFICATION Spec
CONSTANTS
  c1 = c1
  c2 = c2
  h1 = h1
  h2 = h2
  Nil = Nil
  Clients <- TwoClients
  Handlers <- OneHandler
  LiveClients <- TwoClients
  NumSlots = 2
  QCAP = 4
  MaxBatch = 2
  MaxReq = 2
  MaxResets = 0
  Faults <- MetricsFault
INVARIANT DoneMeansProcessed
CHECK_DEADLOCK FALSE
