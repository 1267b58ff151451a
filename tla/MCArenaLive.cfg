SPECIFICATION FairSpec
CONSTANTS
  c1 = c1
  c2 = c2
  h1 = h1
  h2 = h2
  Nil = Nil
  Clients <- TwoClients
  Handlers <- OneHandler
  LiveClients <- OneClient
  NumSlots = 2
  QCAP = 3
  MaxBatch = 2
  MaxReq = 2
  MaxResets = 0
  Faults <- FailedBatches
PROPERTY EveryRequestAnswered
