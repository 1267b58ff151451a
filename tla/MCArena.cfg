SPECIFICATION Spec
CONSTANTS
  c1 = c1
  c2 = c2
  h1 = h1
  h2 = h2
  Nil = Nil
  Clients <- TwoClients
  Handlers <- TwoHandlers
  LiveClients <- TwoClients
  NumSlots = 2
  QCAP = 3
  MaxBatch = 2
  MaxReq = 2
  MaxResets = 0
  Faults <- FailedBatches
SYMMETRY Symmetry
INVARIANTS
  InFlightOnce
  NoSlotLeftUnmarked
  DoneMeansProcessed
  PushNeverBlocks
PROPERTY ImplementsService
