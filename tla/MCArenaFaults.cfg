SPECIFICATION Spec
CONSTANTS
  c1 = c1
  c2 = c2
  h1 = h1
  h2 = h2
  Nil = Nil
  Clients <- TwoClients
  Handlers <- OneHandler
  LiveClients <- TwoClients
  NumSlots = 1
  QCAP = 2
  MaxBatch = 1
  MaxReq = 2
  MaxResets = 1
  Faults <- FaultKinds
SYMMETRY Symmetry
INVARIANTS
  SlotOwnership
  MismatchOnlyAfterReset
  HangsOnlyIfAbandoned
CHECK_DEADLOCK FALSE
