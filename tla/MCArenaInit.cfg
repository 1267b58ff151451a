\* One of the openers may be killed; the others may then wait for ever.
SPECIFICATION FairSpec
CONSTANTS
  o1 = o1
  o2 = o2
  o3 = o3
  Nil = Nil
  Openers <- ThreeOpeners
  NumSlots = 2
  MaxDeaths = 1
  Files = {"fresh", "older"}
INVARIANTS
  OneInitialiser
  OpenMeansInitialised
  SlotsExclusive
PROPERTY EveryOpenReturns
CHECK_DEADLOCK FALSE
