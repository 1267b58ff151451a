SPECIFICATION FairSpec
CONSTANTS
  Nil = Nil
  States <- GraphStates
  Actions <- TwoActions
  Succ <- Graph
  Terminal <- Ends
  Start = "a"
  BatchSize = 2
  StepCounts <- ThreeSteps
  MaxRuns = 2
CHECK_DEADLOCK FALSE
INVARIANTS
  LossesAreInFlight
  VisitsAddUp
  TreeIsClosed
  PenaltiesOnCycles
PROPERTIES
  PruningExact
  RunReturns
