\* Two calls, plans of one and two actions, one and three objectives, killed once.
SPECIFICATION Spec
CONSTANTS
  Objectives = {1, 3}
  PlanLens = {1, 2}
  MultiplierPercent = 50
  Consecutive = 2
  CuspReward = TRUE
  Frontier = 1
  Margin = 1
  MinLen = 2
  MaxProbes = 2
  DemoMin = 2
  GoldMinLen = 2
  GoldMinReward = 1
  MaxCalls = 2
  MaxDeaths = 1
INVARIANTS
  ResignsOnStreak
  CorpusComplete
  GoldAlsoInShard
  SpoiledByDeaths
  DemoOnThePlan
CHECK_DEADLOCK FALSE
