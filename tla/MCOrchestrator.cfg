\* Two iterations of two gatherers; one of two environments cannot be loaded;
\* killed once, and one failure.
SPECIFICATION FairSpec
CONSTANTS
  w1 = w1
  w2 = w2
  Workers <- MCWorkers
  Unsolved = Unsolved
  Absent = Absent
  NoAgent = NoAgent
  NumEnvs = 2
  BadEnvs = {1}
  Depths = {1}
  GatherThreshold = 2
  PromotionPercent = 55
  NumSlots = 2048
  ClientSlots = 2048
  MaxAgents = 4
  MaxIteration = 2
  MaxEpisode = 1
  MaxLines = 2
  MaxKills = 1
  MaxFailures = 1
INVARIANTS
  PromotionChain
  VerdictsAgree
  VerdictComplete
  NoLineLost
PROPERTIES
  PhasesInOrder
  CandidateIsNew
  EveryIterationEnds
CHECK_DEADLOCK FALSE
