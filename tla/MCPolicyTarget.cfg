\* Three children and up to 9 visits; c_puct = 1.4 and k_forced = 2, the defaults.
SPECIFICATION Spec
CONSTANTS
  Children <- MCChildren
  Roots = {0, 1, 2, 3}
  Weights <- MCWeights
  Temps = {1, 2}
  Values <- MCValues
  ValueUnit = 2
  CNum = 7
  CDen = 5
  KForced = 2
INVARIANTS
  ForcedVisitsRemoved
  TargetFollowsSearch
CHECK_DEADLOCK FALSE
