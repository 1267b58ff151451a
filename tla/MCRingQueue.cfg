SPECIFICATION FairSpec
CONSTANTS
  p1 = p1
  p2 = p2
  s1 = s1
  s2 = s2
  Procs <- TwoProcs
  Elems <- TwoElems
  Nil = Nil
  QCAP = 3
INVARIANTS
  MutualExclusion
  DecisionStillValid
PROPERTIES
  ImplementsFifo
  BlockedCallsMeet
