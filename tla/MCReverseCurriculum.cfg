\* Plans of 1 to 33 actions; the default budget, and one no search needs.
SPECIFICATION Spec
CONSTANTS
  Lens <- MCLens
  KStart = 2
  Budgets = {5, 14}
INVARIANTS
  NothingProbedTwice
  EdgePinned
  ProbesLogarithmic
CHECK_DEADLOCK FALSE
