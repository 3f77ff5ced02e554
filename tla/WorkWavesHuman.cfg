SPECIFICATION Spec
CONSTANTS
  a = a
  b = b
  Items = {a, b}
  Needs <- BNeedsA
  PossiblePlans <- ShortPlans
  MaxWaves = 2
  CachedPlans = {TRUE, FALSE}
  MaxWriteFaults = 0
INVARIANT HumanWorkIsLeft
CHECK_DEADLOCK FALSE
