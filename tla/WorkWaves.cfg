SPECIFICATION Spec
CONSTANTS
  a = a
  b = b
  Items = {a, b}
  Needs <- BNeedsA
  PossiblePlans <- ShortPlans
  MaxWaves = 3
  CachedPlans = {TRUE, FALSE}
  MaxWriteFaults = 1
INVARIANTS WorkIsNotRepeated DoneIsDone OnlyOfferedWork
PROPERTY RecordKeepsTheWaves
CHECK_DEADLOCK FALSE
