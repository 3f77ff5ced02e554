SPECIFICATION Spec
CONSTANTS
  Branches = {b1, b2}
  Other = other
  MaxCandidates = 2
  MaxOthers = 0
  MaxFaults = 0
INVARIANT LanesSurvive
CHECK_DEADLOCK FALSE
