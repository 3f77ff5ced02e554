SPECIFICATION LiveSpec
CONSTANTS
  Actors = {a1}
  Categories <- TwoCategories
  Transitions = {"prepare-item", "integration-deliver"}
  MaxActs = 1
  MaxFaults = 0
  MaxCrashes = 1
PROPERTIES InterruptedRunOpens
CHECK_DEADLOCK FALSE
