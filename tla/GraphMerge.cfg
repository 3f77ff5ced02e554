SPECIFICATION Spec
CONSTANTS
  Branches = {b1, b2}
  Other = other
  MaxCandidates = 3
  MaxOthers = 1
  MaxFaults = 2
INVARIANTS OutcomeIsTrue RejectedStaysOut
SYMMETRY Symmetry
PROPERTY DeletedWasMerged
CHECK_DEADLOCK FALSE
