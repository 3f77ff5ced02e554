SPECIFICATION Spec
CONSTANTS
  Items = {i1, i2}
  Push = push
  Strategies = {"merge-commit", "rebase"}
  MaxPushes = 0
  MaxFaults = 1
  LostAcks = TRUE
SYMMETRY Symmetry
PROPERTIES TargetIsVetted TargetOnlyAdvances ImplementsDelivery
CHECK_DEADLOCK FALSE
