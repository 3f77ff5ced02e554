SPECIFICATION Spec
CONSTANTS
  Items = {i1}
  Push = push
  Strategies = {"merge-commit"}
  MaxPushes = 1
  MaxFaults = 0
  LostAcks = FALSE
INVARIANT DeliveredLeavesNoWorktree
CHECK_DEADLOCK FALSE
