SPECIFICATION LiveSpec
CONSTANTS
  Items = {i1}
  Push = push
  Strategies = {"merge-commit", "squash", "rebase"}
  MaxPushes = 2
  MaxFaults = 2
  LostAcks = TRUE
INVARIANTS RecoverableFromJournal OutcomesAreTrue UnpublishedIsHonest
PROPERTY CallsReturn
CHECK_DEADLOCK FALSE
