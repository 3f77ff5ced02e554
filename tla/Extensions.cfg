CONSTANTS
  Sessions <- MCSessions
  Commands <- MCCommands
  Working <- MCWorking
  Chunks <- MCChunks
  Visitors <- MCVisitors
  BatchSize = 1
  MaxCommands = 2
  MaxFaults = 1
  MaxEntries = 2
  MaxEdits = 2
  MaxOps = 3
  RewindFaults = 1
  MaxTitles = 5
  MaxTurns = 5
  MinTurnsBetweenUpdates = 2
  LauncherOrder <- MCLauncherOrder
  ReadyAttempts = 2
  Runs = {"r1", "r2"}
  Callers = {"c1", "c2"}
  MaxClock = 1
  MaxRecordCalls = 2
  RecordFaults = 1
  RoleNames = {"worker", "other"}
  PipelineNames = {"loop", "mine"}
  MaxChanges = 2
  MaxFileEdits = 1
  MaxOpens = 1
SPECIFICATION Spec
INVARIANTS  HandoffIsHonest 
PROPERTIES    EditorIsHonest
CHECK_DEADLOCK FALSE
