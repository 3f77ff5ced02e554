CONSTANTS
  MaxDepth = 2
  GraphFaults = 2
  Workflows <- MCWorkflows
  Pipelines <- MCPipelines
  Lanes = {"l1", "l2"}
  Finalizers = {"l1"}
  Roles = {"r"}
  Dispatched = {"d"}
  Planners = {"d"}
  MaxCloseAttempts = 2
  MaxVersions = 2
  MaxFaults = 1
  Processes = {"p", "q"}
  Artifacts <- MCArtifacts
  Names = {"a", "b", "c"}
  Segment <- MCSegment
  LivePlans <- MCLivePlans
  Sources = {"s", "t"}
  MaxSections = 2
  MaxPlans = 1
  MaxPlanEdits = 1
  MaxLaneFaults = 1
SPECIFICATION Spec
INVARIANTS NothingIsSwallowed GraphsAreSound OneBuild RecordIsSettled
PROPERTIES AgentsGetTheirImage RetriedAfterRepair EveryCallEnds WorkIsOwned
CHECK_DEADLOCK FALSE
