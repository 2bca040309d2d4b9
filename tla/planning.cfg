SPECIFICATION FairSpec
CONSTANTS
  None = None
  Windows = {1, 2, 3}
  Plants = {p}
  Horizon = 2
  RowLimit = 2
  Intensities = {1, 2}
  Capacities = {0, 1}
  Load = 1
  Optimizer = optimizer
  PlanRequests = {planRequest}
  Orchestrator = orchestrator
  AskRequests = {}
  Databricks = TRUE
  Backlogs <- MCBacklogs
  FaultKinds = {"read", "store", "remote", "send", "crash", "reply"}
  MaxWrites = 1
  MaxFaults = 1
INVARIANTS
  TypeOK
  UndisturbedPlanIsBest
  AnnouncedIsStored
PROPERTIES
  ScheduleCatchesUp
  AdviceCatchesUp
