SPECIFICATION Spec
CONSTANTS
  None = None
  Plants = {a}
  Windows = {1, 2}
  Files = {1, 2}
  MaxRev = 2
  MaxDrops = 2
  SpoolMax = 1
  FaultKinds = {"send", "io", "source", "foreign", "bridge", "db", "commit", "consumer"}
  MaxFaults = 2
INVARIANTS
  TypeOK
  GivenUpIsKept
  SuppressionIsJustified
PROPERTIES
  SpooledArrives
  LedgerConverges
CHECK_DEADLOCK FALSE
