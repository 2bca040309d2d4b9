SPECIFICATION Spec
CONSTANTS
  p1 = p1
  p2 = p2
  None = None
  Partitions = {p1, p2}
  Windows = {1, 2}
  Hashes = {h1, h2}
  PartitionOf <- SpreadWindows
  ForeignKinds = {"poison", "null"}
  FaultKinds = {"crash", "stop", "db", "commit", "dlq", "cache"}
  MaxLog <- TwoAndOne
  MaxFaults = 3
SYMMETRY HashSymmetry
INVARIANTS
  TypeOK
  LossHasCause
  AuditIsHighWater
  CaughtUpLedgerIsLatest
  RevisionsCountChanges
  CacheBehindLedger
CHECK_DEADLOCK FALSE
