SPECIFICATION Spec
CONSTANTS
  p1 = p1
  p2 = p2
  None = None
  Partitions = {p1, p2}
  Windows = {1, 2}
  Hashes = {h1, h2}
  PartitionOf <- SpreadWindows
  ForeignKinds = {"poison"}
  FaultKinds = {"crash", "stop", "commit", "dlq"}
  MaxLog <- TwoAndOne
  MaxFaults = 2
PROPERTIES
  ImplementsAtLeastOnce
  EveryEntryCommitted
CHECK_DEADLOCK FALSE
