SPECIFICATION Spec
CONSTANTS
  p1 = p1
  p2 = p2
  None = None
  Partitions = {p1, p2}
  Windows = {1, 2}
  Hashes = {h1}
  PartitionOf <- SpreadWindows
  ForeignKinds = {"null"}
  FaultKinds = {}
  MaxLog <- TwoAndOne
  MaxFaults = 0
PROPERTY
  EveryEntryCommitted
CHECK_DEADLOCK FALSE
