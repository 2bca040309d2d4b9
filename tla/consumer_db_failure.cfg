SPECIFICATION Spec
CONSTANTS
  p1 = p1
  p2 = p2
  None = None
  Partitions = {p1, p2}
  Windows = {1, 2}
  Hashes = {h1, h2}
  PartitionOf <- SpreadWindows
  ForeignKinds = {"poison"}
  FaultKinds = {"db"}
  MaxLog <- TwoAndOne
  MaxFaults = 1
INVARIANT
  NoMessageLost
CHECK_DEADLOCK FALSE
