SPECIFICATION Spec
CONSTANTS
  a = a
  b = b
  NumWindows = 2
  Span = 2
  MaxRev = 3
  ContentOf <- ThereAndBack
  SpoolMax = 1
  DedupeMax = 1
  FaultKinds = {"send", "io", "unexpected", "crash", "stop"}
  MaxFaults = 3
INVARIANTS
  TypeOK
  GaveUpIsKept
  DedupeMirrorsTopic
  LateCopiesStayOrdered
PROPERTIES
  SpoolDrains
  FeedConverges
