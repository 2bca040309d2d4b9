SPECIFICATION Spec
CONSTANTS
  None = None
  walker = walker
  rival = rival
  ours = ours
  theirs = theirs
  p = p
  q = q
  Callers = {walker, rival}
  Walker = walker
  Identity <- MCIdentity
  Limit = 1
  Window = 2
  Sources = {p, q}
  Windows = {1, 2, 3}
  PageSize = 2
  Ledgers <- MCLedgers
  Filters <- MCFilters
  MaxWrites = 1
  FaultKinds = {"redis", "db", "crash"}
  MaxFaults = 1
INVARIANTS
  TypeOK
  ThrottleHolds
  WalkIsComplete
PROPERTIES
  WalkEnds
