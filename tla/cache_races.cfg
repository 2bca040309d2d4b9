SPECIFICATION Spec
CONSTANTS
  Consumer = consumer
  Readers = {r1, r2}
  None = None
  Windows = {1, 2}
  MaxRev = 2
  FaultKinds = {"get", "set", "del"}
  MaxFaults = 2
INVARIANTS
  TypeOK
  AnswersAreDurable
PROPERTIES
  RegressOnlyByRace
  CacheHeals
