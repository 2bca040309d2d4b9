SPECIFICATION Spec
CONSTANTS
  None = None
  Horizon = 3
  Procs = {1, 2, 3}
  Loads = {2, 3}
  Durations = {0, 2, 4}
  Starts = {0, 2}
  Intensities = {1, 3}
  Capacities = {3, 5}
CHECK_DEADLOCK FALSE
INVARIANT
  SavingNeverNegative
