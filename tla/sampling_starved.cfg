\* The defaults of config.txt in ticks of a second, with a short burst and a
\* window of three measurements, the slowest of which is the percentile.
SPECIFICATION FairSpec
CONSTANTS
  Foregrounds = {f1, f2}
  Durations = {5, 20}
  StableInterval = 5
  ElevatedInterval = 1
  MinImmediate = 1
  MaxBurst = 4
  Backoff = 2
  CollectorBudget = 10
  P95Budget = 15
  Recovery = 3
  Window = 3
PROPERTIES SlowedNotStopped
CHECK_DEADLOCK FALSE
