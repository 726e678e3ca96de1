SPECIFICATION Spec
CONSTANTS
  Second = 1000000
  Window = 10000000
  Durations = {1000000, 12000000}
  Pauses = {15000000}
  Counts = {0, 32}
  MaxTime = 60000000
INVARIANTS
  ThroughputAttainable
CHECK_DEADLOCK FALSE
