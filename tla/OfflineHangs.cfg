SPECIFICATION FairSpec
CONSTANTS
  Prompts = {p1, p2, p3, p4}
  MaxBatch = 1
  MaxWaiting = 2
  MaxCall = 3
  Faults = {"step"}
PROPERTIES
  EveryCallEnds
CHECK_DEADLOCK FALSE
