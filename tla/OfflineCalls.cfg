SPECIFICATION FairSpec
CONSTANTS
  Prompts = {p1, p2, p3, p4}
  MaxBatch = 1
  MaxWaiting = 2
  MaxCall = 3
  Faults = {"encode", "step", "decode"}
INVARIANTS
  TypeOK
  OnlyFailuresLeaveWork
  OwnRequestsKept
  IdleDepthIsZero
PROPERTIES
  CallsEndOnCleanEngine
CHECK_DEADLOCK FALSE
