SPECIFICATION FairSpec
CONSTANTS
  None = None
  Bodies <- SomeBodies
  Clients = {c1, c2, c3}
  MaxBatch = 2
  MaxWaiting = 1
  Faults = {"template", "encode", "step", "decode"}
INVARIANTS
  TypeOK
  GaugeCountsServed
  NobodyForgotten
  WorkIsAwaited
PROPERTIES
  EveryClientAnswered
  DrainEndsEngine
  InterruptExits
CHECK_DEADLOCK FALSE
