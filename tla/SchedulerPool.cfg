SPECIFICATION Spec
CONSTANTS
  Requests = {r1, r2, r3, r4, r5, r6}
  None = None
  Profiles <- TwoBuckets
  MaxBatch = 2
  MaxWaiting = 3
  FlushWait = 1
  AgingPeriod = 2
  FlushBonus = 1000
  StepTicks = {1}
  MaxAge = 10
SYMMETRY Symmetry
INVARIANTS
  TypeOK
  Placed
  OldestFirst
  BoundedStay
  NoStepAfterLast
PROPERTIES
  BoundedOvertaking
  Batched
