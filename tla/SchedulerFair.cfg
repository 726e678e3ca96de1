SPECIFICATION FairSpec
CONSTANTS
  Requests = {r1, r2, r3}
  None = None
  Profiles <- LeapOrNot
  MaxBatch = 2
  MaxWaiting = 2
  FlushWait = 1
  AgingPeriod = 2
  FlushBonus = 1000
  StepTicks = {1}
  MaxAge = 11
INVARIANTS
  NoStepAfterLast
  BoundedStay
PROPERTIES
  NoStarvation
