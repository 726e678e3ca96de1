SPECIFICATION FairSpec
CONSTANTS
  None = None
  Bodies <- SomeBodies
  Clients = {c1, c2, c3}
  MaxBatch = 2
  MaxWaiting = 1
  Faults = {}
PROPERTIES
  SigtermExits
CHECK_DEADLOCK FALSE
