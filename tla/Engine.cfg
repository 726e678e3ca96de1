SPECIFICATION FairSpecEngine
CONSTANTS
  Mask = Mask
  Pad = Pad
  None = None
  PromptTokens = {Text}
  ArgmaxTokens = {Greedy}
  SampledTokens = {Sampled}
  ParamSpace <- LeapParams
  Rows = {r1, r2}
  Buckets = {1, 2, 4}
  MaxBatch = 2
  MaxWaiting = 2
  FlushWait = 1
  AgingPeriod = 2
  FlushBonus = 1000
  StepTicks = {1}
  MaxAge = 12
INVARIANTS
  ResultsAreComplete
  BudgetCoversBlock
  PlainRowsOnSchedule
PROPERTIES
  SchedulesAsSpecified
  DenoisesAsSpecified
  CommittedStable
  RowsIsolated
  EveryClientAnswered
CHECK_DEADLOCK FALSE
