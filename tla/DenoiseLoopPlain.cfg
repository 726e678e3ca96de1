CONSTANTS
  Mask = Mask
  Pad = Pad
  None = None
  PromptTokens = {Text}
  ArgmaxTokens = {Greedy}
  SampledTokens = {Sampled}
  ParamSpace <- PlainParams
  Rows = {r1, r2, r3}
  Buckets = {1, 2, 4}
SPECIFICATION FairSpec
INVARIANTS
  LoopTypeOK
  BudgetCoversBlock
  CanvasFilled
  PlainRowsOnSchedule
PROPERTIES
  CommittedStable
  StepsForward
  RowsIsolated
  RowsMatchReference
  EveryRequestFinishes
CHECK_DEADLOCK FALSE
