CONSTANTS
  Mask = Mask
  Pad = Pad
  None = None
  PromptTokens = {Text}
  ArgmaxTokens = {Greedy}
  SampledTokens = {Sampled}
  ParamSpace <- MixedParams
  Rows = {r1, r2}
  Buckets = {1, 2, 4}
SPECIFICATION Spec
INVARIANTS
  GreedyRowsStayGreedy
CHECK_DEADLOCK FALSE
