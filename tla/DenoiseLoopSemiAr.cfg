CONSTANTS
  Mask = Mask
  Pad = Pad
  None = None
  PromptTokens = {Text}
  ArgmaxTokens = {Greedy}
  SampledTokens = {Sampled}
  ParamSpace <- LeapParams
  Rows = {r1}
  Buckets = {1, 2, 4}
SPECIFICATION Spec
PROPERTIES
  SemiAutoregressive
CHECK_DEADLOCK FALSE
