\* kv_watermark = 1: the whole budget is usable.  Two prompts of three tokens, in arrival order: the second
\* joins with 5 bytes while the first, at 7 of the 12, is about to hold 8.
SPECIFICATION Spec
CONSTANTS
  KvPerToken = 2
  SwaShare = 1
  SwaWindow = 2
  N = 2
  PromptLens = {3}
  OutputLens = {3}
  NP = 1
  ND = 1
  MaxBatch = 3
  Policy = "on_demand"
  KvBudget = 12
  Usable = 12
INVARIANT
  HardBudget
