\* on_demand, chunked prefill, requests that fit the budget and maybe not the watermark.
SPECIFICATION Spec
CONSTANTS
  KvPerToken = 1
  SwaShare = 0
  SwaWindow = 0
  N = 2
  PromptLens = {2}
  OutputLens = {2, 3}
  MaxBatch = 3
  Policy = "on_demand"
  KvBudget = 5
  Usable = 4
  PrefillFirst = TRUE
  Chunk = 2
PROPERTIES
  AllServed
