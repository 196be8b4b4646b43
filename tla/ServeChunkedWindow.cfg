\* on_demand, chunked prefill of more tokens than the sliding window keeps.
SPECIFICATION Spec
CONSTANTS
  KvPerToken = 2
  SwaShare = 1
  SwaWindow = 2
  N = 2
  PromptLens = {1, 3}
  OutputLens = {1, 3}
  MaxBatch = 3
  Policy = "on_demand"
  KvBudget = 9
  Usable = 7
  PrefillFirst = TRUE
  Chunk = 2
INVARIANTS
  KvLedger
