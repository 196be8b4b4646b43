\* on_demand, chunks of two tokens mixed into the decode steps, a dense model.
SPECIFICATION Spec
CONSTANTS
  KvPerToken = 1
  SwaShare = 0
  SwaWindow = 0
  N = 4
  PromptLens = {1, 3}
  OutputLens = {1, 3}
  MaxBatch = 3
  Policy = "on_demand"
  KvBudget = 8
  Usable = 7
  PrefillFirst = TRUE
  Chunk = 2
INVARIANTS
  OverWatermarkAlone
  OnePrefill
