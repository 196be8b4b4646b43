\* reserve, decode before prefill; half of the layers keep a window of two tokens.
SPECIFICATION Spec
CONSTANTS
  KvPerToken = 2
  SwaShare = 1
  SwaWindow = 2
  N = 4
  PromptLens = {1, 3}
  OutputLens = {1, 3}
  MaxBatch = 3
  Policy = "reserve"
  KvBudget = 17
  Usable = 17
  PrefillFirst = FALSE
  Chunk = 0
INVARIANTS
  ReserveCovers
  DecodeFirstSerialises
