\* on_demand, exclusive prefill; half of the layers keep a window of two tokens.
\* A prompt of eight tokens is over the watermark by itself, with its output within the budget.
SPECIFICATION Spec
CONSTANTS
  KvPerToken = 2
  SwaShare = 1
  SwaWindow = 2
  N = 4
  PromptLens = {1, 3, 8}
  OutputLens = {1, 3}
  MaxBatch = 3
  Policy = "on_demand"
  KvBudget = 13
  Usable = 9
  PrefillFirst = TRUE
  Chunk = 0
INVARIANTS
  TypeOK
  NoLostRequest
  KvLedger
  HardBudget
  TokenConservation
  FifoQueue
  PrefillAlwaysFits
  OverWatermarkWarned
PROPERTIES
  ImplementsService
  AllServed
